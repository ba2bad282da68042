--------------------------- MODULE CooldownDecision ---------------------------
(***************************************************************************)
(* What a failed attempt costs: the classifier (ClassifyHTTPResponseWith-  *)
(* Meta), the configured detection rules, cooldown.Manager.classify-       *)
(* Decision, the key fallback, and the store calls they lead to, compared  *)
(* with the legacy HandleError* entry points they replace.                 *)
(*                                                                         *)
(* A response body is the set of features the recognisers look for, a      *)
(* status one representative of each class, a reset time the name of what  *)
(* it was read from, if there is any.                                      *)
(***************************************************************************)
EXTENDS Integers, FiniteSets

CONSTANT MaxFeatures   \* bound: recognised features of one body

Statuses == {400, 401, 404, 405, 408, 410, 413, 418, 429, 499, 500, 503,
             596, 597, 598, 599}
StatusSSEError == 597

\* One of these at most: they are cases of one switch over one error code.
QuotaFeatures == {"model_cooldown", "model_cooldown_until", "key_quota", "window_quota"}
Features == QuotaFeatures \cup
    {"1308", "ws_limit", "context_length", "service_error",
     "model_unavailable", "suspended", "account_limit"}

Bodies == {b \in SUBSET Features : /\ Cardinality(b) <= MaxFeatures
                                   /\ Cardinality(b \cap QuotaFeatures) <= 1
                                   /\ ~ {"1308", "service_error"} \subseteq b}

\* Headers: nothing of interest, a wide scope or long Retry-After, a unified
\* or standard reset time.
HeaderKinds == {"none", "wide", "reset"}
RuleScopes == {"none", "key", "model", "channel"}

HTTPInputs ==
    [net : {FALSE}, scoped : {FALSE}, status : Statuses, body : Bodies,
     headers : HeaderKinds, rule : RuleScopes,
     hasKey : BOOLEAN, model : BOOLEAN, bodyModel : BOOLEAN]
NetInputs ==
    [net : {TRUE}, scoped : BOOLEAN, status : {500, 503, 598, 599},
     body : {{}}, headers : {"none"}, rule : RuleScopes,
     hasKey : BOOLEAN, model : BOOLEAN, bodyModel : {FALSE}]
Inputs == HTTPInputs \cup NetInputs

(***************************************************************************)
(* The classifier.                                                         *)
(***************************************************************************)
Class(level, scoped) ==
    [level |-> level, scoped |-> scoped, keyUntil |-> "none", modelUntil |-> "none",
     channelUntil |-> "none", prevent |-> FALSE]

\* statusCodeMetaMap and its defaults.
StatusLevel(s) ==
    CASE s \in {408, 410, 413} -> "client"
      [] s \in {596, 597} -> "key"
      [] s = 405 \/ s >= 500 -> "channel"
      [] OTHER -> "key"

IsModelScopedHTTPStatus(s) == s >= 500 /\ s < 596
IsModelScopedStreamFailure(s) == s \in {598, 599}

QuotaClass(s, b) ==
    CASE "model_cooldown" \in b -> Class("key", TRUE)
      [] "model_cooldown_until" \in b ->
           [Class("key", TRUE) EXCEPT !.modelUntil = "quota"]
      [] "window_quota" \in b /\ s = 429 ->
           [Class("channel", TRUE) EXCEPT !.modelUntil = "quota"]
      [] "window_quota" \in b /\ s # 429 ->
           [Class("channel", FALSE) EXCEPT !.channelUntil = "quota"]
      [] OTHER -> [Class("key", FALSE) EXCEPT !.keyUntil = "quota"]

RateLimitClass(b, h) ==
    LET level == IF h = "wide" \/ "account_limit" \in b THEN "channel" ELSE "key"
    IN  IF h = "reset"
        THEN [Class(level, TRUE) EXCEPT !.modelUntil = "header", !.prevent = TRUE]
        ELSE Class(level, TRUE)

\* classifyHTTPResponseWithMetaAt: the first case that applies.
ClassifyHTTP(s, b, h) ==
    IF s = 499 THEN Class("channel", TRUE)
    ELSE IF "1308" \in b THEN [Class("key", FALSE) EXCEPT !.keyUntil = "1308"]
    ELSE IF "ws_limit" \in b THEN [Class("channel", FALSE) EXCEPT !.channelUntil = "ws_limit"]
    ELSE IF b \cap QuotaFeatures # {} THEN QuotaClass(s, b)
    ELSE IF s \in {StatusSSEError, 400, 413} /\ "context_length" \in b THEN Class("client", FALSE)
    ELSE IF s = StatusSSEError
         THEN LET sse == "service_error" \in b IN Class(IF sse THEN "channel" ELSE "key", sse)
    ELSE IF IsModelScopedStreamFailure(s) THEN Class("channel", TRUE)
    ELSE IF s = 429 THEN RateLimitClass(b, h)
    ELSE IF s = 400 THEN Class("key", TRUE)
    ELSE IF s = 410 /\ "model_unavailable" \in b THEN Class("channel", TRUE)
    ELSE IF s = 404
         THEN LET gone == "model_unavailable" \in b IN Class(IF gone THEN "client" ELSE "channel", gone)
    ELSE IF s # 401 THEN Class(StatusLevel(s), IsModelScopedHTTPStatus(s))
    ELSE Class(IF "suspended" \in b THEN "channel" ELSE "key", FALSE)

(***************************************************************************)
(* classifyDecision.                                                       *)
(***************************************************************************)
\* in.Model, or the model the quota body names; a 499 is classified without its body.
NamesModel(i) ==
    \/ i.model
    \/ /\ i.status # 499
       /\ i.bodyModel
       /\ i.body \cap {"model_cooldown", "model_cooldown_until"} # {}

Act(action, modelScoped, k, m, c, prevent) ==
    [action |-> action, modelScoped |-> modelScoped, keyUntil |-> k,
     modelUntil |-> m, channelUntil |-> c, prevent |-> prevent]

\* configuredCooldownDecision: a rule that cannot be applied is passed over.
RuleApplies(i) ==
    /\ ~i.net
    /\ \/ i.rule = "key" /\ i.hasKey
       \/ i.rule = "model" /\ i.model
       \/ i.rule = "channel"

RuleDecision(i) ==
    CASE i.rule = "key" -> Act("RetryKey", FALSE, "rule", "none", "none", FALSE)
      [] i.rule = "model" -> Act("RetryModel", TRUE, "none", "rule", "none", FALSE)
      [] i.rule = "channel" -> Act("RetryChannel", FALSE, "none", "none", "rule", FALSE)

\* Mutant of LevelAction: OAuth channels get a key action.
LevelActionNoPromotion(level, hasKey) ==
    CASE level = "key" -> "RetryKey" [] level = "channel" -> "RetryChannel"
      [] OTHER -> "ReturnClient"

\* The last switch of classifyDecision; a channel without keys (OAuth) is
\* punished as a whole.
LevelAction(level, hasKey) ==
    CASE level = "key" -> IF hasKey THEN "RetryKey" ELSE "RetryChannel"
      [] level = "channel" -> "RetryChannel"
      [] OTHER -> "ReturnClient"

NetDecision(i) ==
    IF (i.scoped \/ IsModelScopedStreamFailure(i.status)) /\ i.model
    THEN Act("RetryModel", TRUE, "none", "none", "none", FALSE)
    ELSE Act("RetryChannel", FALSE, "none", "none", "none", FALSE)

HTTPDecision(i) ==
    LET c == ClassifyHTTP(i.status, i.body, i.headers)
        \* An exact key reset of a channel without keys lands on the model.
        oauth == ~i.hasKey /\ c.keyUntil # "none" /\ i.model
        scoped == \/ oauth
                  \/ c.scoped /\ NamesModel(i)
                  \/ /\ ~c.scoped /\ c.level = "channel" /\ c.channelUntil = "none"
                     /\ IsModelScopedHTTPStatus(i.status) /\ i.model
        modelUntil == CASE oauth -> c.keyUntil
                        [] ~oauth /\ c.scoped /\ NamesModel(i) -> c.modelUntil
                        [] OTHER -> "none"
    IN  Act(IF scoped THEN "RetryModel" ELSE LevelAction(c.level, i.hasKey), scoped,
            c.keyUntil, modelUntil, c.channelUntil, scoped /\ c.prevent)

classifyDecision(i) ==
    IF RuleApplies(i) THEN RuleDecision(i)
    ELSE IF i.net THEN NetDecision(i) ELSE HTTPDecision(i)

(***************************************************************************)
(* Decisions, and the store call ApplyEffect makes for them.               *)
(***************************************************************************)
legacyToDecision(a) ==
    [retry |-> CASE a.action = "RetryKey" -> "NextKey"
                 [] a.action = "ReturnClient" -> "None"
                 [] OTHER -> "NextChannel",
     effect |-> CASE a.action = "RetryKey" -> "CoolKey"
                  [] a.action = "RetryModel" -> "CoolModel"
                  [] a.action = "RetryChannel" -> "CoolChannel"
                  [] OTHER -> "None",
     keyUntil |-> a.keyUntil, modelUntil |-> a.modelUntil, channelUntil |-> a.channelUntil]

\* Mutant of canFallbackToOtherKey: explicit channel cooldowns fall back too.
canFallbackToAnyKey(i, a) == i.hasKey /\ a.action \in {"RetryModel", "RetryChannel"}

canFallbackToOtherKey(i, a) ==
    /\ i.hasKey
    /\ a.action \in {"RetryModel", "RetryChannel"}
    /\ ~a.prevent
    /\ a.channelUntil = "none"

\* Mutant of keyFallbackDecision: the exact reset time is not copied.
keyFallbackWithoutUntil(a) ==
    [retry |-> "NextKey", effect |-> "CoolKey", keyUntil |-> "none",
     modelUntil |-> a.modelUntil, channelUntil |-> a.channelUntil]

keyFallbackDecision(a) ==
    [retry |-> "NextKey", effect |-> "CoolKey",
     keyUntil |-> IF a.modelUntil # "none" THEN a.modelUntil ELSE a.channelUntil,
     modelUntil |-> a.modelUntil, channelUntil |-> a.channelUntil]

Decide(i, fb) ==
    LET a == classifyDecision(i)
    IN  IF fb /\ canFallbackToOtherKey(i, a) THEN keyFallbackDecision(a) ELSE legacyToDecision(a)

\* ApplyEffect: the row it writes ("none" = back off), nothing for an effect on a
\* key the channel does not have.
ApplyEffect(d, i) ==
    CASE d.effect = "CoolKey" /\ i.hasKey -> <<"key", d.keyUntil>>
      [] d.effect = "CoolModel" -> <<"model", d.modelUntil>>
      [] d.effect = "CoolChannel" -> <<"channel", d.channelUntil>>
      [] OTHER -> <<"nothing", "none">>

\* HandleError, HandleErrorWithKeyFallback: handleErrorDecision and
\* handleKeyFallback, as a write and the retry it stands for.
HandleError(i, fb) ==
    LET a == classifyDecision(i)
    IN  IF fb /\ canFallbackToOtherKey(i, a)
        THEN [write |-> <<"key", a.modelUntil>>, retry |-> "NextKey"]
        ELSE CASE a.action = "ReturnClient" -> [write |-> <<"nothing", "none">>, retry |-> "None"]
               [] a.action = "RetryKey" ->
                    [write |-> IF i.hasKey THEN <<"key", a.keyUntil>> ELSE <<"nothing", "none">>,
                     retry |-> "NextKey"]
               [] a.action = "RetryModel" ->
                    [write |-> <<"model", a.modelUntil>>, retry |-> "NextChannel"]
               [] OTHER ->
                    [write |-> <<"channel", a.channelUntil>>, retry |-> "NextChannel"]
===============================================================================
