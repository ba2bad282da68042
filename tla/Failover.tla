------------------------------- MODULE Failover -------------------------------
(***************************************************************************)
(* One proxied request on its way through the candidates: the channel loop *)
(* (runProxyAttemptLoopWithFailureBoundary), the keys of a channel         *)
(* (tryChannelWithKeys) or its OAuth credential (tryCodexOAuthChannel,     *)
(* tryAntigravityOAuthChannel), the URLs of a key and the protocols of a   *)
(* URL (attemptKeyAcrossURLs), and what a failed attempt cools             *)
(* (handleProxyErrorResponse, handleNetworkError).                         *)
(*                                                                         *)
(* What the upstream answers is a class of outcomes, one for every way the *)
(* code reacts.  A candidate is visited once, so its configuration, its    *)
(* key cooldowns and what is known of its URLs' protocols are chosen when  *)
(* the request gets there; other requests cool and clear keys meanwhile.   *)
(* A channel serves further models, so a model cooldown never exhausts it. *)
(***************************************************************************)
EXTENDS Integers, Sequences, FiniteSets, FiniteSetsExt

CONSTANTS
    N,           \* candidates, tried in order
    Keys,        \* a keyed channel's keys for the requested model
    MaxRetries,  \* Server.maxKeyRetries
    Configs,     \* configurations a candidate may have
    Known,       \* what may be known of a URL's protocols on arrival
    MaxOthers,   \* bound: changes of a candidate's keys by other requests
    Nil

ASSUME FailoverAssumption ==
    /\ N \in Nat \ {0} /\ MaxRetries \in Nat \ {0} /\ MaxOthers \in Nat
    /\ "unknown" \in Known /\ Known \subseteq {"unknown", "unsupported", "native", "translated"}
    /\ IsFiniteSet(Keys) /\ Nil \notin Keys
    /\ Configs # {} /\ Configs \subseteq
           [oauth : BOOLEAN,     \* UsesCodexOAuth or UsesAntigravityOAuth
            otherKeys : BOOLEAN, \* RetryOtherKeysOnFailure
            rescue : BOOLEAN,    \* CooldownFallback: chosen though all is cooled
            spare : BOOLEAN,     \* it has one more key, not for this model
            urls : 1..2]

VARIABLES
    alpha,    \* an alpha/search request
    req,      \* where the request is
    gone,     \* the client has gone away
    sticky,   \* the scope's remembered channel
    cfg,      \* the candidate being tried,
    keyCool,  \* its keys in cooldown,
    cap,      \* and its protocolCapabilities, per URL
    others,   \* changes made by other requests
    tries,    \* history: attempts <<key, url, protocol, refresh>> on the candidate,
    twice,    \* an attempt was repeated,
    blame,    \* the candidate's failures, "server" apart from the others,
    marks     \* and the cooldowns they caused, <<kind, which>>

hist == <<tries, twice, blame>>
vars == <<alpha, req, gone, sticky, cfg, keyCool, cap, others, hist, marks>>

Channels == 1..N
Urls == 1..2
\* The client's own protocol, and one the request is translated to.  The candidates
\* are those the transform supports (supportsProtocolCandidate), which is what
\* BuildTransformPlan tests again: its error branch in forwardAttempt is dead.
Protocols == {"native", "translated"}
\* A failure the channel answers for, and how it is classified: a bad key, a
\* 5xx, a 5xx under a channel rule, a first-byte timeout or broken stream,
\* another error status of the channel or a network error.
Failures == {"key", "server", "ruled", "timeout", "status"}
NoResult == [retry |-> "nil", class |-> "nil"]
Result(retry, class) == [retry |-> retry, class |-> class]
Results == {NoResult} \cup
    [retry : {"None", "NextKey", "NextChannel"},
     class : Failures \cup {"client", "cancel", "missing", "credential"}]
\* orderURLsWithSelector: any order; the second URL may be switched off by hand.
Orders(n) == IF n = 1 THEN {<<1>>} ELSE {<<1, 2>>, <<2, 1>>, <<1>>}
NoKey == Nil
Capabilities == [Urls -> {"unknown", "unsupported"} \cup Protocols]

TypeOK ==
    /\ cfg \in Configs /\ alpha \in BOOLEAN
    /\ req.pc \in {"channel", "key", "credential", "url", "attempt", "done"}
    /\ req.ch \in 1..N + 1 /\ req.key \in Keys \cup {NoKey}
    /\ req.tried \subseteq Keys /\ req.snap \subseteq Keys
    /\ Cardinality(req.tried) <= IF cfg.otherKeys THEN Cardinality(Keys) ELSE MaxRetries
    /\ req.urls \in {<<>>, <<2>>} \cup Orders(2)
    /\ req.protos \in Seq(Protocols) /\ req.refresh \in 0..1
    /\ req.urlFail \in Results /\ req.last \in {"nil", "failed", "client", "cancel"}
    /\ req.missing \in BOOLEAN
    /\ gone \in BOOLEAN /\ others \in 0..MaxOthers
    /\ keyCool \subseteq Keys /\ cap \in Capabilities
    /\ sticky \in Channels \cup {Nil}

\* On the way to candidate c.
AtChannel(c, last, missing) ==
    [pc |-> "channel", ch |-> c, key |-> NoKey, tried |-> {}, snap |-> {},
     urls |-> <<>>, protos |-> <<>>, refresh |-> 0, urlFail |-> NoResult,
     last |-> last, missing |-> missing, answer |-> "pending"]

Init ==
    /\ cfg = CHOOSE c \in Configs : TRUE    \* nothing yet: see Arrive
    /\ keyCool = {} /\ cap = [u \in Urls |-> "unknown"]
    /\ alpha \in BOOLEAN
    /\ req = AtChannel(1, "nil", FALSE)
    /\ gone = FALSE /\ others = 0
    /\ sticky \in Channels \cup {Nil}
    /\ tries = {} /\ twice = FALSE /\ blame = {} /\ marks = {}

(***************************************************************************)
(* The channel loop.                                                       *)
(***************************************************************************)

\* What the request finds at the candidate it comes to next.
Arrive ==
    /\ cfg' \in Configs
    /\ keyCool' \in IF cfg'.oauth THEN {{}} ELSE SUBSET Keys
    /\ cap' \in {c \in [Urls -> Known] : \A u \in Urls : u > cfg'.urls => c[u] = "unknown"}
    /\ tries' = {} /\ blame' = {} /\ marks' = {} /\ others' = 0

\* The candidate could not be tried; the loop goes on.
SkipChannel == req' = AtChannel(req.ch + 1, req.last, req.missing)

\* A result that forbids a retry ends the loop.
AfterResult(r) ==
    AtChannel(IF r.retry = "None" THEN N + 1 ELSE req.ch + 1,
              IF r.retry = "None" THEN r.class ELSE "failed",
              req.missing \/ (alpha /\ r.class = "missing"))

\* Mutant of LeaveChannel: the remembered channel is kept.
LeaveChannelSticky(r) ==
    /\ UNCHANGED sticky
    /\ req' = AfterResult(r)

\* The candidate returned a result that is not a success: stickiness is
\* cleared.
LeaveChannel(r) ==
    /\ sticky' = Nil
    /\ req' = AfterResult(r)

\* determineFinalClientStatus, and the empty answer to an alpha search no
\* upstream implements.
FinalAnswer ==
    IF req.missing /\ req.last \in {"nil", "failed"} THEN "empty"
    ELSE IF req.last = "nil" THEN "unavailable" ELSE req.last

Final ==
    /\ req.pc = "channel" /\ req.ch > N
    /\ req' = [req EXCEPT !.pc = "done", !.answer = FinalAnswer]
    /\ UNCHANGED <<alpha, gone, sticky, cfg, keyCool, cap, others, hist, marks>>

(***************************************************************************)
(* tryChannelWithKeys and its OAuth counterparts.                          *)
(***************************************************************************)
TryChannel ==
    /\ req.pc = "channel" /\ req.ch <= N
    /\ Arrive
    /\ \/ /\ gone
          /\ LeaveChannel(Result("None", "cancel"))
       \/ /\ ~gone /\ cfg'.oauth
          /\ req' = [req EXCEPT !.pc = "credential"]
          /\ UNCHANGED sticky
       \/ /\ ~gone /\ ~cfg'.oauth
          /\ req' = [req EXCEPT !.pc = "key", !.snap = keyCool']
          /\ UNCHANGED sticky
       \/ /\ ~gone /\ ~cfg'.oauth    \* getAPIKeys fails or lists nothing usable
          /\ SkipChannel
          /\ UNCHANGED sticky
    /\ UNCHANGED <<alpha, gone, twice>>

\* codexCredentials.credential, forced to refresh in the second round.
Credential ==
    /\ req.pc = "credential"
    /\ \/ /\ LeaveChannel(Result("NextChannel", "credential"))
       \/ /\ \E o \in Orders(cfg.urls) : req' = [req EXCEPT !.pc = "url", !.urls = o,
                                                          !.urlFail = NoResult]
          /\ UNCHANGED sticky
    /\ UNCHANGED <<alpha, cfg, gone, keyCool, cap, others, hist, marks>>

KeyBudget == IF cfg.otherKeys THEN Cardinality(Keys) ELSE Min({MaxRetries, Cardinality(Keys)})

\* SelectAvailableKey, then SelectCooldownFallbackKey for a rescue candidate.
Selectable ==
    LET fresh == (Keys \ req.tried) \ req.snap
    IN  IF fresh # {} \/ ~cfg.rescue THEN fresh ELSE Keys \ req.tried

\* Mutant of SelectKey: triedKeys is not kept.
SelectKeyForgetful ==
    /\ req.pc = "key" /\ ~gone /\ Cardinality(req.tried) < KeyBudget
    /\ \E k \in Keys \ req.snap, o \in Orders(cfg.urls) :
           req' = [req EXCEPT !.pc = "url", !.key = k, !.urls = o, !.urlFail = NoResult]
    /\ UNCHANGED <<alpha, cfg, gone, keyCool, cap, sticky, others, hist, marks>>

SelectKey ==
    /\ req.pc = "key" /\ ~gone /\ Cardinality(req.tried) < KeyBudget
    /\ \E k \in Selectable, o \in Orders(cfg.urls) :
           req' = [req EXCEPT !.pc = "url", !.key = k, !.tried = @ \cup {k},
                              !.urls = o, !.urlFail = NoResult]
    /\ UNCHANGED <<alpha, cfg, gone, keyCool, cap, sticky, others, hist, marks>>

\* ErrAllKeysUnavailable: the whole channel is cooled as by a 503.
NoKeyAvailable ==
    /\ req.pc = "key" /\ ~gone /\ Cardinality(req.tried) < KeyBudget
    /\ Selectable = {}
    /\ SkipChannel
    /\ sticky' = Nil
    /\ marks' = marks \cup {<<"channel", Nil>>}
    /\ UNCHANGED <<alpha, cfg, gone, keyCool, cap, others, hist>>

KeyLoopEnds ==
    /\ req.pc = "key"
    /\ gone \/ Cardinality(req.tried) = KeyBudget
    /\ LeaveChannel(IF Cardinality(req.tried) < KeyBudget THEN Result("None", "cancel")
                    ELSE req.urlFail)
    /\ UNCHANGED <<alpha, cfg, gone, keyCool, cap, others, hist, marks>>

(***************************************************************************)
(* attemptKeyAcrossURLs.                                                   *)
(***************************************************************************)
U == Head(req.urls)
Defer == cfg.urls > 1 /\ Len(req.urls) > 1

\* Mutant of UrlLoopEnds: every 401 refreshes the credential.
RefreshAlways ==
    /\ req.pc = "url" /\ req.urls = <<>>
    /\ IF req.urlFail.class = "key" /\ cfg.oauth
       THEN req' = [req EXCEPT !.pc = "credential"] /\ UNCHANGED sticky
       ELSE LeaveChannel(req.urlFail)
    /\ UNCHANGED <<alpha, cfg, gone, keyCool, cap, others, hist, marks>>

\* What the key loop, or the credential loop, does with the last failure.
UrlLoopEnds ==
    /\ req.pc = "url" /\ req.urls = <<>>
    /\ \/ /\ cfg.oauth /\ req.refresh = 0 /\ req.urlFail.class = "key"
          /\ req' = [req EXCEPT !.pc = "credential", !.refresh = 1]
          /\ UNCHANGED sticky
       \/ /\ ~cfg.oauth /\ req.urlFail.retry = "NextKey"
          /\ req' = [req EXCEPT !.pc = "key"]
          /\ UNCHANGED sticky
       \/ /\ req.urlFail.retry # "NextKey"
          /\ ~ (cfg.oauth /\ req.refresh = 0 /\ req.urlFail.class = "key")
          /\ LeaveChannel(req.urlFail)
    /\ UNCHANGED <<alpha, cfg, gone, keyCool, cap, others, hist, marks>>

NextURL ==
    /\ req.pc = "url" /\ req.urls # <<>>
    /\ LET known == cap[U]
       IN  \/ /\ gone
              /\ LeaveChannel(Result("None", "cancel"))
           \/ /\ ~gone /\ known = "unsupported"
              /\ req' = [req EXCEPT !.urls = Tail(@), !.urlFail = Result("NextChannel", "missing")]
              /\ UNCHANGED sticky
           \/ /\ ~gone /\ known # "unsupported"
              /\ req' = [req EXCEPT !.pc = "attempt",
                                    !.protos = IF known = "translated" THEN <<"translated", "native">>
                                              ELSE <<"native", "translated">>]
              /\ UNCHANGED sticky
    /\ UNCHANGED <<alpha, cfg, gone, keyCool, cap, others, hist, marks>>

(***************************************************************************)
(* forwardAttempt.                                                         *)
(***************************************************************************)
Try ==
    /\ req.pc = "attempt"
    /\ LET t == <<req.key, U, Head(req.protos), req.refresh>>
       IN  tries' = tries \cup {t} /\ twice' = (twice \/ t \in tries)

Learn == cap' = [cap EXCEPT ![U] = Head(req.protos)]

Done(how) == req' = [req EXCEPT !.pc = "done", !.answer = how]

\* handleProxySuccess: the channel, the key and the model are cleared.
Success ==
    /\ Try /\ ~gone
    /\ Learn
    /\ keyCool' = keyCool \ {req.key}
    /\ marks' = {x \in marks : x[1] \notin {"channel", "model"} /\ x # <<"key", req.key>>}
    /\ sticky' = req.ch
    /\ Done("ok")
    /\ UNCHANGED <<alpha, cfg, gone, others, blame>>

\* Decide and ApplyEffectWithKeyFallback, as classified in CooldownDecision.
CanFallback(o) == cfg.otherKeys /\ req.key # NoKey /\ o \in {"server", "status", "timeout"}

EffectOf(o) ==
    IF req.key # NoKey /\ (o = "key" \/ CanFallback(o)) THEN "key"
    ELSE IF o \in {"server", "timeout"} THEN "model" ELSE "channel"

\* applyCooldownDecision: the cooldown, and the channel's when that was the
\* last of its keys.
CooledKeys(o) == keyCool \cup (IF EffectOf(o) = "key" THEN {req.key} ELSE {})
Exhausted(o) == /\ EffectOf(o) # "channel" /\ ~cfg.oauth /\ ~cfg.spare
                /\ Keys \subseteq CooledKeys(o)
Cooled(o) ==
    {<<EffectOf(o), IF EffectOf(o) = "key" THEN req.key ELSE Nil>>}
    \cup IF Exhausted(o) THEN {<<"channel", Nil>>} ELSE {}

RetryOf(o) == IF EffectOf(o) = "key" /\ ~Exhausted(o) THEN "NextKey" ELSE "NextChannel"
CooledURL == {<<"url", U>>}

\* Mutant of Deferred: the deferred failure of every URL is dropped.
DeferredAlways(o) == EffectOf(o) # "key"

\* With further URLs to come a failure of the channel is only decided.
Deferred(o) == Defer /\ EffectOf(o) # "key"

\* The next URL is tried: not after a key's failure that leaves another key,
\* a single URL, or a failure that is the model's.
TriesNextURL(o) ==
    /\ RetryOf(o) # "NextKey"
    /\ cfg.urls > 1
    /\ o \notin {"server", "ruled"}

\* A 5xx under a channel rule is applied after all when the loop breaks off.
AppliedLate(o) == o = "ruled" /\ cfg.urls > 1

Blamed(o) == IF o = "server" THEN o ELSE "other"

Failure(o) ==
    /\ Try /\ ~gone
    /\ Learn
    /\ LET applied == ~Deferred(o) \/ AppliedLate(o)
           on == TriesNextURL(o)
       IN  /\ keyCool' = IF applied THEN CooledKeys(o) ELSE keyCool
           /\ marks' = marks \cup (IF applied THEN Cooled(o) ELSE {})
                             \cup (IF on THEN CooledURL ELSE {})
           /\ req' = [req EXCEPT !.pc = "url",
                                 !.urls = IF on THEN Tail(@) ELSE <<>>,
                                 !.urlFail = Result(RetryOf(o), o)]
    /\ blame' = blame \cup {Blamed(o)}
    /\ UNCHANGED <<alpha, cfg, gone, sticky, others>>

\* handleStreamingErrorNoRetry: bytes have been sent, the failure is cooled
\* and counts as a success.
Broken(o) ==
    /\ Try /\ ~gone
    /\ Learn
    /\ keyCool' = CooledKeys(o) /\ marks' = marks \cup Cooled(o)
    /\ blame' = blame \cup {Blamed(o)}
    /\ sticky' = req.ch
    /\ Done("broken")
    /\ UNCHANGED <<alpha, cfg, gone, others>>

\* A client error, or a Codex retry that failed; or the client has gone.
ReturnClient(o) ==
    /\ req.pc = "attempt"
    /\ o = "cancel" <=> gone
    /\ Learn
    /\ LeaveChannel(Result("None", o))
    /\ UNCHANGED <<alpha, cfg, gone, keyCool, others, hist, marks>>

\* Mutant of Missing: the URL without the endpoint is cooled.
MissingCools ==
    /\ Try /\ ~gone
    /\ cap' = [cap EXCEPT ![U] = "unsupported"]
    /\ req' = [req EXCEPT !.pc = "url", !.urls = Tail(@), !.urlFail = Result("NextChannel", "missing")]
    /\ marks' = marks \cup CooledURL
    /\ UNCHANGED <<alpha, cfg, gone, keyCool, sticky, others, blame>>

\* isProtocolEndpointMissing: the next protocol, then the next URL.
Missing ==
    /\ Try /\ ~gone
    /\ IF Len(req.protos) > 1
       THEN req' = [req EXCEPT !.protos = Tail(@)] /\ UNCHANGED cap
       ELSE /\ cap' = [cap EXCEPT ![U] = "unsupported"]
            /\ req' = [req EXCEPT !.pc = "url", !.urls = Tail(@),
                                  !.urlFail = Result("NextChannel", "missing")]
    /\ UNCHANGED <<alpha, cfg, gone, keyCool, sticky, others, blame, marks>>

\* ErrChannelRPMExceeded, ErrChannelConcurrencyExceeded.
LimitExceeded ==
    /\ req.pc = "attempt" /\ ~gone
    /\ SkipChannel
    /\ sticky' = Nil
    /\ UNCHANGED <<alpha, cfg, gone, keyCool, cap, others, hist, marks>>

(***************************************************************************)
(* The environment.                                                        *)
(***************************************************************************)
ClientGone ==
    /\ ~gone /\ req.pc # "done"
    /\ gone' = TRUE
    /\ UNCHANGED <<alpha, req, cfg, keyCool, cap, sticky, others, hist, marks>>

\* Another request cools a key, or clears it by a success.  Only the end of an
\* attempt reads keyCool (the request selects from its snapshot), so a change
\* made earlier is the same as one made while the attempt is out.
OtherRequest(k) ==
    /\ others < MaxOthers /\ req.pc = "attempt" /\ ~cfg.oauth
    /\ others' = others + 1
    /\ keyCool' = IF k \in keyCool THEN keyCool \ {k} ELSE keyCool \cup {k}
    /\ UNCHANGED <<alpha, req, gone, sticky, cfg, cap, hist, marks>>

Step ==
    \/ TryChannel \/ Credential \/ SelectKey \/ NoKeyAvailable \/ KeyLoopEnds
    \/ NextURL \/ UrlLoopEnds \/ Success \/ Missing \/ LimitExceeded
    \/ (\E o \in Failures : Failure(o))
    \/ (\E o \in {"key", "timeout"} : Broken(o))
    \/ (\E o \in {"client", "cancel"} : ReturnClient(o))
    \/ Final

Next == Step \/ ClientGone \/ \E k \in Keys : OtherRequest(k)

\* Every call the handler makes ends: attempts have timeouts.
Spec == Init /\ [][Next]_vars /\ WF_vars(Step)
-------------------------------------------------------------------------------
\* One request makes at most one attempt with the same key at the same URL in the
\* same protocol, and another only with a refreshed credential (within an attempt
\* codexRetryBodyFor400 resends a changed body, each strategy once).
NeverTriedTwice == ~twice

Left == req.pc \in {"channel", "done"}

\* A failure is remembered: when the request leaves a channel that failed it, a
\* key, the model, the channel or a URL has been cooled, unless the channel then
\* served the request.  A 5xx from one of several URLs is left out: its cooldown is
\* deferred, and the URL loop breaks off before the code that would apply it
\* (proxy_forward.go:2807), so that nothing may be cooled.
FailureCooled ==
    /\ Left /\ req.answer # "ok"
    /\ \E o \in blame : o # "server" \/ cfg.urls = 1
    => marks # {}

\* Nobody is punished for what it did not do: limits, missing endpoints, client
\* errors and cancellations cool nothing; a channel is cooled unblamed only when
\* none of its keys could be chosen.
NoMarkWithoutBlame ==
    marks # {} => blame # {} \/ (~cfg.oauth /\ marks = {<<"channel", Nil>>})

\* The remembered channel is the one that served the request; a request that
\* failed with an answer of an upstream leaves none.
StickyTracksOutcome ==
    req.pc = "done" => \/ req.answer \in {"ok", "broken"} /\ sticky = req.ch
                       \/ req.answer \notin {"ok", "broken", "unavailable", "empty"} /\ sticky = Nil
                       \/ req.answer \in {"unavailable", "empty"}

\* A request leaves behind what its outcome says: no failure goes without its
\* cooldown, nobody is cooled for another's, and the channel remembered is the
\* one that served.
OutcomeRecorded == FailureCooled /\ NoMarkWithoutBlame /\ StickyTracksOutcome

\* The request is answered, whatever the upstreams do.
Answered == <>(req.pc = "done")
===============================================================================
