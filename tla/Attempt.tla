-------------------------------- MODULE Attempt --------------------------------
(***************************************************************************)
(* One attempt of a request at one URL of one channel (forwardAttempt):    *)
(* the upstream answer is relayed to the client while timers, the client   *)
(* and the upstream interfere (forwardOnceAsync*, handleSuccessResponse,   *)
(* handleTranslatedStreamSuccessResponse, streamCopy*, streamTransformSSE- *)
(* Events, deferredResponseWriter, requestContext, sseUsageParser), the    *)
(* way it ended becomes an error, a status or a success, and a failure is  *)
(* decided on and cooled (CooldownDecision).                               *)
(*                                                                         *)
(* An event of a stream is one of the kinds the parser tells apart.  What  *)
(* the client has seen is whether the answer was committed, that is, its   *)
(* head or a byte of it sent.  The result of the attempt keeps what its    *)
(* properties ask for, until the failure in it is decided on.              *)
(***************************************************************************)
EXTENDS CooldownDecision

CONSTANTS
    MaxReads,    \* bound: reads from one upstream answer
    RetryStrategies   \* ways to resend a Codex request after a 400

ASSUME AttemptAssumption == MaxReads \in Nat

VARIABLES
    req,         \* the request: streamed or not, how its answer is relayed,
                 \* RetryOtherKeysOnFailure, the retryStrategies used so far
    at,
    relay,       \* the relay of the current answer
    ctx,         \* the client's connection and the request's timers
    result,      \* of the attempt
    verdict      \* the failure decided on, the decision, the legacy one

attemptVars == <<req, at, relay, ctx, result, verdict>>

\* A streamed request: events copied, events copied up to the end of a Codex
\* stream, events translated, an answer that is no event stream.
EventModes == {"copy", "codex", "translate"}
StreamModes == EventModes \cup {"json"}
\* A request not streamed: Codex events collected into one answer; a body read
\* whole before it is written (protocol detection reads JSON and text); a body
\* copied as it comes.
BodyModes == {"collect", "buffered", "direct"}

Stream == req.stream
mode == req.mode

\* "stop" ends the stream with content, "done" ([DONE]) without.
Events == {"ping", "output", "error", "stop", "done"}

Fresh == [reads |-> 0, chunk |-> {}, output |-> FALSE, error |-> FALSE, complete |-> FALSE,
          committed |-> FALSE, stop |-> FALSE, err |-> "nil", diag |-> FALSE,
          blame |-> FALSE, cut |-> FALSE, unwritten |-> FALSE]
Calm == [client |-> "there", first |-> "armed", total |-> FALSE]
Pending == [kind |-> "pending", why |-> "nil", shown |-> FALSE, complete |-> FALSE, whole |-> FALSE,
            error |-> FALSE, cut |-> FALSE, late |-> FALSE, blame |-> FALSE, unwritten |-> FALSE]
Undecided == [in |-> [status |-> 0], decision |-> [retry |-> "pending"], legacy |-> [retry |-> "pending"]]

AttemptInit ==
    /\ req \in [stream : BOOLEAN, mode : {"none"}, fallback : BOOLEAN, resent : {{}}]
    /\ at = "send" /\ relay = Fresh /\ ctx = Calm
    /\ result = Pending /\ verdict = Undecided

\* reqCtx.ctx is done.
Cancelled == ctx.client = "gone" \/ ctx.first = "fired" \/ ctx.total

\* Its error: only the timeout of a request not streamed is a deadline, and
\* what comes after the first cause changes nothing.
ContextError == IF ctx.total /\ ~Stream THEN "deadline" ELSE "canceled"

-------------------------------------------------------------------------------
(* The client and the timers.  The connection breaks before net/http notices *)
(* it and cancels the request's context.                                   *)

Busy == at \in {"send", "read", "hook", "write", "settle"}

ClientLost ==
    /\ Busy /\ ctx.client = "there"
    /\ ctx' = [ctx EXCEPT !.client = "lost"]
    /\ UNCHANGED <<req, at, relay, result, verdict>>

ContextCancelled ==
    /\ Busy /\ ctx.client = "lost" /\ (Stream \/ ~ctx.total)
    /\ ctx' = [ctx EXCEPT !.client = "gone"]
    /\ UNCHANGED <<req, at, relay, result, verdict>>

\* The first-byte timer of a streamed request; Stop comes too late once it has
\* fired.
FirstByteTimeout ==
    /\ Busy /\ Stream /\ ctx.first = "armed"
    /\ ctx' = [ctx EXCEPT !.first = "fired"]
    /\ relay' = [relay EXCEPT !.blame = TRUE]
    /\ UNCHANGED <<req, at, result, verdict>>

\* streamTimeout, or nonStreamTimeout.
TotalTimeout ==
    /\ Busy /\ ~ctx.total /\ (Stream \/ ctx.client # "gone")
    /\ ctx' = [ctx EXCEPT !.total = TRUE]
    /\ relay' = [relay EXCEPT !.blame = TRUE]
    /\ UNCHANGED <<req, at, result, verdict>>

stopFirstByteTimer == [ctx EXCEPT !.first = IF @ = "armed" THEN "stopped" ELSE @]

-------------------------------------------------------------------------------
(* What a failure costs (CooldownDecision), and how an attempt ends.       *)

\* The ErrorInput of each failure: an error answer or event, which may state any
\* status; a stream that broke off, with a diagnosis for its body; an error.
InputsOf(why) ==
    CASE why = "answer" -> HTTPInputs
      [] why = "late" -> {i \in HTTPInputs : i.status = 598 /\ i.body = {}}
      [] why = "incomplete" -> {i \in HTTPInputs : i.status = 599 /\ i.body = {}}
      [] why = "firstbyte" -> {i \in NetInputs : i.status = 598 /\ i.scoped}
      [] why \in {"deadline", "empty"} -> {i \in NetInputs : i.status = 503 /\ i.scoped}
      [] why = "invalid" -> {i \in NetInputs : i.status = 503 /\ ~i.scoped}
      [] OTHER -> {i \in NetInputs : i.status = 503}

\* "failed" goes on to another key or channel, "broken" cannot; both cool.
Cooling == {"failed", "broken"}

End(kind, why) ==
    /\ result' = [kind |-> kind, why |-> why, shown |-> relay.committed,
                  complete |-> relay.complete, whole |-> relay.output /\ relay.complete /\ ~relay.error,
                  error |-> relay.error, cut |-> relay.cut,
                  late |-> ctx.first = "fired",
                  blame |-> relay.blame \/ why = "answer", unwritten |-> relay.unwritten]
    /\ at' = IF kind \in Cooling THEN "input" ELSE "done"
    /\ relay' = Fresh /\ ctx' = Calm
    /\ UNCHANGED <<req, verdict>>

\* httpErrorInput, networkErrorInput: of the result only the failure matters
\* from here on.
ErrorInput ==
    /\ at = "input"
    /\ at' = "decide"
    /\ req' = [req EXCEPT !.stream = FALSE, !.mode = "none", !.resent = {}]
    /\ result' = [Pending EXCEPT !.why = result.why]
    /\ UNCHANGED <<relay, ctx, verdict>>

applyCooldownDecision ==
    /\ at = "decide"
    /\ \E i \in InputsOf(result.why) :
         verdict' = [in |-> i, decision |-> Decide(i, req.fallback), legacy |-> HandleError(i, req.fallback)]
    /\ at' = "done"
    /\ UNCHANGED <<req, relay, ctx, result>>

-------------------------------------------------------------------------------
(* Before the answer.                                                      *)

\* TranslateRequest fails: another protocol is tried, or the client is told.
\* (BuildTransformPlan does not fail: protocolCandidatesForURL has made its test.)
TranslateFails ==
    /\ at = "send"
    /\ End("missing", "nil") \/ End("returned", "nil")

\* doUpstreamRequest: the channel's limit is reached.
LimitExceeded ==
    /\ at = "send"
    /\ End("skipped", "nil")

\* doUpstreamRequest fails, or its context ends.
SendFails ==
    /\ at = "send" /\ ~Cancelled
    /\ relay' = [relay EXCEPT !.err = "network", !.blame = TRUE]
    /\ at' = "settle"
    /\ UNCHANGED <<req, ctx, result, verdict>>

SendCancelled ==
    /\ at = "send"
    /\ Cancelled
    /\ relay' = [relay EXCEPT !.err = ContextError]
    /\ at' = "settle"
    /\ UNCHANGED <<req, ctx, result, verdict>>

\* handleErrorResponse and the end of forwardAttempt, for a status that is no
\* success and for an error found in a 200 (probeSoftErrorResponse).  A 400 of
\* Codex may be sent again, once a strategy, with new timers; one that was sent
\* again in vain is the client's.  An endpoint the upstream does not have is no
\* failure of the channel.
ErrorResponse ==
    /\ at = "send" /\ ~Cancelled
    /\ \/ \E s \in RetryStrategies \ req.resent :
            /\ req' = [req EXCEPT !.resent = @ \cup {s}]
            /\ ctx' = [Calm EXCEPT !.client = ctx.client]
            /\ relay' = Fresh
            /\ UNCHANGED <<at, result, verdict>>
       \/ End("missing", "nil")
       \/ /\ req.resent # {}
          /\ End("returned", "nil")
       \/ /\ req.resent = {}
          /\ End("failed", "answer")

\* invalidHTMLSuccessResponseResult, probeEmptyOKResponse.
BadAnswer ==
    /\ at = "send" /\ ~Cancelled
    /\ \E e \in {"invalid"} \cup (IF Stream THEN {} ELSE {"empty"}) :
         relay' = [relay EXCEPT !.err = e, !.blame = TRUE]
    /\ at' = "settle"
    /\ UNCHANGED <<req, ctx, result, verdict>>

\* A 2xx answer; a body copied as it comes is preceded by its head.
Headers ==
    /\ at = "send" /\ ~Cancelled
    /\ \E m \in IF Stream THEN StreamModes ELSE BodyModes :
         /\ req' = [req EXCEPT !.mode = m]
         /\ relay' = [relay EXCEPT !.committed = m = "direct"]
    /\ at' = "read"
    /\ UNCHANGED <<ctx, result, verdict>>

-------------------------------------------------------------------------------
(* The end of the relay: the tails of handleSuccessResponse, of handle-    *)
(* TranslatedStreamSuccessResponse and of handleCodexOAuthNonStream-       *)
(* SuccessResponse.                                                        *)

\* Mutant of Diagnosed: the client's leaving is a broken stream.
DiagnosedAlways(r, e) == Stream /\ e # "nil" /\ ~r.complete

\* buildStreamDiagnostics: a streamed answer broke off and was not complete,
\* the client's leaving excepted.
Diagnosed(r, e) == Stream /\ e \notin {"nil", "canceled"} /\ ~r.complete

\* Mutant of Ended: only a lost client is forgiven after the end of the stream.
EndedStrict(r, e) ==
    LET empty == Stream /\ e = "nil" /\ ~r.error /\ ~r.output
    IN  [r EXCEPT !.chunk = {}, !.diag = Diagnosed(r, e), !.blame = @ \/ empty,
                  !.err = IF empty THEN "empty"
                          ELSE IF r.complete /\ e = "canceled" THEN "nil" ELSE e]

\* Mutant of Ended: streams are forgiven the closing of HTTP/2 as bodies are.
EndedForgiving(r, e) ==
    LET empty == Stream /\ e = "nil" /\ ~r.error /\ ~r.output
        closed == e = "read" /\ r.reads > 0
    IN  [r EXCEPT !.chunk = {}, !.diag = ~closed /\ Diagnosed(r, e), !.blame = @ \/ empty,
                  !.err = IF empty THEN "empty"
                          ELSE IF Stream /\ (r.complete \/ closed) THEN "nil" ELSE e]

\* An answer without content is an error; after the end of the stream nothing
\* that still goes wrong is one.
Ended(r, e) ==
    LET empty == Stream /\ e = "nil" /\ ~r.error /\ ~r.output
    IN  [r EXCEPT !.chunk = {}, !.diag = Diagnosed(r, e), !.blame = @ \/ empty,
                  !.err = IF empty THEN "empty" ELSE IF Stream /\ r.complete THEN "nil" ELSE e]

\* Collected events end in the answer written, or in an error event, a
\* diagnosis, or a last event that holds no answer.
Collected(r, e) ==
    IF r.error THEN {[r EXCEPT !.err = "nil"]}
    ELSE IF e # "nil" THEN {[r EXCEPT !.err = e, !.diag = e # "canceled"]}
    ELSE IF ~r.complete THEN {[r EXCEPT !.diag = TRUE, !.blame = TRUE]}
    ELSE {[r EXCEPT !.committed = TRUE]} \cup
         {[r EXCEPT !.err = "translate", !.diag = d, !.blame = TRUE] : d \in BOOLEAN}

EndRelay(r, e) ==
    /\ relay' \in IF mode = "collect" THEN Collected([r EXCEPT !.chunk = {}], e) ELSE {Ended(r, e)}
    /\ at' = "settle"

-------------------------------------------------------------------------------
(* Reading and passing on.                                                 *)

\* A read returns while the context is live: an event, or two in one buffer
\* where buffers are copied; a body.
Chunks ==
    CASE mode = "copy" -> {c \in SUBSET Events : Cardinality(c) \in 1..2}
      [] mode \in {"codex", "translate", "collect"} -> {{x} : x \in Events}
      [] OTHER -> {{"output"}}

Read ==
    /\ at = "read" /\ ~Cancelled /\ relay.reads < MaxReads
    /\ \E c \in Chunks : relay' = [relay EXCEPT !.chunk = c, !.reads = @ + 1]
    /\ at' = "hook"
    /\ UNCHANGED <<req, ctx, result, verdict>>

\* The upstream closes the answer.  An empty body not streamed was found before.
Closed ==
    /\ at = "read" /\ ~Cancelled
    /\ Stream \/ relay.reads > 0 \/ mode = "collect"
    /\ EndRelay(relay, "nil")
    /\ UNCHANGED <<req, ctx, result, verdict>>

\* The connection breaks.  What breaks before the first event, or in a body read
\* whole, is found by the protocol detection and returned without a diagnosis.
\* A body not streamed may break as HTTP/2 streams do at their end.
Broken ==
    LET cut == [relay EXCEPT !.cut = TRUE, !.blame = TRUE]
    IN  /\ at = "read" /\ ~Cancelled
        /\ \/ /\ relay.reads = 0 /\ mode \in EventModes \cup {"buffered"}
              /\ relay' = [cut EXCEPT !.err = "read"]
              /\ at' = "settle"
           \/ /\ ~(relay.reads = 0 /\ mode \in EventModes \cup {"buffered"})
              /\ EndRelay(cut, "read")
           \/ /\ relay.reads > 0 /\ mode = "direct"
              /\ EndRelay(cut, "nil")
        /\ UNCHANGED <<req, ctx, result, verdict>>

\* Mutant of ReadCancelled: the client's context is watched, not the request's.
ReadCancelledByParent ==
    /\ at = "read" /\ ctx.client = "gone"
    /\ EndRelay(relay, ContextError)
    /\ UNCHANGED <<req, ctx, result, verdict>>

\* closeReaderOnContextCancel, normalizeStreamReadError: the end of the context
\* closes the body, and is the error whatever the read returned.
ReadCancelled ==
    /\ at = "read" /\ Cancelled
    /\ EndRelay(relay, ContextError)
    /\ UNCHANGED <<req, ctx, result, verdict>>

\* sseUsageParser.Feed, jsonUsageParser.Feed: any body counts as output; [DONE]
\* is no end for the collector.
Fed(r) ==
    [r EXCEPT !.output = @ \/ r.chunk \cap {"output", "stop"} # {},
              !.error = @ \/ "error" \in r.chunk,
              !.complete = @ \/ "stop" \in r.chunk \/ ("done" \in r.chunk /\ Stream),
              !.blame = @ \/ "error" \in r.chunk]

\* The hook before the write: nothing is committed once an error was seen.
beforeWrite(r) ==
    IF r.output /\ ~r.error THEN [r EXCEPT !.committed = TRUE] ELSE r

\* onData, onRawEvent and transform for a streamed request.  A translation may
\* end the stream with any content, and may fail.
Hook ==
    LET fed == Fed(relay)
        r == beforeWrite(fed)
        abort == fed.error /\ ~r.committed
    IN  /\ at = "hook" /\ Stream
        /\ ctx' = IF fed.error \/ fed.output \/ fed.complete THEN stopFirstByteTimer ELSE ctx
        /\ \/ /\ abort     \* errAbortStreamBeforeWrite
              /\ EndRelay(fed, "nil")
           \/ /\ ~abort
              /\ \E done \in IF mode = "translate" /\ r.output THEN BOOLEAN ELSE {FALSE} :
                   LET t == [r EXCEPT !.complete = @ \/ done]
                   IN  relay' = [t EXCEPT !.stop = mode \in {"codex", "translate"} /\ t.complete]
              /\ at' = "write"
           \/ /\ ~abort /\ mode = "translate"
              /\ EndRelay([r EXCEPT !.blame = TRUE], "translate")
        /\ UNCHANGED <<req, result, verdict>>

\* codexNonStreamCollector.consume and done; the parser of a body.
Collect ==
    LET fed == [Fed(relay) EXCEPT !.chunk = {}]
    IN  /\ at = "hook" /\ ~Stream
        /\ IF mode # "collect" THEN relay' = fed /\ at' = "write"
           ELSE IF fed.error \/ fed.complete THEN EndRelay(fed, "nil")
           ELSE relay' = fed /\ at' = "read"
        /\ UNCHANGED <<req, ctx, result, verdict>>

\* dst.Write and Flush: into the buffer before the commit.  A Codex stream ends
\* here when it is complete, a translated one only if its upstream is Codex.
Write ==
    LET r == [relay EXCEPT !.chunk = {}]
    IN  /\ at = "write" /\ mode # "buffered"
        /\ \/ /\ r.stop => mode = "translate"
              /\ relay' = r
              /\ at' = "read"
           \/ /\ r.stop
              /\ EndRelay(r, "nil")
           \/ /\ ctx.client # "there" /\ r.committed
              /\ EndRelay([r EXCEPT !.unwritten = TRUE], "write")
        /\ UNCHANGED <<req, ctx, result, verdict>>

\* The body read whole is written after the head, unless the context has ended;
\* a translated one is written all the same.
WriteBody ==
    LET r == [relay EXCEPT !.committed = TRUE]
    IN  /\ at = "write" /\ mode = "buffered"
        /\ \/ EndRelay(r, "nil")
           \/ Cancelled /\ EndRelay(r, ContextError)
           \/ ctx.client # "there" /\ EndRelay([r EXCEPT !.unwritten = TRUE], "write")
        /\ UNCHANGED <<req, ctx, result, verdict>>

-------------------------------------------------------------------------------
(* The end of forwardOnceAsync* and of forwardAttempt.                     *)

\* The error after the fix-ups: a timer that fired is the cause, then the
\* context, but for an error of the sending.
Cause ==
    CASE relay.err = "nil" -> "nil"
      [] relay.err # "nil" /\ ctx.first = "fired" -> "firstbyte"
      [] relay.err # "nil" /\ ctx.first # "fired" /\ ctx.total /\ Stream -> "streamtimeout"
      [] OTHER -> IF Cancelled /\ relay.err # "network" THEN ContextError ELSE relay.err

\* Mutant of handleCommittedAwareProxyError: the commit is not looked at.
handleUncommittedProxyError(why) == End("failed", why)

handleCommittedAwareProxyError(why) ==
    IF relay.committed THEN End("broken", why) ELSE End("failed", why)

\* handleNetworkError: a client that left is not held against the channel, nor
\* a broken pipe, to whichever side; the commit is not looked at.
handleNetworkError(why) ==
    \/ /\ why \in {"canceled", "write", "network"}
       /\ End("canceled", "nil")
    \/ /\ why # "canceled"
       /\ End("failed", why)

Settle ==
    /\ at = "settle"
    /\ CASE Cause # "nil" /\ (relay.diag \/ Cause = "streamtimeout") ->
              handleCommittedAwareProxyError(IF Cause = "firstbyte" THEN "late" ELSE "incomplete")
         [] Cause # "nil" /\ ~(relay.diag \/ Cause = "streamtimeout") -> handleNetworkError(Cause)
         [] Cause = "nil" /\ relay.error -> handleCommittedAwareProxyError("answer")
         [] Cause = "nil" /\ ~relay.error /\ relay.diag -> handleCommittedAwareProxyError("incomplete")
         [] OTHER -> End("success", "nil")

-------------------------------------------------------------------------------
Interference == ClientLost \/ ContextCancelled \/ FirstByteTimeout \/ TotalTimeout
Upstream == SendFails \/ ErrorResponse \/ BadAnswer \/ Headers \/ Read \/ Closed \/ Broken
Proxy == SendCancelled \/ ReadCancelled \/ Hook \/ Collect \/ Write \/ WriteBody \/ Settle

AttemptNext ==
    \/ Interference
    \/ TranslateFails \/ LimitExceeded
    \/ Upstream
    \/ Proxy
    \/ ErrorInput \/ applyCooldownDecision

\* The proxy goes on whenever it can; the upstream, the client and the timers
\* need not do anything.
AttemptSpec == AttemptInit /\ [][AttemptNext]_attemptVars /\ WF_attemptVars(Proxy)

-------------------------------------------------------------------------------
\* An attempt is only repeated elsewhere while the client has seen nothing of
\* it.  (The two exceptions the code has: a first-byte timer that fired before
\* it was stopped, and bodies not streamed, whose errors handleNetworkError
\* retries without a look at the commit.)
NoRetryAfterBytes ==
    result.kind = "failed" /\ result.shown => result.late \/ mode \in {"direct", "buffered"}

\* A stream whose content and end were read is a success, whatever the client,
\* the timers and the connection did after the end.  None that carried an error,
\* or whose connection broke before its end, is, nor one of which the client has
\* seen nothing.  (The exception the code has: the end alone was read, and then
\* the connection broke or the client left.)  And what is cooled failed upstream,
\* or could not be written to the client.
OutcomeEarned ==
    /\ Stream =>
        /\ result.whole => result.kind = "success"
        /\ result.kind = "success" =>
             /\ ~result.error
             /\ result.cut => result.complete
             /\ result.shown \/ (result.complete /\ ~result.whole)
    /\ result.kind \in Cooling => result.blame \/ result.unwritten

\* Every punishment ordered lands: on a model only if one is named, on the
\* channel until the end the upstream gave for it, never on a key when the limit
\* is shared by the keys; and it leads to a retry.  Decide and ApplyEffect write
\* what the HandleError* entry points wrote, and go on the same way.
PunishmentLands ==
    LET i == verdict.in
        a == classifyDecision(i)
        written == ApplyEffect(verdict.decision, i)
    IN  verdict # Undecided =>
          /\ verdict.decision.effect # "None" => written[1] # "nothing"
          /\ written[1] = "model" => NamesModel(i)
          /\ verdict.decision.retry = "None" <=> written[1] = "nothing"
          /\ a.action = "RetryChannel" /\ a.channelUntil # "none" => written = <<"channel", a.channelUntil>>
          /\ a.prevent => written[1] # "key"
          /\ written = verdict.legacy.write
          /\ verdict.decision.retry = verdict.legacy.retry

\* Once the client has left or a timer has fired, the attempt ends without the
\* upstream's doing: a read that waits is closed.
CancelEnds == Busy /\ Cancelled ~> ~Busy
===============================================================================
