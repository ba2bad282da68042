----------------------------- MODULE ClaudeStream -----------------------------
(***************************************************************************)
(* Upstream streams translated for clients of the Anthropic protocol       *)
(* (src/internal/protocol/cliproxy/{openai,gemini,codex}/claude and the     *)
(* adapter src/internal/protocol/builtin/cliproxy_adapter.go).             *)
(*                                                                         *)
(* A translator is an operator on s = [p, c]: p is the translator's own     *)
(* state, which the relay keeps for the length of one answer, and c is the  *)
(* client, an automaton that takes the events one by one and notes a fault  *)
(* when an event is not allowed where it comes.  Emitting an event is a      *)
(* step of the client.                                                     *)
(***************************************************************************)
EXTENDS UpstreamStreams

-------------------------------------------------------------------------------
(* The client.  Content blocks are numbered from zero in the order in which *)
(* they start; a delta goes to an open block of its own kind; message_delta *)
(* comes when every block is closed.                                       *)

ClaudeClient == [phase |-> "none", next |-> 0, open |-> {}, announced |-> {}, reason |-> "",
                 fault |-> FALSE, torn |-> FALSE, got |-> [ch \in Lanes |-> 0]]

message_start(c) ==
    [c EXCEPT !.phase = "open", !.fault = @ \/ c.phase # "none"]

content_block_start(c, i, ch) ==
    [c EXCEPT !.next = @ + 1, !.open = @ \cup {<<i, ch>>}, !.announced = @ \cup {ch},
              !.fault = @ \/ c.phase # "open" \/ i # c.next \/ (ch \in Tools \cap c.announced)]

\* Pieces from..to of a lane; a signature belongs to a block of thinking.
content_block_delta(c, i, ch, from, to) ==
    [c EXCEPT !.got[ch] = to, !.torn = @ \/ from # c.got[ch] + 1,
              !.fault = @ \/ <<i, IF ch = "signature" THEN "thinking" ELSE ch>> \notin c.open]

content_block_stop(c, i) ==
    [c EXCEPT !.open = {b \in @ : b[1] # i}, !.fault = @ \/ ~ \E b \in c.open : b[1] = i]

message_delta(c, reason) ==
    [c EXCEPT !.phase = "delta", !.reason = reason, !.fault = @ \/ c.phase # "open" \/ c.open # {}]

message_stop(c) ==
    [c EXCEPT !.phase = "stop", !.fault = @ \/ c.phase # "delta"]

-------------------------------------------------------------------------------
(* From OpenAI chat completions.                                           *)

\* A block's index is -1 while the block is not open.
OpenAIParams == [started |-> FALSE, text |-> -1, thinking |-> -1, next |-> 0, saw |-> FALSE,
                 finish |-> "", stopped |-> FALSE, deltaSent |-> FALSE, stopSent |-> FALSE,
                 acc |-> [t \in Tools |-> [id |-> FALSE, name |-> FALSE, args |-> 0, start |-> -1]]]

\* Plausible bug: the block stays noted as open.
stopBlock_Noted(s, ch) ==
    IF s.p[ch] = -1 THEN s ELSE [s EXCEPT !.c = content_block_stop(s.c, s.p[ch])]

\* stopTextContentBlock, stopThinkingContentBlock
stopBlock(s, ch) ==
    IF s.p[ch] = -1 THEN s
    ELSE [p |-> [s.p EXCEPT ![ch] = -1], c |-> content_block_stop(s.c, s.p[ch])]

\* A piece of text or thinking closes the block of the other kind and opens its
\* own at the next index.
Piece(s, ch, other, no) ==
    LET t == stopBlock(s, other)
        i == IF t.p[ch] = -1 THEN t.p.next ELSE t.p[ch]
        opened == IF t.p[ch] = -1 THEN content_block_start(t.c, i, ch) ELSE t.c
    IN  [p |-> [t.p EXCEPT ![ch] = i, !.next = IF t.p[ch] = -1 THEN @ + 1 ELSE @],
         c |-> content_block_delta(opened, i, ch, no, no)]

emitToolUseStart(s, t) ==
    LET r == stopBlock(stopBlock(s, "thinking"), "text")
    IN  [p |-> [r.p EXCEPT !.acc[t].start = r.p.next, !.next = @ + 1, !.saw = TRUE],
         c |-> content_block_start(r.c, r.p.next, t)]

ToolDelta(s, e) ==
    LET t == e.body
        r == [s EXCEPT !.p.acc[t].id = @ \/ e.id, !.p.acc[t].name = @ \/ e.name,
                       !.p.acc[t].args = IF e.no > 0 THEN e.no ELSE @]
        a == r.p.acc[t]
    IN  IF a.start = -1 /\ a.name /\ a.id /\ ~r.p.stopped THEN emitToolUseStart(r, t) ELSE r

\* Plausible bug: a call whose id never came is passed over.
stopToolCall_Strict(s, t) ==
    IF s.p.acc[t].start = -1 THEN s
    ELSE LET a == s.p.acc[t]
             sent == IF a.args > 0 THEN content_block_delta(s.c, a.start, t, 1, a.args) ELSE s.c
         IN  [s EXCEPT !.c = content_block_stop(sent, a.start)]

\* A call with a name and no id is announced now; all arguments go out at once.
stopToolCall(s, t) ==
    IF s.p.acc[t].start = -1 /\ ~s.p.acc[t].name THEN s
    ELSE LET r == IF s.p.acc[t].start = -1 THEN emitToolUseStart(s, t) ELSE s
             a == r.p.acc[t]
             sent == IF a.args > 0 THEN content_block_delta(r.c, a.start, t, 1, a.args) ELSE r.c
         IN  [r EXCEPT !.c = content_block_stop(sent, a.start)]

StopAll(s) ==
    LET r == stopBlock(stopBlock(s, "thinking"), "text")
    IN  IF r.p.stopped THEN r
        ELSE [FoldLeft(stopToolCall, r, Calls) EXCEPT !.p.stopped = TRUE]

\* Plausible bug: a finish reason without a call that was announced is believed.
StopReason_Raw(p) == IF p.finish = "tool_calls" THEN "tool_use" ELSE p.finish

\* effectiveOpenAIFinishReason, mapOpenAIFinishReasonToAnthropic
StopReason(p) ==
    IF p.saw THEN "tool_use" ELSE IF p.finish = "length" THEN "max_tokens" ELSE "end_turn"

Conclude(s) ==
    LET d == IF s.p.deltaSent THEN s.c ELSE message_delta(s.c, StopReason(s.p))
    IN  [p |-> [s.p EXCEPT !.deltaSent = TRUE, !.stopSent = TRUE],
         c |-> IF s.p.stopSent THEN d ELSE message_stop(d)]

convertOpenAIStreamingChunkToAnthropic(s, e) ==
    LET begun == IF e.body # "none" /\ ~s.p.started
                   THEN [p |-> [s.p EXCEPT !.started = TRUE], c |-> message_start(s.c)] ELSE s
        content == CASE e.body = "thinking" -> Piece(begun, "thinking", "text", e.no)
                     [] e.body = "text" -> Piece(begun, "text", "thinking", e.no)
                     [] e.body \in Tools -> ToolDelta(begun, e)
                     [] OTHER -> begun
        reason == IF content.p.saw THEN "tool_calls"
                  ELSE IF e.finish = "tool_calls" THEN "stop" ELSE e.finish
        finished == IF e.finish = "" THEN content
                    ELSE StopAll([content EXCEPT !.p.finish = reason])
    IN  IF e.usage /\ finished.p.finish # "" /\ ~finished.p.deltaSent
          THEN Conclude(finished) ELSE finished

convertOpenAIDoneToAnthropic(s) ==
    LET r == StopAll(s)
    IN  Conclude([r EXCEPT !.p.finish = IF @ = "" THEN "stop" ELSE @])

ConvertOpenAIResponseToClaude(s, e) ==
    IF e.type = "[DONE]" THEN convertOpenAIDoneToAnthropic(s)
    ELSE convertOpenAIStreamingChunkToAnthropic(s, e)

-------------------------------------------------------------------------------
(* From Gemini: one block at a time, of the lane in ResponseType.       *)

GeminiParams == [first |-> FALSE, type |-> "", index |-> 0, content |-> FALSE, saw |-> FALSE, final |-> FALSE]

\* The number on the signature lane is that of the client.
appendSignatureDelta(s) ==
    IF s.p.type # "thinking" THEN s
    ELSE [p |-> [s.p EXCEPT !.content = TRUE],
          c |-> content_block_delta(s.c, s.p.index, "signature", s.c.got["signature"] + 1, s.c.got["signature"] + 1)]

\* Plausible bug: the index moves on with the block that is opened only.
openBlock_SameIndex(s, ch) ==
    LET closed == IF s.p.type = "" THEN s.c ELSE content_block_stop(s.c, s.p.index)
    IN  [p |-> [s.p EXCEPT !.type = ch, !.content = TRUE],
         c |-> content_block_start(closed, s.p.index, ch)]

openBlock(s, ch) ==
    LET i == IF s.p.type = "" THEN s.p.index ELSE s.p.index + 1
        closed == IF s.p.type = "" THEN s.c ELSE content_block_stop(s.c, s.p.index)
    IN  [p |-> [s.p EXCEPT !.type = ch, !.index = i, !.content = TRUE],
         c |-> content_block_start(closed, i, ch)]

PartDelta(s, ch, no) ==
    IF no = 0 THEN s ELSE [s EXCEPT !.c = content_block_delta(@, s.p.index, ch, no, no)]

\* A text part with a signature counts as a thought.
ConvertPart(s, e) ==
    CASE e.part = "text" ->
            LET ch == IF e.sig > 0 THEN "thinking" ELSE e.ch
                r == IF s.p.type = ch THEN s ELSE openBlock(s, ch)
                d == PartDelta(r, ch, e.no)
            IN  IF e.sig > 0 THEN appendSignatureDelta(d) ELSE d
      [] e.part = "signature" -> appendSignatureDelta(s)
      [] e.part = "call" -> PartDelta(openBlock([s EXCEPT !.p.saw = TRUE], e.ch), e.ch, e.no)
      [] e.part = "more" -> PartDelta([s EXCEPT !.p.saw = TRUE], e.ch, e.no)
      [] OTHER -> s

\* Nothing is concluded that has no content.
FinalEvents(s, reason) ==
    IF s.p.final \/ ~s.p.content THEN s
    ELSE LET closed == IF s.p.type = "" THEN s.c ELSE content_block_stop(s.c, s.p.index)
         IN  [p |-> [s.p EXCEPT !.type = "", !.final = TRUE],
              c |-> message_stop(message_delta(closed, IF s.p.saw THEN "tool_use" ELSE reason))]

ConvertGeminiResponseToClaude(s, e) ==
    IF e.type = "[DONE]" THEN FinalEvents(s, "end_turn")
    ELSE LET begun == IF s.p.first THEN s
                      ELSE [p |-> [s.p EXCEPT !.first = TRUE], c |-> message_start(s.c)]
             parts == ConvertPart(begun, e)
         IN  IF e.usage /\ e.finish # ""
               THEN FinalEvents(parts, IF e.finish = "MAX_TOKENS" THEN "max_tokens" ELSE "end_turn")
               ELSE parts

-------------------------------------------------------------------------------
(* From Codex: one block at a time too.  Calls wait in a queue for their     *)
(* turn, and while one has the turn every event of another item is put off. *)

CodexParams == [started |-> FALSE, tool |-> FALSE, index |-> 0, hasText |-> FALSE, open |-> "", sig |-> "",
                seen |-> FALSE, queue |-> <<>>, active |-> "", deferred |-> <<>>,
                call |-> [t \in Tools |-> [known |-> FALSE, args |-> 0, emitted |-> 0, done |-> FALSE]]]

startCodexMessage(s) ==
    IF s.p.started THEN s ELSE [p |-> [s.p EXCEPT !.started = TRUE], c |-> message_start(s.c)]

\* p.open stands for TextBlockOpen and ThinkingBlockOpen, which exclude each other.
startCodexBlock(s, ch) ==
    IF s.p.open = ch THEN s
    ELSE [p |-> [s.p EXCEPT !.open = ch], c |-> content_block_start(s.c, s.p.index, ch)]

StopBlock(s) == [p |-> [s.p EXCEPT !.open = "", !.index = @ + 1], c |-> content_block_stop(s.c, s.p.index)]

stopCodexTextBlock(s) == IF s.p.open = "text" THEN StopBlock(s) ELSE s

Signed(s) ==
    LET no == s.c.got["signature"] + 1
    IN  IF s.p.sig = "" THEN s ELSE [s EXCEPT !.c = content_block_delta(@, s.p.index, "signature", no, no)]

finalizeCodexThinkingBlock(s) == IF s.p.open = "thinking" THEN StopBlock(Signed(s)) ELSE s

CloseBlocks(s) == stopCodexTextBlock(finalizeCodexThinkingBlock(s))

CodexDelta(s, ch, no) ==
    LET r == startCodexBlock(s, ch)
    IN  [r EXCEPT !.c = content_block_delta(@, r.p.index, ch, no, no)]

\* Plausible bug: every call's arguments are sent on, whoever has the turn.
appendCodexFunctionCallBufferedArguments_Any(s, t) ==
    LET call == s.p.call[t]
    IN  IF call.emitted >= call.args THEN s
        ELSE [p |-> [s.p EXCEPT !.call[t].emitted = call.args],
              c |-> content_block_delta(s.c, s.p.index, t, call.emitted + 1, call.args)]

appendCodexFunctionCallBufferedArguments(s, t) ==
    LET call == s.p.call[t]
    IN  IF s.p.active # t \/ call.emitted >= call.args THEN s
        ELSE [p |-> [s.p EXCEPT !.call[t].emitted = call.args],
              c |-> content_block_delta(s.c, s.p.index, t, call.emitted + 1, call.args)]

\* One turn of the loop: the active call's arguments, its end when it is done,
\* and the start of the next one.
QueueTurn(s, turn) ==
    LET a == s.p.active
        r == IF a = "" THEN s ELSE appendCodexFunctionCallBufferedArguments(s, a)
        over == a # "" /\ s.p.call[a].done
        rest == IF over THEN Tail(r.p.queue) ELSE r.p.queue
        closed == IF over
                    THEN [p |-> [r.p EXCEPT !.active = "", !.index = @ + 1, !.queue = rest],
                          c |-> content_block_stop(r.c, r.p.index)] ELSE r
    IN  IF (a # "" /\ ~over) \/ rest = <<>> THEN closed
        ELSE appendCodexFunctionCallBufferedArguments(
               [p |-> [closed.p EXCEPT !.active = Head(rest), !.tool = TRUE],
                c |-> content_block_start(closed.c, closed.p.index, Head(rest))], Head(rest))

appendCodexFunctionCallQueue(s) == FoldLeft(QueueTurn, s, Append(Calls, ""))

\* recordCodexFunctionCall, updateCodexFunctionCallIdentity
recordCodexFunctionCall(s, t) ==
    IF s.p.call[t].known THEN s
    ELSE [s EXCEPT !.p.call[t].known = TRUE, !.p.queue = Append(@, t)]

\* A whole list of arguments replaces what the deltas brought, of which it is a
\* continuation.
Known(s, t, no, done) ==
    LET r == recordCodexFunctionCall(s, t)
    IN  [r EXCEPT !.p.call[t].args = IF no > 0 THEN no ELSE @, !.p.call[t].done = @ \/ done]

CallEvent(s, e) ==
    CASE e.type = "added" -> appendCodexFunctionCallQueue(recordCodexFunctionCall(CloseBlocks(s), e.item))
      [] e.type = "done" -> appendCodexFunctionCallQueue(Known(CloseBlocks(s), e.item, e.no, TRUE))
      [] OTHER -> appendCodexFunctionCallBufferedArguments(Known(s, e.item, e.no, FALSE), e.item)

\* Plausible bug: the snapshot of the signature is taken for the signature.
ReasoningEvent_Snapshot(s, e) ==
    IF e.type = "added" THEN [CloseBlocks(s) EXCEPT !.p.seen = FALSE, !.p.sig = e.sig]
    ELSE IF e.type = "part" THEN [Signed(startCodexBlock(CloseBlocks(s), "thinking")) EXCEPT !.p.seen = TRUE]
    ELSE CloseBlocks(s)

\* Only the end of the item has its final signature: one block stays open for
\* all parts of the summary, which a blank line separates.  A signature without
\* a summary has a block of its own.
ReasoningEvent(s, e) ==
    LET r == stopCodexTextBlock(s)
        signed == [r EXCEPT !.p.sig = IF e.sig # "" THEN e.sig ELSE @]
        summary == IF ~r.p.seen /\ e.no > 0
                     THEN [CodexDelta(signed, "thinking", e.no) EXCEPT !.p.seen = TRUE] ELSE signed
        shown == IF ~summary.p.seen /\ summary.p.sig # "" THEN startCodexBlock(summary, "thinking") ELSE summary
    IN  CASE e.type = "added" -> [finalizeCodexThinkingBlock(r) EXCEPT !.p.seen = FALSE, !.p.sig = e.sig]
          [] e.type = "part" -> [startCodexBlock(r, "thinking") EXCEPT !.p.seen = TRUE]
          [] e.type = "done" -> [finalizeCodexThinkingBlock(shown) EXCEPT !.p.seen = FALSE, !.p.sig = ""]

\* The end of a message brings its text when no delta ever brought one.
MessageEvent(s, e) ==
    CASE e.type = "part" -> startCodexBlock(finalizeCodexThinkingBlock(s), "text")
      [] e.type = "partdone" -> stopCodexTextBlock(s)
      [] e.type = "done" /\ e.no > 0 /\ ~s.p.hasText ->
            [stopCodexTextBlock(CodexDelta(finalizeCodexThinkingBlock(s), "text", e.no)) EXCEPT !.p.hasText = TRUE]
      [] OTHER -> s

\* The call of the search and its result, each a block.
appendCodexWebSearchToolResult(s, no) ==
    LET r == finalizeCodexThinkingBlock(stopCodexTextBlock(s))
        use == content_block_delta(content_block_start(r.c, r.p.index, "search"), r.p.index, "search", no, no)
        result == content_block_start(content_block_stop(use, r.p.index), r.p.index + 1, "result")
    IN  [p |-> [r.p EXCEPT !.index = @ + 2], c |-> content_block_stop(result, r.p.index + 1)]

\* What is done with an event of an item other than a call.
ItemEvent(s, e) ==
    CASE e.type = "delta" /\ e.item = "text" ->
            CodexDelta(finalizeCodexThinkingBlock([s EXCEPT !.p.hasText = TRUE]), "text", e.no)
      [] e.type = "delta" /\ e.item = "thinking" -> CodexDelta(stopCodexTextBlock(s), "thinking", e.no)
      [] e.item = "reasoning" -> ReasoningEvent(s, e)
      [] e.item = "message" -> MessageEvent(s, e)
      [] e.item = "search" -> appendCodexWebSearchToolResult(s, e.no)
      [] OTHER -> s

\* Plausible bug: what was put off is put off again for good.
appendDeferredCodexStreamEvents_Dropped(s) == [s EXCEPT !.p.deferred = <<>>]

appendDeferredCodexStreamEvents(s) ==
    FoldLeft(LAMBDA r, e : ItemEvent(startCodexMessage(r), e), [s EXCEPT !.p.deferred = <<>>], s.p.deferred)

\* Calls the stream did not finish, or did not mention, are taken from the list.
appendCodexFunctionCallsFromTerminal(s, listed) ==
    LET all == FoldLeft(LAMBDA r, t : IF t \in DOMAIN listed THEN Known(r, t, listed[t], TRUE)
                                      ELSE IF r.p.call[t].known THEN Known(r, t, 0, TRUE) ELSE r,
                        s, Calls)
    IN  [appendCodexFunctionCallQueue(all) EXCEPT !.p.queue = <<>>, !.p.active = ""]

mapCodexStopReasonToClaude(cut, hasToolCall) ==
    CASE hasToolCall -> "tool_use"
      [] ~hasToolCall /\ cut = "max_output_tokens" -> "max_tokens"
      [] ~hasToolCall /\ cut = "content_filter" -> "refusal"
      [] OTHER -> "end_turn"

Completed(s, e) ==
    LET calls == appendCodexFunctionCallsFromTerminal(CloseBlocks(s), e.listed)
        r == CloseBlocks(appendDeferredCodexStreamEvents(calls))
    IN  [r EXCEPT !.c = message_stop(message_delta(@, mapCodexStopReasonToClaude(e.cut, r.p.tool)))]

\* Plausible bug: response.incomplete is put off like any other event.
shouldDeferCodexStreamEvent_Incomplete(e) ==
    /\ e.type \notin {"error", "completed"}
    /\ IF e.type = "incomplete" THEN TRUE ELSE e.item \notin Tools

shouldDeferCodexStreamEvent(e) ==
    /\ e.type # "error" /\ e.type \notin Terminals
    /\ e.item \notin Tools

ConvertCodexResponseToClaude(s, e) ==
    IF s.p.active # "" /\ shouldDeferCodexStreamEvent(e)
      THEN [s EXCEPT !.p.deferred = Append(@, e)]
      ELSE LET b == IF e.type = "error" THEN s ELSE startCodexMessage(s)
               r == CASE e.type = "error" -> [b EXCEPT !.c.phase = "error"]
                      [] e.type \in Terminals -> Completed(b, e)
                      [] e.item \in Tools -> CallEvent(b, e)
                      [] OTHER -> ItemEvent(b, e)
           IN  IF r.p.queue = <<>> THEN appendDeferredCodexStreamEvents(r) ELSE r

===============================================================================
