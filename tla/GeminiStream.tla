----------------------------- MODULE GeminiStream -----------------------------
(***************************************************************************)
(* Upstream streams translated for clients of the Gemini protocol            *)
(* (src/internal/protocol/cliproxy/{openai,claude,codex}/gemini).  As in      *)
(* ClaudeStream, a translator is an operator on s = [p, c]: its own state    *)
(* and the client that takes the parts.                                    *)
(***************************************************************************)
EXTENDS ChatStream

-------------------------------------------------------------------------------
(* The client.  A call comes whole and has a name; the answer is over with a *)
(* finish reason, unless more comes (early).                               *)

GeminiClient == [phase |-> "open", announced |-> {}, reason |-> "", early |-> FALSE,
                 fault |-> FALSE, torn |-> FALSE, got |-> [ch \in Lanes |-> 0]]

Goes(c) == [c EXCEPT !.phase = "open", !.early = @ \/ c.phase = "stop"]

part_text(c, ch, from, to) == [Goes(c) EXCEPT !.got = Heard(@, ch, from, to)]

part_signature(c) == [Goes(c) EXCEPT !.got["signature"] = @ + 1]

functionCall(c, t, args) ==
    [Goes(c) EXCEPT !.announced = @ \cup {t}, !.fault = @ \/ t \in c.announced \/ t \notin Tools,
                    !.got[t] = args]

finishReason(c, reason) == [Goes(c) EXCEPT !.phase = "stop", !.reason = reason]

-------------------------------------------------------------------------------
(* From OpenAI chat completions.  Calls are gathered and go out with the     *)
(* finish reason; what comes after it is passed over.                      *)

ConvertOpenAIResponseToGeminiParams ==
    [ToolCallsAccumulator |-> [t \in Tools |-> [begun |-> FALSE, name |-> FALSE, args |-> 0]], Done |-> FALSE]

\* A chunk with nothing but an id has no function and is passed over.
AccumulateCall(s, e) ==
    IF ~e.name /\ e.no = 0 THEN s
    ELSE [s EXCEPT !.p.ToolCallsAccumulator[e.body] =
            [begun |-> TRUE, name |-> @.name \/ e.name, args |-> IF e.no > 0 THEN e.no ELSE @.args]]

\* Plausible bug: the calls stay gathered when the finish reason is no "tool_calls".
appendAccumulatedToolCalls_Asked(s, reason) ==
    LET acc == s.p.ToolCallsAccumulator
        named == SelectSeq(Calls, LAMBDA t : acc[t].begun /\ acc[t].name)
    IN  IF reason \in {"stop", "length"} THEN s
        ELSE [p |-> [s.p EXCEPT !.ToolCallsAccumulator = ConvertOpenAIResponseToGeminiParams.ToolCallsAccumulator],
              c |-> FoldLeft(LAMBDA c, t : functionCall(c, t, acc[t].args), s.c, named)]

appendAccumulatedToolCalls(s, reason) ==
    LET acc == s.p.ToolCallsAccumulator
        named == SelectSeq(Calls, LAMBDA t : acc[t].begun /\ acc[t].name)
    IN  [p |-> [s.p EXCEPT !.ToolCallsAccumulator = ConvertOpenAIResponseToGeminiParams.ToolCallsAccumulator],
         c |-> FoldLeft(LAMBDA c, t : functionCall(c, t, acc[t].args), s.c, named)]

mapOpenAIFinishReasonToGemini(reason) == IF reason = "length" THEN "MAX_TOKENS" ELSE "STOP"

\* The calls and the reason are in one chunk.
FinishGemini(s, reason) ==
    LET r == appendAccumulatedToolCalls(s, reason)
    IN  [p |-> [r.p EXCEPT !.Done = TRUE], c |-> finishReason(r.c, mapOpenAIFinishReasonToGemini(reason))]

\* A keep-alive's zero-width space passes as text.
ConvertOpenAIResponseToGemini(s, e) ==
    IF e.type = "[DONE]" THEN (IF s.p.Done THEN s ELSE FinishGemini(s, ""))
    ELSE IF e.body = "none" \/ s.p.Done THEN s
    ELSE LET r == CASE e.body \in {"text", "thinking"} -> [s EXCEPT !.c = part_text(@, e.body, e.no, e.no)]
                    [] e.body \in Tools -> AccumulateCall(s, e)
                    [] OTHER -> s
         IN  IF e.finish = "" THEN r ELSE FinishGemini(r, e.finish)

-------------------------------------------------------------------------------
(* From Anthropic.  The input of a block is gathered by its number whatever  *)
(* the block is, and whatever the stop reason the last word is STOP.        *)

ConvertAnthropicResponseToGeminiParams == [ToolUseNames |-> <<>>, ToolUseArgs |-> <<>>]

\* Plausible bug: a call without arguments is no call.
StopToolUse_Filled(s, e) ==
    LET named == e.ix \in DOMAIN s.p.ToolUseNames
        filled == e.ix \in DOMAIN s.p.ToolUseArgs
        call == functionCall(s.c, IF named THEN s.p.ToolUseNames[e.ix] ELSE "search", s.p.ToolUseArgs[e.ix])
    IN  IF ~filled THEN s
        ELSE [p |-> [ToolUseNames |-> Restrict(s.p.ToolUseNames, DOMAIN s.p.ToolUseNames \ {e.ix}),
                     ToolUseArgs |-> Restrict(s.p.ToolUseArgs, DOMAIN s.p.ToolUseArgs \ {e.ix})],
              c |-> finishReason(call, "STOP")]

\* An input without a name is a search's, which goes out as a call all the same.
StopToolUse(s, e) ==
    LET named == e.ix \in DOMAIN s.p.ToolUseNames
        filled == e.ix \in DOMAIN s.p.ToolUseArgs
        call == functionCall(s.c, IF named THEN s.p.ToolUseNames[e.ix] ELSE "search",
                             IF filled THEN s.p.ToolUseArgs[e.ix] ELSE 0)
    IN  IF ~named /\ ~filled THEN s
        ELSE [p |-> [ToolUseNames |-> Restrict(s.p.ToolUseNames, DOMAIN s.p.ToolUseNames \ {e.ix}),
                     ToolUseArgs |-> Restrict(s.p.ToolUseArgs, DOMAIN s.p.ToolUseArgs \ {e.ix})],
              c |-> finishReason(call, "STOP")]

ConvertClaudeResponseToGemini(s, e) ==
    CASE e.type = "content_block_start" /\ e.ch \in Tools -> [s EXCEPT !.p.ToolUseNames = @ @@ (e.ix :> e.ch)]
      [] e.type = "content_block_start" /\ e.ch = "redacted" -> [s EXCEPT !.c = part_signature(@)]
      [] e.type = "content_block_delta" /\ e.ch \in {"text", "thinking"} ->
            [s EXCEPT !.c = part_text(@, e.ch, e.no, e.no)]
      [] e.type = "content_block_delta" /\ e.ch = "signature" -> [s EXCEPT !.c = part_signature(@)]
      [] e.type = "content_block_delta" /\ e.ch \in Tools \cup {"search"} ->
            [s EXCEPT !.p.ToolUseArgs = (e.ix :> e.no) @@ @]
      [] e.type = "content_block_stop" -> StopToolUse(s, e)
      [] e.type = "message_delta" -> [s EXCEPT !.c = finishReason(@, "STOP")]
      [] e.type = "error" -> [s EXCEPT !.c.phase = "error"]
      [] OTHER -> s

-------------------------------------------------------------------------------
(* From the Responses protocol.  Calls go out when they are done.            *)

ConvertCodexResponseToGeminiParams == [HasOutputTextDelta |-> FALSE]

\* text: the whole of a thought, from its first to its last piece.
ThoughtDone(s, e, text) ==
    LET said == IF text[1] > text[2] THEN s.c ELSE part_text(s.c, "thinking", text[1], text[2])
    IN  [s EXCEPT !.c = IF e.sig = "" THEN said ELSE part_signature(said)]

\* A message that came whole, unless text has come before.
WholeMessage(s, e) ==
    IF e.no = 0 \/ s.p.HasOutputTextDelta THEN s
    ELSE [p |-> [s.p EXCEPT !.HasOutputTextDelta = TRUE], c |-> part_text(s.c, "text", e.no, e.no)]

\* STOP, or codexGeminiIncompleteFinishReason
CodexGeminiFinishReason(cut) ==
    CASE cut = "" -> "STOP"
      [] cut = "max_output_tokens" -> "MAX_TOKENS"
      [] cut = "content_filter" -> "SAFETY"
      [] OTHER -> "OTHER"

ConvertCodexResponseToGemini(s, e, text) ==
    CASE e.type = "delta" /\ e.item = "text" ->
            [p |-> [s.p EXCEPT !.HasOutputTextDelta = TRUE], c |-> part_text(s.c, "text", e.no, e.no)]
      [] e.type = "delta" /\ e.item = "thinking" -> [s EXCEPT !.c = part_text(@, "thinking", e.no, e.no)]
      [] e.type = "done" /\ e.item \in Tools -> [s EXCEPT !.c = finishReason(functionCall(@, e.item, e.no), "STOP")]
      [] e.type = "done" /\ e.item = "reasoning" -> ThoughtDone(s, e, text)
      [] e.type = "done" /\ e.item = "message" -> WholeMessage(s, e)
      [] e.type \in Terminals -> [s EXCEPT !.c = finishReason(@, CodexGeminiFinishReason(e.cut))]
      [] OTHER -> s

===============================================================================
