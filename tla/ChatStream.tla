------------------------------ MODULE ChatStream ------------------------------
(***************************************************************************)
(* Upstream streams translated for clients of OpenAI chat completions        *)
(* (src/internal/protocol/cliproxy/{claude,gemini,codex}/openai/             *)
(* chat-completions).  As in ClaudeStream, a translator is an operator on    *)
(* s = [p, c]: its own state and the client that takes the chunks.          *)
(***************************************************************************)
EXTENDS UpstreamStreams, Functions

-------------------------------------------------------------------------------
(* The client.  A call is known by its index, its first chunk has the name;  *)
(* a lane that misses a piece is behind for good.                       *)

Behind == -1

Heard(got, ch, from, to) == [got EXCEPT ![ch] = IF from = @ + 1 THEN to ELSE Behind]

ChatClient == [phase |-> "open", calls |-> <<>>, announced |-> {}, reason |-> "", thought |-> <<0, 0>>,
               fault |-> FALSE, torn |-> FALSE, got |-> [ch \in Lanes |-> 0]]

delta_text(c, ch, no) ==
    [c EXCEPT !.got = Heard(@, ch, no, no), !.fault = @ \/ c.phase # "open",
              !.thought = IF ch # "thinking" THEN @ ELSE IF @ = <<0, 0>> THEN <<no, no>> ELSE <<@[1], no>>]

delta_arguments(c, ix, from, to) ==
    IF ix \notin DOMAIN c.calls THEN [c EXCEPT !.fault = TRUE]
    ELSE [c EXCEPT !.got = Heard(@, c.calls[ix], from, to), !.fault = @ \/ c.phase # "open"]

delta_call(c, ix, t, args) ==
    LET named == [c EXCEPT !.calls = (ix :> t) @@ @, !.announced = @ \cup {t},
                           !.fault = @ \/ ix \in DOMAIN c.calls \/ t \in c.announced \/ c.phase # "open"]
    IN  IF args = 0 THEN named ELSE delta_arguments(named, ix, 1, args)

\* The whole of a thought again, with its signature.
delta_reasoning(c, span, sig) ==
    [c EXCEPT !.torn = @ \/ span # c.thought, !.thought = <<0, 0>>, !.fault = @ \/ c.phase # "open",
              !.got = IF sig = 0 THEN @ ELSE Heard(@, "signature", sig, sig)]

finish_reason(c, reason) == [c EXCEPT !.phase = "stop", !.reason = reason, !.fault = @ \/ c.phase # "open"]

\* [DONE]
stream_done(c) == [c EXCEPT !.fault = @ \/ c.phase # "stop"]

-------------------------------------------------------------------------------
(* From Anthropic.  Calls and thoughts are gathered by the number of their   *)
(* block and go out when it stops, a call under that number.                *)

ConvertAnthropicResponseToOpenAIParams ==
    [ToolCallsAccumulator |-> <<>>, ReasoningAccumulator |-> <<>>, Done |-> FALSE]

\* Plausible bug: redacted thinking is forgotten.
AccumulateBlock_Redacted(s, e) ==
    CASE e.ch \in Tools -> [s EXCEPT !.p.ToolCallsAccumulator = @ @@ (e.ix :> [t |-> e.ch, args |-> 0])]
      [] e.ch = "thinking" -> [s EXCEPT !.p.ReasoningAccumulator = @ @@ (e.ix :> [span |-> <<0, 0>>, sig |-> 0])]
      [] OTHER -> s

AccumulateBlock(s, e) ==
    CASE e.ch \in Tools -> [s EXCEPT !.p.ToolCallsAccumulator = @ @@ (e.ix :> [t |-> e.ch, args |-> 0])]
      [] e.ch \in {"thinking", "redacted"} ->
            [s EXCEPT !.p.ReasoningAccumulator = @ @@ (e.ix :> [span |-> <<0, 0>>, sig |-> e.no])]
      [] OTHER -> s

AccumulateDelta(s, e) ==
    LET calls == DOMAIN s.p.ToolCallsAccumulator
        thoughts == DOMAIN s.p.ReasoningAccumulator
    IN  CASE e.ch = "text" -> [s EXCEPT !.c = delta_text(@, "text", e.no)]
          [] e.ch = "thinking" ->
               [s EXCEPT !.c = delta_text(@, "thinking", e.no),
                         !.p.ReasoningAccumulator = [i \in thoughts |->
                             IF i # e.ix THEN @[i]
                             ELSE [@[i] EXCEPT !.span = IF @ = <<0, 0>> THEN <<e.no, e.no>> ELSE <<@[1], e.no>>]]]
          [] e.ch = "signature" ->
               [s EXCEPT !.p.ReasoningAccumulator = [i \in thoughts |-> IF i # e.ix THEN @[i] ELSE [@[i] EXCEPT !.sig = e.no]]]
          [] OTHER ->
               [s EXCEPT !.p.ToolCallsAccumulator = [i \in calls |-> IF i # e.ix THEN @[i] ELSE [@[i] EXCEPT !.args = e.no]]]

StopAccumulated(s, e) ==
    LET calls == s.p.ToolCallsAccumulator
        thoughts == s.p.ReasoningAccumulator
    IN  IF e.ix \in DOMAIN thoughts
          THEN [p |-> [s.p EXCEPT !.ReasoningAccumulator = Restrict(@, DOMAIN @ \ {e.ix})],
                c |-> delta_reasoning(s.c, thoughts[e.ix].span, thoughts[e.ix].sig)]
        ELSE IF e.ix \in DOMAIN calls
          THEN [p |-> [s.p EXCEPT !.ToolCallsAccumulator = Restrict(@, DOMAIN @ \ {e.ix})],
                c |-> delta_call(s.c, e.ix, calls[e.ix].t, calls[e.ix].args)]
        ELSE s

mapAnthropicStopReasonToOpenAI(reason) ==
    CASE reason = "tool_use" -> "tool_calls" [] reason = "max_tokens" -> "length" [] OTHER -> "stop"

ConvertClaudeResponseToOpenAI(s, e) ==
    CASE e.type = "content_block_start" -> AccumulateBlock(s, e)
      [] e.type = "content_block_delta" -> AccumulateDelta(s, e)
      [] e.type = "content_block_stop" -> StopAccumulated(s, e)
      [] e.type = "message_delta" -> [s EXCEPT !.c = finish_reason(@, mapAnthropicStopReasonToOpenAI(e.ch))]
      [] e.type = "message_stop" -> IF s.p.Done THEN s ELSE [p |-> [s.p EXCEPT !.Done = TRUE], c |-> stream_done(s.c)]
      [] e.type = "error" -> [s EXCEPT !.c.phase = "error"]
      [] OTHER -> s

-------------------------------------------------------------------------------
(* From Gemini.  The parts of a chunk go into one chunk, which has one text  *)
(* and one thought: a second one takes the place of the first.              *)

convertGeminiResponseToOpenAIChatParams == [FunctionIndex |-> 0, SawToolCall |-> FALSE, UpstreamFinishReason |-> ""]

EmptyDelta == [text |-> 0, thinking |-> 0, tool_calls |-> <<>>]

\* Plausible bug: every chunk numbers its calls from zero.
DeltaPart_Restart(x, e) ==
    CASE e.part = "text" -> [x EXCEPT !.delta[e.ch] = e.no]
      [] e.part = "call" -> [p |-> [x.p EXCEPT !.SawToolCall = TRUE],
                             delta |-> [x.delta EXCEPT !.tool_calls = Append(@, [ix |-> Len(@), t |-> e.ch, args |-> e.no])]]
      [] OTHER -> x

\* A further call of the chunk is numbered by its place in the chunk.
DeltaPart(x, e) ==
    LET ix == IF x.delta.tool_calls = <<>> THEN x.p.FunctionIndex ELSE Len(x.delta.tool_calls)
    IN  CASE e.part = "text" -> [x EXCEPT !.delta[e.ch] = e.no]
          [] e.part = "call" ->
               [p |-> [x.p EXCEPT !.SawToolCall = TRUE, !.FunctionIndex = @ + 1],
                delta |-> [x.delta EXCEPT !.tool_calls = Append(@, [ix |-> ix, t |-> e.ch, args |-> e.no])]]
          [] OTHER -> x

TakeDelta(c, delta) ==
    LET texts == FoldLeft(LAMBDA d, ch : IF delta[ch] = 0 THEN d ELSE delta_text(d, ch, delta[ch]),
                          c, <<"text", "thinking">>)
    IN  FoldLeft(LAMBDA d, call : delta_call(d, call.ix, call.t, call.args), texts, delta.tool_calls)

GeminiFinish(p) ==
    IF p.SawToolCall THEN "tool_calls" ELSE IF p.UpstreamFinishReason = "MAX_TOKENS" THEN "length" ELSE "stop"

ConvertGeminiResponseToOpenAI(s, e) ==
    IF e.type = "[DONE]" THEN [s EXCEPT !.c = stream_done(@)]
    ELSE LET parts == IF e.type = "pair" THEN <<e.first, e.second>> ELSE <<e>>
             x == FoldLeft(DeltaPart, [p |-> s.p, delta |-> EmptyDelta], parts)
             p == IF Last(parts).finish = "" THEN x.p ELSE [x.p EXCEPT !.UpstreamFinishReason = Last(parts).finish]
             c == TakeDelta(s.c, x.delta)
         IN  [p |-> p, c |-> IF p.UpstreamFinishReason = "" THEN c ELSE finish_reason(c, GeminiFinish(p))]

-------------------------------------------------------------------------------
(* From the Responses protocol.  Calls are told apart by the id or the place *)
(* of their item, which every event of a call has here.  What comes whole    *)
(* goes out whole only for a call of which nothing came before.             *)

toolCallStreamState == [Index |-> -1, ArgumentsEmitted |-> FALSE, Done |-> FALSE]

ConvertCliToOpenAIParams == [FunctionCallIndex |-> -1, toolCallStates |-> [t \in Tools |-> toolCallStreamState]]

registerToolCall(s, t, args, done) ==
    LET ix == s.p.FunctionCallIndex + 1
    IN  [p |-> [s.p EXCEPT !.FunctionCallIndex = ix,
                           !.toolCallStates[t] = [Index |-> ix, ArgumentsEmitted |-> done, Done |-> done]],
         c |-> delta_call(s.c, ix, t, args)]

ArgumentsDelta(s, t, no) ==
    LET state == s.p.toolCallStates[t]
    IN  IF state.Index = -1 \/ state.Done THEN s
        ELSE [p |-> [s.p EXCEPT !.toolCallStates[t].ArgumentsEmitted = TRUE],
              c |-> delta_arguments(s.c, state.Index, no, no)]

\* Plausible bug: what came in deltas is sent again whole.
WholeArguments_Again(s, t, no, done) ==
    LET state == s.p.toolCallStates[t]
        p == [s.p EXCEPT !.toolCallStates[t] = [@ EXCEPT !.ArgumentsEmitted = TRUE, !.Done = @ \/ done]]
    IN  IF state.Index = -1 \/ state.Done THEN s
        ELSE IF no = 0 THEN [s EXCEPT !.p = p]
        ELSE [p |-> p, c |-> delta_arguments(s.c, state.Index, 1, no)]

\* The end of the arguments, or of the item (done).
WholeArguments(s, t, no, done) ==
    LET state == s.p.toolCallStates[t]
        p == [s.p EXCEPT !.toolCallStates[t] = [@ EXCEPT !.ArgumentsEmitted = TRUE, !.Done = @ \/ done]]
    IN  IF state.Index = -1 \/ state.Done THEN s
        ELSE IF state.ArgumentsEmitted \/ no = 0 THEN [s EXCEPT !.p = p]
        ELSE [p |-> p, c |-> delta_arguments(s.c, state.Index, 1, no)]

\* Why an answer was cut short goes before its calls.
CodexFinishReason(s, cut) ==
    CASE cut = "max_output_tokens" -> "length"
      [] cut = "content_filter" -> "content_filter"
      [] cut = "other" -> "stop"
      [] cut = "" -> IF s.p.FunctionCallIndex = -1 THEN "stop" ELSE "tool_calls"

ConvertCodexResponseToOpenAI(s, e) ==
    CASE e.type = "delta" /\ e.item \notin Tools -> [s EXCEPT !.c = delta_text(@, e.item, e.no)]
      [] e.type = "delta" /\ e.item \in Tools -> ArgumentsDelta(s, e.item, e.no)
      [] e.type = "added" /\ e.item \in Tools -> registerToolCall(s, e.item, 0, FALSE)
      [] e.type = "argsdone" -> WholeArguments(s, e.item, e.no, FALSE)
      [] e.type = "done" /\ e.item \in Tools ->
            IF s.p.toolCallStates[e.item].Index = -1 THEN registerToolCall(s, e.item, e.no, TRUE)
            ELSE WholeArguments(s, e.item, e.no, TRUE)
      [] e.type \in Terminals -> [s EXCEPT !.c = stream_done(finish_reason(@, CodexFinishReason(s, e.cut)))]
      [] OTHER -> s

===============================================================================
