---------------------------- MODULE ResponsesStream ----------------------------
(***************************************************************************)
(* Upstream streams translated for clients of the Responses protocol, such  *)
(* as Codex (src/internal/protocol/cliproxy/{openai,claude,gemini}/openai/   *)
(* responses).  As in ClaudeStream, a translator is an operator on           *)
(* s = [p, c]: its own state and the client that takes the events.          *)
(*                                                                         *)
(* This protocol says everything three times: in deltas, in the end of the   *)
(* item, and in the list of output of response.completed.  A translator      *)
(* keeps buffers for the last two; a buffer is the first and the last number *)
(* of the pieces in it.                                                    *)
(***************************************************************************)
EXTENDS UpstreamStreams, Functions

NoPieces == <<0, 0>>
WithPiece(span, no) == IF span = NoPieces THEN <<no, no>> ELSE <<span[1], no>>

\* What an item holds: the lane, the pieces and the number of a signature.
Item(ch, span, sig) == [ch |-> ch, span |-> span, sig |-> sig]

-------------------------------------------------------------------------------
(* The client.  An output index belongs to one item; a delta goes to an open *)
(* item of its own lane; the end of an item repeats what came in deltas, *)
(* and the end of the response lists the items as they ended.               *)

ResponsesClient == [phase |-> "none", items |-> <<>>, open |-> {}, announced |-> {}, reason |-> "",
                    fault |-> FALSE, torn |-> FALSE, got |-> [ch \in Lanes |-> 0]]

response_created(c) == [c EXCEPT !.phase = "open", !.fault = @ \/ c.phase # "none"]

output_item_added(c, i, ch) ==
    [c EXCEPT !.items = @ @@ (i :> Item(ch, NoPieces, 0)), !.open = @ \cup {i}, !.announced = @ \cup {ch},
              !.fault = @ \/ c.phase # "open" \/ i \in DOMAIN c.items \/ (ch \in Tools \cap c.announced)]

\* Pieces from..to of a lane.
output_delta(c, i, ch, from, to) ==
    IF i \notin c.open \/ c.items[i].ch # ch
      THEN [c EXCEPT !.fault = TRUE, !.got[ch] = to]
      ELSE [c EXCEPT !.items[i].span = WithPiece(IF @ = NoPieces THEN <<from, from>> ELSE @, to),
                     !.got[ch] = to, !.torn = @ \/ from # c.got[ch] + 1]

\* The input of a freeform call comes in no delta.  Two thoughts may have the same
\* signature, an item of nothing but a signature has a new one.
output_item_done(c, i, whole, freeform) ==
    LET came == IF i \in c.open THEN c.items[i].span ELSE NoPieces
        again == whole.sig = c.got["signature"] /\ whole.span # NoPieces
    IN  [c EXCEPT !.items = (i :> whole) @@ @, !.open = @ \ {i},
                  !.got = [ch \in Lanes |->
                             IF ch = whole.ch /\ freeform THEN whole.span[2]
                             ELSE IF ch = "signature" /\ whole.sig > 0 THEN whole.sig ELSE @[ch]],
                  !.torn = @ \/ (whole.sig > 0 /\ whole.sig # c.got["signature"] + 1 /\ ~again)
                             \/ (~freeform /\ whole.span # came),
                  !.fault = @ \/ i \notin c.open \/ (i \in DOMAIN c.items /\ whole.ch # c.items[i].ch)]

\* listed: the output, from the index of an item to what it is said to hold.
response_completed(c, listed) ==
    [c EXCEPT !.phase = "stop", !.torn = @ \/ listed # c.items,
              !.fault = @ \/ c.phase # "open" \/ c.open # {} \/ DOMAIN c.items # 0..(Cardinality(DOMAIN c.items) - 1)]

-------------------------------------------------------------------------------
(* From OpenAI chat completions.  One of the calls is of a freeform tool,    *)
(* whose input is sent on when it is whole.                                *)

CustomToolNames == {Calls[MaxCalls]}

\* An index is -1 while the item has none; msg is the one message of the choice.
oaiToResponsesState ==
    [Started |-> FALSE, CompletionPending |-> FALSE, CompletedEmitted |-> FALSE, NextOutputIx |-> 0,
     msg |-> [ix |-> -1, span |-> NoPieces, done |-> FALSE],
     reasoning |-> [ix |-> -1, span |-> NoPieces], Reasonings |-> <<>>,
     fn |-> [t \in Tools |-> [ix |-> -1, id |-> FALSE, name |-> FALSE, args |-> 0, sent |-> 0,
                              added |-> FALSE, done |-> FALSE]]]

Arguments1(args) == IF args = 0 THEN NoPieces ELSE <<1, args>>

emitToolItem(s, t, force) ==
    LET f == s.p.fn[t]
    IN  IF f.added \/ (~force /\ ~(f.id /\ f.name)) THEN s
        ELSE [p |-> [s.p EXCEPT !.fn[t].added = TRUE], c |-> output_item_added(s.c, f.ix, t)]

emitPendingFunctionArgs(s, t) ==
    LET f == s.p.fn[t]
    IN  IF ~f.added \/ t \in CustomToolNames \/ f.args <= f.sent THEN s
        ELSE [p |-> [s.p EXCEPT !.fn[t].sent = f.args], c |-> output_delta(s.c, f.ix, t, f.sent + 1, f.args)]

stopReasoning(s) ==
    LET r == s.p.reasoning
        item == Item("thinking", r.span, 0)
    IN  IF r.ix = -1 THEN s
        ELSE [p |-> [s.p EXCEPT !.reasoning = [ix |-> -1, span |-> NoPieces], !.Reasonings = @ @@ (r.ix :> item)],
              c |-> output_item_done(s.c, r.ix, item, FALSE)]

\* The end of the message, before the first call or with the finish reason.
MessageDone(s) ==
    IF s.p.msg.ix = -1 \/ s.p.msg.done THEN s
    ELSE [p |-> [s.p EXCEPT !.msg.done = TRUE],
          c |-> output_item_done(s.c, s.p.msg.ix, Item("text", s.p.msg.span, 0), FALSE)]

ContentDelta(s, no) ==
    LET r == stopReasoning(s)
        m == IF r.p.msg.ix # -1 THEN r
             ELSE [p |-> [r.p EXCEPT !.msg.ix = r.p.NextOutputIx, !.NextOutputIx = @ + 1],
                   c |-> output_item_added(r.c, r.p.NextOutputIx, "text")]
    IN  [p |-> [m.p EXCEPT !.msg.span = WithPiece(@, no)], c |-> output_delta(m.c, m.p.msg.ix, "text", no, no)]

ReasoningDelta(s, no) ==
    LET r == IF s.p.reasoning.ix # -1 THEN s
             ELSE [p |-> [s.p EXCEPT !.reasoning.ix = s.p.NextOutputIx, !.NextOutputIx = @ + 1],
                   c |-> output_item_added(s.c, s.p.NextOutputIx, "thinking")]
    IN  [p |-> [r.p EXCEPT !.reasoning.span = WithPiece(@, no)],
         c |-> output_delta(r.c, r.p.reasoning.ix, "thinking", no, no)]

\* Plausible bug: the place of a call is taken when it is announced, not before.
ToolCallDelta_Late(s, e) ==
    LET t == e.body
        r == MessageDone(stopReasoning(s))
        known == [r EXCEPT !.p.fn[t].id = @ \/ e.id, !.p.fn[t].name = @ \/ e.name,
                           !.p.fn[t].args = IF e.no > 0 THEN e.no ELSE @,
                           !.p.fn[t].ix = IF @ = -1 THEN r.p.NextOutputIx ELSE @,
                           !.p.NextOutputIx = IF e.id THEN @ + 1 ELSE @]
    IN  emitPendingFunctionArgs(emitToolItem(known, t, FALSE), t)

ToolCallDelta(s, e) ==
    LET t == e.body
        r == MessageDone(stopReasoning(s))
        new == r.p.fn[t].ix = -1
        known == [r EXCEPT !.p.fn[t].id = @ \/ e.id, !.p.fn[t].name = @ \/ e.name,
                           !.p.fn[t].args = IF e.no > 0 THEN e.no ELSE @,
                           !.p.fn[t].ix = IF new THEN r.p.NextOutputIx ELSE @,
                           !.p.NextOutputIx = IF new THEN @ + 1 ELSE @]
    IN  emitPendingFunctionArgs(emitToolItem(known, t, FALSE), t)

\* The end of a call, announced now if it was not; no arguments are "{}".
ToolCallDone(s, t) ==
    LET r == emitPendingFunctionArgs(emitToolItem(s, t, TRUE), t)
        f == r.p.fn[t]
    IN  IF f.done THEN r
        ELSE [p |-> [r.p EXCEPT !.fn[t].done = TRUE],
              c |-> output_item_done(r.c, f.ix, Item(t, Arguments1(f.args), 0), t \in CustomToolNames)]

\* The calls that were begun, in the order of their places.
InOrder(fn) == SetToSortSeq({t \in Tools : fn[t].ix # -1}, LAMBDA a, b : fn[a].ix < fn[b].ix)

FinishReason(s) ==
    [FoldLeft(ToolCallDone, stopReasoning(MessageDone(s)), InOrder(s.p.fn)) EXCEPT !.p.CompletionPending = TRUE]

\* The list has the items in the order of their places.
buildResponsesCompletedEvent(s) ==
    LET p == s.p
        messages == IF p.msg.ix = -1 THEN <<>> ELSE p.msg.ix :> Item("text", p.msg.span, 0)
        calls == [i \in {p.fn[t].ix : t \in Tools} \ {-1} |->
                    LET t == CHOOSE t \in Tools : p.fn[t].ix = i IN Item(t, Arguments1(p.fn[t].args), 0)]
    IN  [s EXCEPT !.c = response_completed(@, p.Reasonings @@ messages @@ calls)]

ResponsesChunk(s, e) ==
    LET begun == IF s.p.Started THEN s ELSE [p |-> [s.p EXCEPT !.Started = TRUE], c |-> response_created(s.c)]
        content == CASE e.body = "text" -> ContentDelta(begun, e.no)
                     [] e.body = "thinking" -> ReasoningDelta(begun, e.no)
                     [] e.body \in Tools -> ToolCallDelta(begun, e)
                     [] OTHER -> begun
    IN  IF e.finish = "" THEN content ELSE FinishReason(content)

\* The completion waits for [DONE], because usage may come after the reason.
ConvertOpenAIChatCompletionsResponseToOpenAIResponses(s, e) ==
    IF e.type # "[DONE]" THEN ResponsesChunk(s, e)
    ELSE LET r == IF s.p.Started /\ ~s.p.CompletionPending THEN FinishReason(s) ELSE s
         IN  IF ~r.p.CompletionPending \/ r.p.CompletedEmitted THEN r
             ELSE buildResponsesCompletedEvent([r EXCEPT !.p.CompletedEmitted = TRUE])

-------------------------------------------------------------------------------
(* From Anthropic.  Blocks of text that follow each other are one message.   *)

claudeToResponsesState ==
    [NextOutputIndex |-> 0, InTextBlock |-> FALSE, InFuncBlock |-> FALSE, fc |-> "",
     MessageOpen |-> FALSE, msg |-> [ix |-> -1, span |-> NoPieces],
     ReasoningActive |-> FALSE, reasoning |-> [ix |-> -1, span |-> NoPieces, sig |-> 0],
     done |-> <<>>, fn |-> [t \in Tools |-> [ix |-> -1, args |-> 0]]]

\* Plausible bug: the text of a message stays in the buffer of the next.
finalizeAssistantMessage_Kept(s) ==
    LET item == Item("text", s.p.msg.span, 0)
    IN  IF ~s.p.MessageOpen THEN s
        ELSE [p |-> [s.p EXCEPT !.InTextBlock = FALSE, !.MessageOpen = FALSE, !.msg.ix = -1,
                                !.done = @ @@ (s.p.msg.ix :> item)],
              c |-> output_item_done(s.c, s.p.msg.ix, item, FALSE)]

finalizeAssistantMessage(s) ==
    LET item == Item("text", s.p.msg.span, 0)
    IN  IF ~s.p.MessageOpen THEN s
        ELSE [p |-> [s.p EXCEPT !.InTextBlock = FALSE, !.MessageOpen = FALSE,
                                !.msg = [ix |-> -1, span |-> NoPieces], !.done = @ @@ (s.p.msg.ix :> item)],
              c |-> output_item_done(s.c, s.p.msg.ix, item, FALSE)]

\* messageOutputIndex, and the message's announcement
OpenMessage(s) ==
    IF s.p.MessageOpen THEN s
    ELSE [p |-> [s.p EXCEPT !.MessageOpen = TRUE, !.msg.ix = s.p.NextOutputIndex, !.NextOutputIndex = @ + 1],
          c |-> output_item_added(s.c, s.p.NextOutputIndex, "text")]

\* Redacted thinking brings its payload in the place of a signature.
BlockStart(s, e) ==
    LET r == IF e.ch \in Tools \cup {"thinking", "redacted"} THEN finalizeAssistantMessage(s) ELSE s
        ix == r.p.NextOutputIndex
    IN  CASE e.ch = "text" -> OpenMessage([r EXCEPT !.p.InTextBlock = TRUE])
          [] e.ch \in Tools ->
               [p |-> [r.p EXCEPT !.InFuncBlock = TRUE, !.fc = e.ch, !.fn[e.ch].ix = ix, !.NextOutputIndex = @ + 1],
                c |-> output_item_added(r.c, ix, e.ch)]
          [] e.ch \in {"thinking", "redacted"} ->
               [p |-> [r.p EXCEPT !.ReasoningActive = TRUE, !.NextOutputIndex = @ + 1,
                                  !.reasoning = [ix |-> ix, span |-> NoPieces, sig |-> e.no]],
                c |-> output_item_added(r.c, ix, "thinking")]
          [] OTHER -> r

BlockDelta(s, e) ==
    CASE e.ch = "text" ->
            [p |-> [s.p EXCEPT !.msg.span = WithPiece(@, e.no)],
             c |-> output_delta(s.c, s.p.msg.ix, "text", e.no, e.no)]
      [] e.ch \in Tools /\ s.p.InFuncBlock ->
            [p |-> [s.p EXCEPT !.fn[e.ch].args = e.no],
             c |-> output_delta(s.c, s.p.fn[e.ch].ix, e.ch, e.no, e.no)]
      [] e.ch = "thinking" /\ s.p.ReasoningActive ->
            [p |-> [s.p EXCEPT !.reasoning.span = WithPiece(@, e.no)],
             c |-> output_delta(s.c, s.p.reasoning.ix, "thinking", e.no, e.no)]
      [] e.ch = "signature" /\ s.p.ReasoningActive -> [s EXCEPT !.p.reasoning.sig = e.no]
      [] OTHER -> s

BlockStop(s) ==
    LET call == Item(s.p.fc, Arguments1(s.p.fn[s.p.fc].args), 0)
        thought == Item("thinking", s.p.reasoning.span, s.p.reasoning.sig)
    IN  CASE s.p.InTextBlock -> [s EXCEPT !.p.InTextBlock = FALSE]
          [] ~s.p.InTextBlock /\ s.p.InFuncBlock ->
               [p |-> [s.p EXCEPT !.InFuncBlock = FALSE],
                c |-> output_item_done(s.c, s.p.fn[s.p.fc].ix, call, FALSE)]
          [] ~s.p.InTextBlock /\ ~s.p.InFuncBlock /\ s.p.ReasoningActive ->
               [p |-> [s.p EXCEPT !.ReasoningActive = FALSE, !.done = @ @@ (s.p.reasoning.ix :> thought),
                                  !.reasoning = [ix |-> -1, span |-> NoPieces, sig |-> 0]],
                c |-> output_item_done(s.c, s.p.reasoning.ix, thought, FALSE)]
          [] OTHER -> s

MessageStop(s) ==
    LET r == finalizeAssistantMessage(s)
        calls == [i \in {r.p.fn[t].ix : t \in Tools} \ {-1} |->
                    LET t == CHOOSE t \in Tools : r.p.fn[t].ix = i IN Item(t, Arguments1(r.p.fn[t].args), 0)]
    IN  [r EXCEPT !.c = response_completed(@, r.p.done @@ calls)]

\* The stop reason is not passed on, and neither is an error.
ConvertClaudeResponseToOpenAIResponses(s, e) ==
    CASE e.type = "message_start" -> [p |-> claudeToResponsesState, c |-> response_created(s.c)]
      [] e.type = "content_block_start" -> BlockStart(s, e)
      [] e.type = "content_block_delta" -> BlockDelta(s, e)
      [] e.type = "content_block_stop" -> BlockStop(s)
      [] e.type = "message_stop" -> MessageStop(s)
      [] OTHER -> s

-------------------------------------------------------------------------------
(* From Gemini.  One item is open at a time.  A signature belongs to the     *)
(* thought before it, else it waits (PendingReasoningSignature) until it is  *)
(* clear what it signs, and goes out in an item of its own, a carrier.       *)

NoReasoning == [state |-> "none", ix |-> -1, span |-> NoPieces, enc |-> 0, unsent |-> NoPieces]

geminiToResponsesState ==
    [Started |-> FALSE, Completed |-> FALSE, NextIndex |-> 0, called |-> FALSE,
     msg |-> [state |-> "none", ix |-> -1, span |-> NoPieces], reasoning |-> NoReasoning,
     PendingReasoningSignature |-> 0, SeenReasoningSignatures |-> {}, done |-> <<>>]

openReasoning(s) ==
    LET r == s.p.reasoning
        ix == s.p.NextIndex
        opened == output_item_added(s.c, ix, "thinking")
    IN  IF r.state # "none" \/ (r.span = NoPieces /\ r.enc = 0) THEN s
        ELSE [p |-> [s.p EXCEPT !.reasoning.state = "open", !.reasoning.ix = ix, !.reasoning.unsent = NoPieces,
                                !.NextIndex = @ + 1],
              c |-> IF r.unsent = NoPieces THEN opened
                    ELSE output_delta(opened, ix, "thinking", r.unsent[1], r.unsent[2])]

closeReasoning(s) ==
    LET item == Item("thinking", s.p.reasoning.span, s.p.reasoning.enc)
    IN  IF s.p.reasoning.state # "open" THEN s
        ELSE [p |-> [s.p EXCEPT !.reasoning.state = "closed", !.done = @ @@ (s.p.reasoning.ix :> item)],
              c |-> output_item_done(s.c, s.p.reasoning.ix, item, FALSE)]

finalizeReasoning(s) == closeReasoning(openReasoning(s))

resetReasoning(s) == [s EXCEPT !.p.reasoning = NoReasoning]

finalizeMessage(s) ==
    LET item == Item("text", s.p.msg.span, 0)
    IN  IF s.p.msg.state # "open" THEN s
        ELSE [p |-> [s.p EXCEPT !.msg.state = "closed", !.done = @ @@ (s.p.msg.ix :> item)],
              c |-> output_item_done(s.c, s.p.msg.ix, item, FALSE)]

\* Plausible bug: a signature that has been sent goes out again.
emitDetachedReasoning_Again(s, sig) ==
    LET r == finalizeMessage(finalizeReasoning(s))
        ix == r.p.NextIndex
        item == Item("thinking", NoPieces, sig)
    IN  IF sig = 0 THEN s
        ELSE [p |-> [r.p EXCEPT !.NextIndex = @ + 1, !.done = @ @@ (ix :> item)],
              c |-> output_item_done(output_item_added(r.c, ix, "thinking"), ix, item, FALSE)]

\* emitTrailingDetachedReasoning too; what the carrier says of its neighbour is
\* left out.
emitDetachedReasoning(s, sig) ==
    LET r == finalizeMessage(finalizeReasoning(s))
        ix == r.p.NextIndex
        item == Item("thinking", NoPieces, sig)
    IN  IF sig = 0 \/ sig \in s.p.SeenReasoningSignatures THEN s
        ELSE [p |-> [r.p EXCEPT !.NextIndex = @ + 1, !.done = @ @@ (ix :> item),
                                !.SeenReasoningSignatures = @ \cup {sig}],
              c |-> output_item_done(output_item_added(r.c, ix, "thinking"), ix, item, FALSE)]

emitPending(s) ==
    [emitDetachedReasoning(s, s.p.PendingReasoningSignature) EXCEPT !.p.PendingReasoningSignature = 0]

Await(s, sig) ==
    IF sig \in s.p.SeenReasoningSignatures THEN s ELSE [s EXCEPT !.p.PendingReasoningSignature = sig]

reasoningActive(p) ==
    p.reasoning.state = "open" \/ (p.reasoning.state = "none" /\ (p.reasoning.span # NoPieces \/ p.reasoning.enc # 0))

\* The signature of a part that is no thought, while a thought is under way ...
SignReasoning(s, e) ==
    LET r == IF s.p.reasoning.enc \in {0, e.sig}
               THEN [s EXCEPT !.p.reasoning.enc = e.sig, !.p.SeenReasoningSignatures = @ \cup {e.sig}]
               ELSE IF e.part = "call" THEN emitDetachedReasoning(finalizeReasoning(s), e.sig)
                                       ELSE Await(finalizeReasoning(s), e.sig)
    IN  IF e.part = "signature" THEN finalizeReasoning(r) ELSE r

\* ... and while none is.
SignOther(s, e) ==
    LET other == IF s.p.PendingReasoningSignature = e.sig THEN s ELSE emitPending(s)
    IN  CASE e.part = "call" -> emitDetachedReasoning(s, e.sig)
          [] e.part = "text" -> Await(other, e.sig)
          [] e.part = "signature" ->
               LET r == [other EXCEPT !.p.PendingReasoningSignature = 0]
               IN  IF r.p.msg.state # "none" \/ r.p.called THEN emitDetachedReasoning(r, e.sig) ELSE Await(r, e.sig)

\* A thought's own signature, which may have come before it, decides where the
\* next item begins; one that is another item's goes out first.
NewThought(s, own) ==
    LET other == s.p.reasoning.state = "open" /\ own # 0 /\ s.p.reasoning.enc \notin {0, own}
        v == IF other THEN resetReasoning(finalizeReasoning(s)) ELSE s
    IN  IF v.p.reasoning.state = "closed" THEN resetReasoning(finalizeMessage(v))
        ELSE IF v.p.reasoning.state = "none" /\ v.p.reasoning.span = NoPieces THEN finalizeMessage(v) ELSE v

SayThought(s, e, own) ==
    LET signed == IF own = 0 THEN s
                  ELSE [s EXCEPT !.p.reasoning.enc = own, !.p.SeenReasoningSignatures = @ \cup {own}]
        said == [signed EXCEPT !.p.reasoning.span = WithPiece(@, e.no)]
    IN  IF s.p.reasoning.state = "open"
          THEN [said EXCEPT !.c = output_delta(@, s.p.reasoning.ix, "thinking", e.no, e.no)]
        ELSE IF said.p.reasoning.enc = 0 THEN [said EXCEPT !.p.reasoning.unsent = WithPiece(@, e.no)]
        ELSE openReasoning([said EXCEPT !.p.reasoning.unsent = WithPiece(@, e.no)])

OwnThought(s, e) ==
    LET own == IF e.sig # 0 THEN e.sig ELSE s.p.PendingReasoningSignature
        cleared == IF e.sig \in {0, s.p.PendingReasoningSignature}
                     THEN [s EXCEPT !.p.PendingReasoningSignature = 0] ELSE emitPending(s)
    IN  SayThought(NewThought(cleared, own), e, own)

Thought(s, e) == OwnThought(IF s.p.msg.state = "open" THEN emitPending(s) ELSE s, e)

VisibleText(s, e) ==
    LET t == finalizeReasoning(IF e.sig = 0 /\ s.p.msg.state = "open" THEN emitPending(s) ELSE s)
        m == IF t.p.msg.state = "open" THEN t
             ELSE [p |-> [t.p EXCEPT !.msg = [state |-> "open", ix |-> t.p.NextIndex, span |-> NoPieces],
                                     !.NextIndex = @ + 1],
                   c |-> output_item_added(t.c, t.p.NextIndex, "text")]
    IN  [p |-> [m.p EXCEPT !.msg.span = WithPiece(@, e.no)], c |-> output_delta(m.c, m.p.msg.ix, "text", e.no, e.no)]

\* A call comes whole and is done at once; no arguments are "{}".
WholeCall(s, e) ==
    LET r == finalizeMessage(finalizeReasoning(s))
        ix == r.p.NextIndex
        item == Item(e.ch, Arguments1(e.no), 0)
        added == output_item_added(r.c, ix, e.ch)
        filled == IF e.no = 0 THEN added ELSE output_delta(added, ix, e.ch, 1, e.no)
    IN  [p |-> [r.p EXCEPT !.NextIndex = @ + 1, !.called = TRUE, !.done = @ @@ (ix :> item)],
         c |-> output_item_done(filled, ix, item, FALSE)]

SignPart(s, e) ==
    IF e.sig = 0 \/ (e.part = "text" /\ e.ch = "thinking") THEN s
    ELSE IF reasoningActive(s.p) THEN SignReasoning(s, e) ELSE SignOther(s, e)

ShowPart(s, e) ==
    CASE e.part = "text" -> IF e.ch = "thinking" THEN Thought(s, e) ELSE VisibleText(s, e)
      [] e.part = "call" -> WholeCall(s, e)
      [] OTHER -> s

ResponsesPart(s, e) == ShowPart(SignPart(IF e.part = "call" THEN emitPending(s) ELSE s, e), e)

CompleteResponse(s) == [p |-> [s.p EXCEPT !.Completed = TRUE], c |-> response_completed(s.c, s.p.done)]

FinishResponse(s) == CompleteResponse(finalizeMessage(finalizeReasoning(emitPending(s))))

EndPart(s, e) == IF e.finish = "" THEN s ELSE FinishResponse(s)

ConvertGeminiResponseToOpenAIResponses(s, e) ==
    LET begun == IF s.p.Started THEN s ELSE [p |-> [s.p EXCEPT !.Started = TRUE], c |-> response_created(s.c)]
    IN  CASE s.p.Completed \/ (e.type = "[DONE]" /\ ~s.p.Started) -> s
          [] ~s.p.Completed /\ s.p.Started /\ e.type = "[DONE]" -> FinishResponse(s)
          [] OTHER -> EndPart(ResponsesPart(begun, e), e)

===============================================================================
