--------------------------- MODULE UpstreamStreams ---------------------------
(***************************************************************************)
(* The event streams the upstream protocols answer with, as the translators *)
(* read them (src/internal/protocol/cliproxy): which event may follow which. *)
(* External: the upstreams are not part of the repository.                 *)
(*                                                                         *)
(* The answer is a number of pieces on lanes: text, thinking, signatures, *)
(* searches, and the arguments of each tool call.  An event                  *)
(* that carries a piece names its number on its lane, so that a piece     *)
(* that is lost, repeated or out of order shows.                           *)
(***************************************************************************)
EXTENDS Integers, Sequences, SequencesExt

CONSTANTS
    Calls,       \* the tool calls an answer may make, as a sequence
    MaxCalls,    \* bound: how many of them, where calls mix with other things
    MaxPieces,   \* bound: pieces on one lane
    MaxItems     \* bound: items of a Responses stream

\* Names of what is not a call.
Words == {"", "none", "empty", "keepalive", "text", "thinking", "signature", "search",
          "reasoning", "message", "redacted", "result", "between"}

ASSUME StreamAssumption ==
    /\ Calls \in Seq(STRING)
    /\ \A k \in 1..Len(Calls) : Calls[k] \notin Words
    /\ \A j, k \in 1..Len(Calls) : Calls[j] = Calls[k] => j = k
    /\ MaxPieces \in Nat \ {0} /\ MaxItems \in Nat /\ MaxCalls \in 1..Len(Calls)

Tools == ToSet(Calls)
MixedTools == {Calls[k] : k \in 1..MaxCalls}
Lanes == {"text", "thinking", "signature", "search"} \cup Tools

\* What an upstream has sent: the pieces on each lane; the calls begun; the
\* item or part it is in the middle of; whether it gave its finish reason and
\* its end; and the oddities a translator is known to stumble over.
Silent == [sent |-> [ch \in Lanes |-> 0], begun |-> {}, closed |-> {}, at |-> "", part |-> "", sig |-> "", items |-> 0, since |-> 0,
           finish |-> FALSE, ended |-> "", odd |-> {}]

More(u, ch) == u.sent[ch] < MaxPieces

\* Where the order of the calls decides nothing, the next one is the next.
NextCall(u, max) == IF Cardinality(u.begun) = max THEN {} ELSE {Calls[Cardinality(u.begun) + 1]}

\* The number of the next piece of a lane.
NextPiece(u, ch) == {u.sent[ch] + 1} \cap 1..MaxPieces

------------------------------------------------------------------------------
(* OpenAI chat completions: chunks, each with at most one piece here, since a *)
(* translator treats what one chunk holds in a fixed order.  A call's name, *)
(* id and arguments may come apart; the name comes before the finish reason, *)
(* the id perhaps never.  Usage may come with any chunk or one of its own.  *)

\* body: "none" (no choice in it), "empty", a lane of text, or a call.
Chunk(body, no, id, name, finish, usage) ==
    [type |-> "chunk", body |-> body, no |-> no, id |-> id, name |-> name,
     finish |-> finish, usage |-> usage]

\* A chunk of a call carries its id, its name, a piece of its arguments, or any
\* of them together; no = 0 when there is no argument.
OpenAIChunks(u) ==
    {Chunk(ch, u.sent[ch] + 1, FALSE, FALSE, "", FALSE) : ch \in {c \in {"text", "thinking"} : More(u, c)}}
    \cup {Chunk(t, IF args THEN u.sent[t] + 1 ELSE 0, id, name, "", FALSE) :
             t \in MixedTools, args \in BOOLEAN, id \in BOOLEAN, name \in BOOLEAN}
    \cup {Chunk(body, 0, FALSE, FALSE, "", usage) : body \in {"none", "empty"}, usage \in BOOLEAN}

\* u.closed holds the calls that have been named.
OpenAIOffers(u) ==
    IF u.ended # "" THEN {}
    ELSE IF u.finish
      THEN {Chunk("none", 0, FALSE, FALSE, "", TRUE), [type |-> "[DONE]"]}
      ELSE {e \in OpenAIChunks(u) : e.body \in Tools => e.no <= MaxPieces /\ (e.id \/ e.name \/ e.no > 0)}
           \cup {Chunk("empty", 0, FALSE, FALSE, reason, usage) :
                   reason \in IF u.begun = u.closed THEN {"stop", "length", "tool_calls"} ELSE {},
                   usage \in BOOLEAN}
           \cup (IF u.at # "" /\ u.begun = u.closed THEN {[type |-> "[DONE]"]} ELSE {})

OpenAIAfter(u, e) ==
    IF e.type = "[DONE]" THEN [u EXCEPT !.ended = "end"]
    ELSE [u EXCEPT !.sent = IF e.no > 0 THEN [@ EXCEPT ![e.body] = e.no] ELSE @,
                   !.begun = IF e.body \in Tools THEN @ \cup {e.body} ELSE @,
                   !.closed = IF e.name THEN @ \cup {e.body} ELSE @,
                   !.at = IF e.body = "none" THEN @ ELSE "chunk",
                   !.finish = @ \/ e.finish # "",
                   !.odd = IF e.body = "text" /\ u.begun # {} THEN @ \cup {"text after a call"} ELSE @]

------------------------------------------------------------------------------
(* Gemini: chunks of parts, one part a chunk here.  Any part may carry a     *)
(* signature, and a part may be nothing but one.  A call may be split, its   *)
(* further parts without a name; a signature may come again.  Each chunk may *)
(* carry usage; the last has it and a finish reason, and [DONE] may follow. *)

Part(part, ch, no, sig, finish, usage) ==
    [type |-> "parts", part |-> part, ch |-> ch, no |-> no, sig |-> sig,
     finish |-> finish, usage |-> usage]

\* No signature, a new one, or the last one again.
Signatures(u) == {0, u.sent["signature"], u.sent["signature"] + 1} \cap 0..MaxPieces

GeminiParts(u, calls) ==
    {Part("text", ch, u.sent[ch] + 1, sig, "", FALSE) :
        ch \in {c \in {"text", "thinking"} : More(u, c)}, sig \in Signatures(u)}
    \cup {Part("signature", "signature", 0, sig, "", FALSE) : sig \in Signatures(u) \ {0}}
    \cup {Part("call", t, IF args THEN 1 ELSE 0, sig, "", FALSE) :
             t \in NextCall(u, calls), args \in BOOLEAN, sig \in Signatures(u)}
    \cup {Part("more", t, u.sent[t] + 1, 0, "", FALSE) : t \in {c \in Tools : u.at = c /\ More(u, c)}}
    \cup {Part("none", "", 0, 0, "", usage) : usage \in BOOLEAN}

\* client: the translators to the Anthropic protocol know split calls, those to
\* the Responses protocol signatures that come again or with a call, and those to
\* chat completions signatures only to pass over them.
GeminiContent(u, client) ==
    {e \in GeminiParts(u, IF client = "openai" THEN Len(Calls) ELSE MaxCalls) :
       CASE client = "claude" -> e.sig > 0 => e.sig > u.sent["signature"] /\ e.part # "call" /\ u.odd = {}
         [] client = "codex" -> e.part # "more"
         [] OTHER -> e.part # "more" /\ (e.sig > 0 => e.part = "signature" /\ u.sent["signature"] = 0)}

\* The Anthropic protocol has a place for the signature of a thought only.
AfterPart(u, e, client) ==
    LET signs == /\ e.sig > u.sent["signature"]
                 /\ client = "claude" => "thinking" = IF e.part = "text" THEN e.ch ELSE u.at
    IN  [u EXCEPT !.sent = [ch \in Lanes |->
                              IF ch = e.ch /\ e.no > 0 THEN e.no
                              ELSE IF ch = "signature" /\ signs THEN @[ch] + 1 ELSE @[ch]],
                  !.begun = IF e.part = "call" THEN @ \cup {e.ch} ELSE @,
                  !.at = IF e.part \in {"none", "signature"} THEN @ ELSE e.ch,
                  !.odd = IF e.sig > 0 /\ e.ch = "text" THEN @ \cup {"signed text"} ELSE @,
                  !.ended = IF e.finish # "" THEN "end" ELSE ""]

\* Two parts in one chunk, which a translator to chat completions puts in one
\* chunk again; the others treat parts one by one.
Pairs(u) ==
    UNION {{[type |-> "pair", first |-> e, second |-> f] :
              f \in {x \in GeminiContent(AfterPart(u, e, "openai"), "openai") : x.part \in {"text", "call"}}} :
           e \in {x \in GeminiContent(u, "openai") : x.part \in {"text", "call"}}}

GeminiOffers(u, client) ==
    CASE u.ended = "" ->
            GeminiContent(u, client)
            \cup (IF client = "openai" THEN Pairs(u) ELSE {})
            \cup {Part("none", "", 0, 0, reason, TRUE) : reason \in {"STOP", "MAX_TOKENS"}}
      [] u.ended = "end" /\ ~u.finish -> {[type |-> "[DONE]"]}
      [] OTHER -> {}

GeminiAfter(u, e, client) ==
    CASE e.type = "[DONE]" -> [u EXCEPT !.finish = TRUE]
      [] e.type = "parts" -> AfterPart(u, e, client)
      [] e.type = "pair" ->
            [AfterPart(AfterPart(u, e.first, client), e.second, client) EXCEPT
               !.odd = @ \cup (IF e.first.ch = e.second.ch THEN {e.first.ch} ELSE {})
                         \cup (IF e.first.part = "call" /\ e.second.part = "call" /\ u.begun # {}
                                  THEN {"calls together"} ELSE {})]

------------------------------------------------------------------------------
(* Anthropic: blocks that start, are filled and stop, one after the other.   *)
(* Thinking may be signed before it stops, redacted thinking is nothing but  *)
(* a signature; a search is a block of its own with a block of results.      *)

\* ix is the number of the block.
Block(type, ch, no, ix) == [type |-> type, ch |-> ch, no |-> no, ix |-> ix]

\* u.at is the open block, "between" when there is none and "" before the start.
AnthropicOffers(u) ==
    IF u.ended # "" THEN {}
    ELSE {Block("error", "", 0, 0)}
         \cup CASE u.at = "" -> {Block("message_start", "", 0, 0)}
                [] u.finish -> {Block("message_stop", "", 0, 0)}
                [] u.at = "between" ->
                     {Block("message_delta", reason, 0, 0) :
                        reason \in {"max_tokens", IF u.begun = {} THEN "end_turn" ELSE "tool_use"}}
                     \cup {Block("content_block_start", ch, 0, u.items) :
                             ch \in IF u.items < MaxItems
                                     THEN {"text", "thinking", "search", "result"} \cup NextCall(u, MaxCalls) ELSE {}}
                     \cup {Block("content_block_start", "redacted", no, u.items) :
                             no \in IF u.items < MaxItems THEN NextPiece(u, "signature") ELSE {}}
                [] OTHER ->
                     {Block("content_block_delta", ch, u.sent[ch] + 1, u.items - 1) :
                        ch \in {c \in Lanes \cap {u.at} : More(u, c) /\ u.sig = ""}}
                     \cup {Block("content_block_delta", "signature", no, u.items - 1) :
                             no \in IF u.at = "thinking" /\ u.sig = "" THEN NextPiece(u, "signature") ELSE {}}
                     \cup {Block("content_block_stop", "", 0, u.items - 1)}

AnthropicAfter(u, e) ==
    CASE e.type = "error" -> [u EXCEPT !.ended = "error"]
      [] e.type = "message_start" -> [u EXCEPT !.at = "between"]
      [] e.type = "message_delta" -> [u EXCEPT !.finish = TRUE]
      [] e.type = "message_stop" -> [u EXCEPT !.ended = "end"]
      [] e.type = "content_block_start" ->
            [u EXCEPT !.at = e.ch, !.items = @ + 1, !.begun = @ \cup (Tools \cap {e.ch}),
                      !.sent = IF e.ch = "redacted" THEN [@ EXCEPT !["signature"] = e.no] ELSE @]
      [] e.type = "content_block_delta" ->
            [u EXCEPT !.sent[e.ch] = e.no, !.sig = IF e.ch = "signature" THEN "final" ELSE @]
      [] e.type = "content_block_stop" -> [u EXCEPT !.at = "between", !.sig = ""]

------------------------------------------------------------------------------
(* The Responses protocol, which Codex speaks: items that are added, filled  *)
(* and done.  Calls may run side by side and beside one other item; that one *)
(* is done before the next item is added.  A call may be known only by its   *)
(* last event, or only by the list of output in response.completed; or, when *)
(* the answer is cut short, in response.incomplete, which says why.         *)

Event(type, item, no, sig) == [type |-> type, item |-> item, no |-> no, sig |-> sig]

OpenCalls(u) == u.begun \ u.closed

Begins(u) ==
    {Event("added", "reasoning", 0, sig) : sig \in {"", "early"}}
    \cup {Event("added", "message", 0, "")}
    \cup {Event("done", "search", no, "") : no \in NextPiece(u, "search")}
    \cup {Event(type, t, IF type = "done" THEN 1 ELSE 0, "") :
            type \in {"added", "done"}, t \in MixedTools \ u.begun}

\* A summary may have several parts, a message has one here.  What came in no
\* delta comes whole with the item's end.
Reasons(u) ==
    {Event("part", "reasoning", 0, "") : x \in {"", "part"} \cap {u.part}}
    \cup {Event("delta", "thinking", no, "") : no \in IF u.part = "" THEN {} ELSE NextPiece(u, "thinking")}
    \cup {Event("done", "reasoning", no, sig) :
            no \in {0} \cup IF u.part = "" THEN NextPiece(u, "thinking") ELSE {},
            sig \in {"", "final"}}

Speaks(u) ==
    {Event("part", "message", 0, "") : x \in {""} \cap {u.part}}
    \cup {Event("partdone", "message", 0, "") : x \in {"part"} \cap {u.part}}
    \cup {Event("delta", "text", no, "") : no \in IF u.part = "part" THEN NextPiece(u, "text") ELSE {}}
    \cup {Event("done", "message", no, "") :
            no \in {0} \cup IF u.part = "" THEN NextPiece(u, "text") ELSE {}}

\* The arguments come in pieces, whole, or in pieces and then whole again.
Arguments(u) ==
    UNION {{Event("delta", t, no, "") : no \in NextPiece(u, t)}
           \cup {Event(type, t, no, "") : type \in {"argsdone", "done"}, no \in u.sent[t]..MaxPieces} :
           t \in OpenCalls(u)}

\* The calls an answer's end lists: all that were begun and any others, or none
\* when all were done.
Listings(u) ==
    {[t \in u.begun \cup new |-> IF t \in new THEN 1 ELSE u.sent[t]] : new \in SUBSET (MixedTools \ u.begun)}
    \cup {<<>> : x \in {{}} \cap {OpenCalls(u)}}

Cuts == {"max_output_tokens", "content_filter", "other"}
Terminals == {"completed", "incomplete"}

Terminal(listed, cut) ==
    [type |-> IF cut = "" THEN "completed" ELSE "incomplete", listed |-> listed, cut |-> cut]

Endings(u) == UNION {{Terminal(listed, cut) : listed \in Listings(u)} : cut \in Cuts \cup {""}}

CodexOffers(u) ==
    IF u.ended # "" THEN {}
    ELSE Arguments(u)
         \cup (CASE u.at = "" -> IF u.items < MaxItems THEN Begins(u) ELSE {}
                 [] u.at = "reasoning" -> Reasons(u)
                 [] u.at = "message" -> Speaks(u))
         \cup {Event(type, "", 0, "") : type \in {"error", "failed"} \cup (IF u = Silent THEN {"created"} ELSE {})}
         \cup (IF u.at = "" THEN Endings(u) ELSE {})

\* The text in the end of a reasoning item, from its first to its last piece.
ThoughtText(u, e) ==
    IF e.type # "done" \/ e.item # "reasoning" THEN <<>>
    ELSE <<u.since + 1, IF e.no > 0 THEN e.no ELSE u.sent["thinking"]>>

\* What the known oddities of the translators to the client's protocol do to a
\* lane.  All: a message that comes whole after other text is lost.  To chat
\* completions: only deltas and the end of a call without any are read, and the
\* reason of an answer cut short goes before its calls.  To Gemini: a thought is said again at its end, with the signature that comes
\* there, and a call counts when it is done.
Odd(u, e, client) ==
    CASE e.type \in Terminals ->
            {t \in DOMAIN e.listed :
               CASE client = "openai" -> t \notin u.begun
                 [] client = "gemini" -> t \notin u.closed
                 [] OTHER -> FALSE}
            \cup {x \in {"cut short"} : client = "openai" /\ e.cut # ""}
      [] e.type = "done" /\ e.item = "message" -> {ch \in {"text"} : e.no > IF client = "openai" THEN 0 ELSE 1}
      [] e.type = "done" /\ e.item = "reasoning" ->
            {ch \in {"thinking"} : CASE client = "openai" -> e.no > 0
                                     [] client = "gemini" -> u.sent["thinking"] > u.since
                                     [] OTHER -> FALSE}
            \cup {ch \in {"signature"} : client = "gemini" /\ u.sig # "" /\ e.sig = ""}
      [] e.type \in {"argsdone", "done"} /\ e.item \in u.begun ->
            {t \in {e.item} : /\ client = "openai"
                              /\ \/ u.sent[t] \in 1..(e.no - 1)
                                 \/ e.no = 0 /\ e.type = "argsdone"}
      [] OTHER -> {}

CodexAfter(u, e, client) ==
    CASE e.type \in Terminals ->
            [u EXCEPT !.ended = "end", !.odd = @ \cup Odd(u, e, client),
                      !.begun = @ \cup DOMAIN e.listed, !.closed = @ \cup DOMAIN e.listed,
                      !.sent = [ch \in Lanes |-> IF ch \in DOMAIN e.listed THEN e.listed[ch] ELSE @[ch]]]
      [] e.type \in {"error", "failed"} -> [u EXCEPT !.ended = e.type]
      [] e.type = "created" -> [u EXCEPT !.finish = TRUE]
      [] OTHER ->
            LET ch == CASE e.item = "reasoning" -> "thinking" [] e.item = "message" -> "text" [] OTHER -> e.item
                opens == e.item \in {"reasoning", "message"} /\ e.type = "added"
                ends == e.item \in {"reasoning", "message"} /\ e.type = "done"
                signs == e.type = "done" /\ e.item = "reasoning" /\ (e.sig # "" \/ u.sig # "")
            IN  [u EXCEPT
                   !.sent = [c \in Lanes |-> IF c = ch /\ e.no > 0 THEN e.no
                                                ELSE IF c = "signature" /\ signs THEN @[c] + 1 ELSE @[c]],
                   !.begun = @ \cup (Tools \cap {e.item}),
                   !.closed = IF e.type = "done" THEN @ \cup (Tools \cap {e.item}) ELSE @,
                   !.items = IF opens \/ e.item = "search" \/ e.item \in Tools \ u.begun THEN @ + 1 ELSE @,
                   !.at = IF opens THEN e.item ELSE IF ends THEN "" ELSE @,
                   !.part = IF opens \/ ends THEN ""
                            ELSE IF e.type = "part" THEN (IF @ = "" THEN "part" ELSE "parts")
                            ELSE IF e.type = "partdone" THEN "parts" ELSE @,
                   !.sig = IF opens THEN e.sig ELSE IF ends THEN "" ELSE @,
                   !.finish = FALSE,
                   !.since = IF opens /\ e.item = "reasoning" /\ client = "gemini" THEN u.sent["thinking"] ELSE @,
                   !.odd = @ \cup Odd(u, e, client)]

==============================================================================
