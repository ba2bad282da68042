------------------------------ MODULE Translation ------------------------------
(***************************************************************************)
(* One streamed answer translated for a client of another protocol, event   *)
(* by event: the routes of src/internal/protocol/builtin/cliproxy_adapter.go. *)
(* The upstream (external, UpstreamStreams) sends what its protocol allows;  *)
(* the relay hands each event to the translator of the route together with  *)
(* the state that translator left.                                         *)
(***************************************************************************)
EXTENDS ClaudeStream, ResponsesStream, ChatStream, GeminiStream

VARIABLES
    route,   \* the protocols of the channel and of the client; a channel of the
             \* OpenAI protocol may answer with Responses events
    up,      \* what the upstream has sent
    tr       \* the translator's state and the client

TranslationVars == <<route, up, tr>>

Routes == {<<"openai", "claude">>, <<"responses", "claude">>, <<"gemini", "claude">>, <<"codex", "claude">>,
           <<"openai", "codex">>, <<"claude", "codex">>, <<"gemini", "codex">>,
           <<"claude", "openai">>, <<"gemini", "openai">>, <<"codex", "openai">>,
           <<"openai", "gemini">>, <<"responses", "gemini">>, <<"claude", "gemini">>, <<"codex", "gemini">>}

-------------------------------------------------------------------------------
(* A channel of the OpenAI protocol.  Gateways begin with a chunk of nothing *)
(* but a zero-width space, and some go on with Responses events.           *)

KeepAlive == Chunk("keepalive", 0, FALSE, FALSE, "", FALSE)

cliproxyOpenAIToAnthropicStreamState == [response |-> FALSE, chat |-> OpenAIParams, responses |-> CodexParams]

\* An event that is neither a chunk nor one of the Responses protocol has no
\* choice in it.
AsChunk(e) == IF e.type = "error" THEN Chunk("none", 0, FALSE, FALSE, "", FALSE) ELSE e

\* The two translators of such a channel keep a state each.
ByChunks(s, r) == [p |-> [s.p EXCEPT !.chat = r.p], c |-> r.c]

ByResponses(s, r) == [p |-> [s.p EXCEPT !.response = TRUE, !.responses = r.p], c |-> r.c]

\* Mutant: the keep-alive chunk goes on to the translator of chunks.
cliproxyTranslateOpenAIToAnthropicStream_KeepAlive(s, e) ==
    IF s.p.response \/ e.type \notin {"chunk", "[DONE]", "error"}
      THEN ByResponses(s, ConvertCodexResponseToClaude([p |-> s.p.responses, c |-> s.c], e))
      ELSE ByChunks(s, ConvertOpenAIResponseToClaude([p |-> s.p.chat, c |-> s.c], AsChunk(e)))

cliproxyTranslateOpenAIToAnthropicStream(s, e) ==
    IF s.p.response \/ e.type \notin {"chunk", "[DONE]", "error"}
      THEN ByResponses(s, ConvertCodexResponseToClaude([p |-> s.p.responses, c |-> s.c], e))
    ELSE IF e = KeepAlive THEN s
    ELSE ByChunks(s, ConvertOpenAIResponseToClaude([p |-> s.p.chat, c |-> s.c], AsChunk(e)))

\* For a client of the Responses protocol events of it would pass as they are.
cliproxyTranslateOpenAIToCodexStream(s, e) ==
    IF e = KeepAlive THEN s ELSE ConvertOpenAIChatCompletionsResponseToOpenAIResponses(s, e)

cliproxyOpenAIToGeminiStreamState ==
    [response |-> FALSE, chat |-> ConvertOpenAIResponseToGeminiParams, responses |-> ConvertCodexResponseToGeminiParams]

cliproxyTranslateOpenAIToGeminiStream(s, e, text) ==
    IF s.p.response \/ e.type \notin {"chunk", "[DONE]", "error"}
      THEN ByResponses(s, ConvertCodexResponseToGemini([p |-> s.p.responses, c |-> s.c], e, text))
      ELSE ByChunks(s, ConvertOpenAIResponseToGemini([p |-> s.p.chat, c |-> s.c], AsChunk(e)))

-------------------------------------------------------------------------------
Params(r) ==
    CASE r = <<"openai", "claude">> -> cliproxyOpenAIToAnthropicStreamState
      [] r = <<"responses", "claude">> -> cliproxyOpenAIToAnthropicStreamState
      [] r = <<"gemini", "claude">> -> GeminiParams
      [] r = <<"codex", "claude">> -> CodexParams
      [] r = <<"openai", "codex">> -> oaiToResponsesState
      [] r = <<"claude", "codex">> -> claudeToResponsesState
      [] r = <<"gemini", "codex">> -> geminiToResponsesState
      [] r = <<"claude", "openai">> -> ConvertAnthropicResponseToOpenAIParams
      [] r = <<"gemini", "openai">> -> convertGeminiResponseToOpenAIChatParams
      [] r = <<"codex", "openai">> -> ConvertCliToOpenAIParams
      [] r = <<"openai", "gemini">> -> cliproxyOpenAIToGeminiStreamState
      [] r = <<"responses", "gemini">> -> cliproxyOpenAIToGeminiStreamState
      [] r = <<"claude", "gemini">> -> ConvertAnthropicResponseToGeminiParams
      [] r = <<"codex", "gemini">> -> ConvertCodexResponseToGeminiParams

Client(r) ==
    CASE r[2] = "claude" -> ClaudeClient
      [] r[2] = "codex" -> ResponsesClient
      [] r[2] = "openai" -> ChatClient
      [] r[2] = "gemini" -> GeminiClient

TranslationInit ==
    /\ route \in Routes
    /\ up = Silent
    /\ tr = [p |-> Params(route), c |-> Client(route)]

OpenAIEvent ==
    /\ route[1] = "openai"
    /\ \E e \in OpenAIOffers(up) \cup {KeepAlive} :
         /\ up' = IF e = KeepAlive THEN up ELSE OpenAIAfter(up, e)
         /\ tr' = CASE route[2] = "claude" -> cliproxyTranslateOpenAIToAnthropicStream(tr, e)
                    [] route[2] = "codex" -> cliproxyTranslateOpenAIToCodexStream(tr, e)
                    [] route[2] = "gemini" -> cliproxyTranslateOpenAIToGeminiStream(tr, e, <<>>)
    /\ UNCHANGED route

ResponsesEvent ==
    /\ route[1] = "responses"
    /\ \E e \in CodexOffers(up) \cup {x \in {KeepAlive} : up = Silent} :
         /\ up' = IF e = KeepAlive THEN up ELSE CodexAfter(up, e, route[2])
         /\ tr' = CASE route[2] = "claude" -> cliproxyTranslateOpenAIToAnthropicStream(tr, e)
                    [] route[2] = "gemini" -> cliproxyTranslateOpenAIToGeminiStream(tr, e, ThoughtText(up, e))
    /\ UNCHANGED route

GeminiEvent ==
    /\ route[1] = "gemini"
    /\ \E e \in GeminiOffers(up, route[2]) :
         /\ up' = GeminiAfter(up, e, route[2])
         /\ tr' = CASE route[2] = "claude" -> ConvertGeminiResponseToClaude(tr, e)
                    [] route[2] = "codex" -> ConvertGeminiResponseToOpenAIResponses(tr, e)
                    [] route[2] = "openai" -> ConvertGeminiResponseToOpenAI(tr, e)
    /\ UNCHANGED route

CodexEvent ==
    /\ route[1] = "codex"
    /\ \E e \in CodexOffers(up) :
         /\ up' = CodexAfter(up, e, route[2])
         /\ tr' = CASE route[2] = "claude" -> ConvertCodexResponseToClaude(tr, e)
                    [] route[2] = "openai" -> ConvertCodexResponseToOpenAI(tr, e)
                    [] route[2] = "gemini" -> ConvertCodexResponseToGemini(tr, e, ThoughtText(up, e))
    /\ UNCHANGED route

AnthropicEvent ==
    /\ route[1] = "claude"
    /\ \E e \in AnthropicOffers(up) :
         /\ up' = AnthropicAfter(up, e)
         /\ tr' = CASE route[2] = "codex" -> ConvertClaudeResponseToOpenAIResponses(tr, e)
                    [] route[2] = "openai" -> ConvertClaudeResponseToOpenAI(tr, e)
                    [] route[2] = "gemini" -> ConvertClaudeResponseToGemini(tr, e)
    /\ UNCHANGED route

TranslationNext == OpenAIEvent \/ ResponsesEvent \/ GeminiEvent \/ CodexEvent \/ AnthropicEvent

TranslationSpec == TranslationInit /\ [][TranslationNext]_TranslationVars

-------------------------------------------------------------------------------
\* What is not passed on: a client's protocol, or the translator, has no place
\* for it.
Dropped ==
    CASE route[2] = "claude" -> {}
      [] route[2] = "openai" /\ route[1] # "claude" -> {"search", "signature"}
      [] OTHER -> {"search"}

\* Whatever order the upstream's text, thinking, searches and calls come in, the
\* client gets a stream of its protocol: one beginning, blocks, items and calls
\* that are numbered without a gap, no delta to one that is not open or is of
\* another kind, no call announced twice or without a name; and when the upstream
\* is through, everything open is closed, the answer is concluded once, at its
\* end, and a stop reason speaks of calls if and only if one was announced.
\* (The exceptions the code has: text of an OpenAI answer that comes after a call
\* goes to a Responses message already done; calls that come together in a Gemini
\* chunk are numbered by their place in it; the input of an Anthropic search is a
\* nameless call to a Gemini client; a Gemini answer without any content is never
\* concluded for an Anthropic client; an Anthropic block's number is the call's
\* number to a chat client; each call of Anthropic or Responses upstreams tells a
\* Gemini client that the answer is over; to a chat client max_tokens of an
\* Anthropic upstream and the reason of response.incomplete go before calls.)
StreamWellFormed ==
    /\ tr.c.fault =>
         \/ route = <<"openai", "codex">> /\ "text after a call" \in up.odd
         \/ route = <<"gemini", "openai">> /\ "calls together" \in up.odd
         \/ route = <<"claude", "gemini">> /\ up.sent["search"] > 0
    /\ route[2] = "gemini" /\ tr.c.early => route[1] # "openai" /\ tr.c.announced # {}
    /\ up.ended = "end" =>
         \/ tr.c.phase = "stop"
         \/ route = <<"gemini", "claude">> /\ tr.c.announced = {} /\ tr.c.phase = "open"
    /\ tr.c.phase = "stop" /\ route[2] \in {"claude", "openai"} =>
         \/ tr.c.reason \in {"tool_use", "tool_calls"} <=> tr.c.announced \cap Tools # {}
         \/ route = <<"claude", "openai">> /\ tr.c.reason = "length"
         \/ route = <<"codex", "openai">> /\ "cut short" \in up.odd /\ tr.c.reason # "tool_calls"
    /\ tr.c.phase = "stop" /\ route[2] = "openai" /\ route[1] # "claude" =>
         DOMAIN tr.c.calls = 0..(Cardinality(DOMAIN tr.c.calls) - 1)

\* An answer that was concluded is whole: every call was announced, every piece of
\* text, thinking, every signature and search and all arguments of every call,
\* those put off while another call had the turn included, came through once and
\* in order; and where the protocol says a thing again, at the end of an item or
\* of the answer, it says the same.  (The exceptions the code has, some of them in
\* Odd: a Gemini text part with a signature is passed on to an Anthropic client as
\* thinking, and text of an OpenAI answer after a call is not in the message's
\* end for a Responses client.)
AnswerWhole ==
    tr.c.phase = "stop" /\ (route[2] = "gemini" => up.ended = "end") =>
    \/ /\ \A ch \in Lanes \ (Dropped \cup up.odd) : tr.c.got[ch] = up.sent[ch]
       /\ up.begun \subseteq tr.c.announced \cup up.odd
       /\ ~tr.c.torn
    \/ route = <<"gemini", "claude">> /\ "signed text" \in up.odd
    \/ route = <<"openai", "codex">> /\ "text after a call" \in up.odd
===============================================================================
