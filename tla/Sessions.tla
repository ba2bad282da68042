------------------------------ MODULE Sessions ------------------------------
(***************************************************************************)
(* Responses execution sessions and their upstream websocket               *)
(* (internal/app/responses_execution_session.go,                           *)
(* responses_websocket_session.go, codex_upstream_websocket.go and the two *)
(* handlers that use them, proxy_responses_websocket.go and                *)
(* proxy_handler.go).                                                      *)
(*                                                                         *)
(* A session object holds a conversation (the transcript of its turns and  *)
(* the id of the last response) and at most one upstream socket.  Clients  *)
(* attach to the object stored under their Session-Id; a client without    *)
(* one gets a private object.  A turn holds the object's turn channel,     *)
(* tries one or more targets, over the socket or over HTTP, and commits    *)
(* the transcript.  On the socket a goroutine of its own (strm) reads      *)
(* frames, reconnects once and replays the transcript, and holds turnMu    *)
(* until it ends, which may be after the handler has gone on.              *)
(*                                                                         *)
(* Turns are numbered and a transcript is the sequence of its turns.  A    *)
(* response stands for the conversation the upstream built it from, the    *)
(* turn it answers last; NoId is the response without an id.  The upstream *)
(* end of a socket (known, ctx, asked) is external: it resolves a          *)
(* previous_response_id made on the same socket, answers a request with at *)
(* most one piece of output and one terminal event, and says nothing else. *)
(***************************************************************************)
EXTENDS Integers, Sequences, FiniteSets, FiniteSetsExt

CONSTANTS
    Web,          \* downstream websocket connections
    Http,         \* downstream HTTP requests with a Session-Id
    Targets,      \* channel, key and URL combinations that speak websocket
    MaxObj,       \* bound: session objects in use at a time
    Capacity,     \* responses_ws_max_sessions
    Budget,       \* responses_ws_max_transcript_bytes, in turns
    MaxTurns,     \* bound: turns started
    MaxFaults,    \* bound: clients and sockets lost, answers given up
    MaxAttempts   \* bound: attempts of one turn

Clients == Web \cup Http
Objs == 1..MaxObj
None == 0
NoId == <<>>
Missing == <<0>>   \* the context of a request whose previous response is unknown

ASSUME SessionsAssumption ==
    /\ Web \cap Http = {} /\ IsFiniteSet(Web) /\ IsFiniteSet(Http) /\ None \notin Clients
    /\ {MaxObj, Capacity, Budget, MaxTurns, MaxFaults, MaxAttempts} \subseteq Nat

VARIABLES
    sess,     \* object -> key, stored, active, idle, transcript, last response, holder of turn
    sock,     \* object -> its socket and what the upstream holds of it
    strm,     \* object -> the goroutine of streamResponse
    cli,      \* client -> its handler
    seen,     \* client -> the last response it was given
    turns,    \* turns started
    faults,   \* clients and sockets lost, answers given up so far
    nameless  \* history: turns that continued a session without a last response id

vars == <<sess, sock, strm, cli, seen, turns, nameless, faults>>

NoSess == [key |-> "none", stored |-> FALSE, active |-> 0, idle |-> 0,
           items |-> <<>>, last |-> NoId, turn |-> None]
Closed == [open |-> FALSE, target |-> None, reads |-> <<>>, aged |-> FALSE,
           asked |-> FALSE, ctx |-> <<>>, known |-> {}]
NoStream == [st |-> "off", by |-> None, body |-> FALSE, live |-> FALSE,
             sem |-> FALSE, retried |-> FALSE, replay |-> <<>>, target |-> None]
Away == [pc |-> "away", key |-> "none", obj |-> None, live |-> TRUE, replay |-> <<>>, prev |-> NoId,
         native |-> FALSE, keep |-> TRUE, att |-> 0, got |-> NoId, target |-> None]

Items == Seq(Nat)
Keys == {"none", "shared", "private"}
Between == {"away", "ready", "turn", "leave"}   \* a handler without a turn
Working == {"try", "lock", "dial", "http", "body", "closing", "cutoff", "done", "broken"}
Frames == [kind : {"output", "completed", "failed", "missing", "err"}, resp : Items]

SessType == [key : Keys, stored : BOOLEAN, active : Nat, idle : 0..2, items : Items, last : Items,
             turn : Clients \cup {None}]
SockType == [open : BOOLEAN, target : Targets \cup {None}, reads : Seq(Frames), aged : BOOLEAN,
             asked : BOOLEAN, ctx : Items, known : SUBSET Items]
StrmType == [st : {"off", "read", "redial"}, by : Clients \cup {None}, body : BOOLEAN, live : BOOLEAN,
             sem : BOOLEAN, retried : BOOLEAN, replay : Items, target : Targets \cup {None}]
CliType == [pc : Between \cup Working, key : Keys, obj : Objs \cup {None}, live : BOOLEAN,
            replay : Items, prev : Items, native : BOOLEAN, keep : BOOLEAN, att : Nat, got : Items,
            target : Targets \cup {None}]

TypeOK ==
    /\ sess \in [Objs -> SessType] /\ sock \in [Objs -> SockType]
    /\ strm \in [Objs -> StrmType] /\ cli \in [Clients -> CliType]
    /\ seen \in [Clients -> Items]
    /\ turns \in Nat /\ nameless \subseteq Nat /\ faults \in 0..MaxFaults

Init ==
    /\ sess = [o \in Objs |-> NoSess]
    /\ sock = [o \in Objs |-> Closed]
    /\ strm = [o \in Objs |-> NoStream]
    /\ cli = [c \in Clients |-> Away]
    /\ seen = [c \in Clients |-> NoId]
    /\ turns = 0 /\ nameless = {} /\ faults = 0


(* turnMu is held by a handler inside roundTrip or by the goroutine it     *)
(* handed it to.                                                           *)
turnMuFree(o) ==
    /\ strm[o].st = "off"
    /\ \A c \in Clients : ~(cli[c].obj = o /\ cli[c].pc = "dial")

-----------------------------------------------------------------------------
(* The session store.                                                      *)

Stored == {o \in Objs : sess[o].stored}

(* closeLocked drops the socket and whatever was read from it.             *)
closeLocked(o) == [sock EXCEPT ![o] = Closed]

(* trimTranscriptBudgetLocked may evict only idle transient sessions, and  *)
(* there are none: release deletes them (NoIdleTransient, below).          *)
Weight(O) == MapThenSumSet(LAMBDA o : Len(sess[o].items), O)
OverBudget(O) == Weight(O) > Budget

(* Mutant: an expired session is removed while clients are attached.       *)
removeExpiredLocked_Active == {o \in Stored : sess[o].idle = 2}

removeExpiredLocked == {o \in Stored : sess[o].active = 0 /\ sess[o].idle = 2}

closeDetachedTransportsLocked ==
    {o \in Stored : sess[o].active = 0 /\ sess[o].idle >= 1}

(* An object out of the store lives on while clients are attached to it.   *)
Forgotten(o, n) == IF n = 0 THEN NoSess ELSE [sess[o] EXCEPT !.stored = FALSE, !.active = n]

Swept == [o \in Objs |-> IF o \in removeExpiredLocked
                         THEN Forgotten(o, sess[o].active) ELSE sess[o]]
SweptSockets == [o \in Objs |-> IF o \in removeExpiredLocked \cup closeDetachedTransportsLocked
                                THEN Closed ELSE sock[o]]

Cleanup ==
    /\ removeExpiredLocked # {} \/ \E o \in closeDetachedTransportsLocked : sock[o].open
    /\ sess' = Swept
    /\ sock' = SweptSockets
    /\ UNCHANGED <<strm, cli, seen, turns, nameless>>

(* Time since lastAccess: 1 is the five minutes after which the socket of a *)
(* detached session is closed, 2 the TTL.  Bound: such stretches fall       *)
(* between turns.  A private session is always attached.                   *)
TimePasses ==
    /\ \A c \in Clients : cli[c].pc \in {"away", "ready"}
    /\ \E o \in Stored : sess[o].idle < 2 /\ sess[o].key = "shared"
    /\ sess' = [o \in Objs |-> IF sess[o].stored /\ sess[o].idle < 2 /\ sess[o].key = "shared"
                               THEN [sess[o] EXCEPT !.idle = @ + 1] ELSE sess[o]]
    /\ UNCHANGED <<sock, strm, cli, seen, turns, nameless>>

Connect(c) ==
    /\ cli[c].pc = "away"
    /\ turns < MaxTurns
    /\ \E key \in IF c \in Web THEN {"shared", "private"} ELSE {"shared"} :
         cli' = [cli EXCEPT ![c] = [Away EXCEPT !.pc = "ready", !.key = key]]
    /\ UNCHANGED <<sess, sock, strm, seen, turns, nameless>>

(* acquire: the first message of a connection, or an HTTP request.  Over   *)
(* the transcript budget, or at the capacity with no object to attach to,  *)
(* the client is refused; a websocket connection stays up and may retry.   *)
Acquire(c) ==
    LET left == Stored \ removeExpiredLocked
        mine == {o \in left : cli[c].key = "shared" /\ sess[o].key = "shared"}
        unused == {o \in Objs : /\ ~sess[o].stored /\ strm[o].st = "off"
                                /\ \A d \in Clients : cli[d].obj # o}
        refused == OverBudget(left) \/ (mine = {} /\ Cardinality(left) >= Capacity)
        attach(o, s) == /\ sess' = [Swept EXCEPT ![o] = [s EXCEPT !.active = @ + 1, !.idle = 0]]
                        /\ cli' = [cli EXCEPT ![c] = [@ EXCEPT !.obj = o, !.pc = "turn"]]
    IN  /\ cli[c].pc = "ready" /\ cli[c].obj = None
        /\ sock' = SweptSockets
        /\ \/ /\ refused
              /\ sess' = Swept
              /\ cli' = IF c \in Web THEN cli ELSE [cli EXCEPT ![c] = Away]
           \/ /\ ~refused /\ mine # {}
              /\ \E o \in mine : attach(o, sess[o])
           \/ /\ ~refused /\ mine = {} /\ unused # {}
              /\ attach(CHOOSE o \in unused : \A p \in unused : o <= p,
                        [NoSess EXCEPT !.key = cli[c].key, !.stored = TRUE])
        /\ UNCHANGED <<strm, seen, turns, nameless>>

(* A further message of an attached connection.                            *)
Message(c) ==
    /\ cli[c].pc = "ready" /\ cli[c].obj # None /\ turns < MaxTurns
    /\ cli' = [cli EXCEPT ![c].pc = "turn"]
    /\ UNCHANGED <<sess, sock, strm, seen, turns, nameless>>

(* The release function of acquire: a transient object goes with its last  *)
(* attachment.                                                             *)
Release(c) ==
    LET o == cli[c].obj
        gone == sess[o].key = "private" /\ sess[o].active = 1
    IN  /\ cli[c].pc = "leave"
        /\ sess' = [sess EXCEPT ![o] = IF gone \/ ~@.stored THEN Forgotten(o, @.active - 1)
                                       ELSE [sess[o] EXCEPT !.active = @ - 1, !.idle = 0]]
        /\ sock' = IF gone THEN closeLocked(o) ELSE sock
        /\ cli' = [cli EXCEPT ![c] = Away]
        /\ UNCHANGED <<strm, seen, turns, nameless>>

-----------------------------------------------------------------------------
(* A turn.  acquireTurn, admitTurn and the normalisation run under the     *)
(* turn channel.  The client names the response it continues ("prev"), or  *)
(* sends only new input ("delta": a websocket merges it into the           *)
(* transcript, HTTP starts over) or a whole conversation ("full").         *)

Asks == {"prev", "delta", "full"}

Continues(c, o, ask) ==
    /\ sess[o].items # <<>>
    /\ ask = "prev" \/ (ask = "delta" /\ c \in Web)

(* The request built from the whole transcript, good for any transport.    *)
replayRequest(c, o, ask) ==
    IF Continues(c, o, ask) THEN Append(sess[o].items, turns + 1) ELSE <<turns + 1>>

(* The incremental request carries this turn's input only; its previous    *)
(* response is the last one, and none when that had no id.                 *)
incrementalPrevious(c, o, ask) == IF Continues(c, o, ask) THEN sess[o].last ELSE NoId

Refuse(c) == [cli[c] EXCEPT !.pc = IF c \in Web THEN "ready" ELSE "leave"]

BeginTurn(c) ==
    LET o == cli[c].obj
    IN  /\ cli[c].pc = "turn" /\ sess[o].turn = None /\ turns < MaxTurns
        /\ \E ask \in Asks :
             LET stale == ask = "prev" /\ sess[o].last # seen[c]
                 empty == sess[o].items = <<>>
                 begin(native, keep) ==
                     /\ cli' = [cli EXCEPT ![c] = [@ EXCEPT
                             !.pc = "try", !.replay = replayRequest(c, o, ask), !.native = native,
                             !.prev = incrementalPrevious(c, o, ask), !.keep = keep]]
                     /\ sess' = [sess EXCEPT ![o].turn = c]
                     /\ turns' = turns + 1
                     /\ nameless' = IF Continues(c, o, ask) /\ sess[o].last = NoId
                                    THEN nameless \cup {turns + 1} ELSE nameless
             IN  /\ ask = "prev" => seen[c] # NoId
                 /\ \/ /\ \/ c \in Web /\ (OverBudget(Stored) \/ stale)
                          \/ c \in Http /\ stale /\ ~empty
                       /\ cli' = [cli EXCEPT ![c] = Refuse(c)]
                       /\ UNCHANGED <<sess, turns, nameless>>
                    \/ /\ c \in Web /\ ~OverBudget(Stored) /\ ~stale
                       /\ begin(TRUE, TRUE)
                    \/ /\ c \in Http /\ stale /\ empty
                       /\ begin(FALSE, FALSE)
                    \/ /\ c \in Http /\ ~stale
                       /\ begin(sock[o].open, TRUE)
        /\ UNCHANGED <<sock, strm, seen>>

(* Mutant: an interrupted turn keeps the id of the response before it.     *)
commit_KeepId(o, items, r) ==
    [sess[o] EXCEPT !.items = items, !.last = IF r = NoId THEN @ ELSE r]

(* commit: the transcript is the replayed request and its output, the last *)
(* response the one the turn completed, none when it was interrupted.      *)
commit(o, items, r) == [sess[o] EXCEPT !.items = items, !.last = r]

(* The end of a turn: releaseTurn; an HTTP request, and a connection that  *)
(* is gone or closed, then releases the session.                           *)
EndTurnTo(c, s, pc) ==
    /\ sess' = [sess EXCEPT ![cli[c].obj] = [s EXCEPT !.turn = None]]
    /\ cli' = [cli EXCEPT ![c] = [Away EXCEPT !.pc = pc, !.obj = cli[c].obj, !.key = cli[c].key,
                                              !.live = cli[c].live]]
EndTurn(c, s) == EndTurnTo(c, s, IF c \in Web /\ cli[c].live THEN "ready" ELSE "leave")

(* Turn over without a commit: no candidate is left, or none will be tried. *)
GiveUp(c) ==
    /\ cli[c].pc = "try"
    /\ EndTurn(c, sess[cli[c].obj])
    /\ UNCHANGED <<sock, strm, seen, turns, nameless>>

(* writeResponsesWebsocketSyntheticPrewarm answers the first request of an *)
(* empty session that asks for no generation, with an id no upstream knows. *)
Prewarm(c) ==
    /\ cli[c].pc = "try" /\ cli[c].att = 0 /\ c \in Web /\ cli[c].live
    /\ sess[cli[c].obj].items = <<>>
    /\ seen' = [seen EXCEPT ![c] = cli[c].replay]
    /\ EndTurn(c, commit(cli[c].obj, cli[c].replay, cli[c].replay))
    /\ UNCHANGED <<sock, strm, turns, nameless>>

(* The next candidate.  One that cannot use the socket closes it.          *)
Attempt(c) ==
    LET o == cli[c].obj
        next(pc, t) == cli' = [cli EXCEPT ![c] = [cli[c] EXCEPT !.pc = pc, !.target = t, !.att = @ + 1]]
    IN  /\ cli[c].pc = "try" /\ cli[c].live /\ cli[c].att < MaxAttempts
        /\ \/ /\ cli[c].native
              /\ \E t \in Targets \ {cli[c].target} : next("lock", t)
              /\ UNCHANGED sock
           \/ /\ next("http", None)
              /\ sock' = IF cli[c].native THEN closeLocked(o) ELSE sock
        /\ UNCHANGED <<sess, strm, seen, turns, nameless>>

(* What an attempt came to; once the turn is decided only its request and  *)
(* response matter.                                                        *)
Outcome(h, pc, r) ==
    IF pc \in {"done", "broken"}
    THEN [h EXCEPT !.pc = pc, !.got = r, !.prev = NoId, !.native = FALSE, !.target = None, !.att = 0]
    ELSE [h EXCEPT !.pc = pc]

(* The attempt over HTTP, of which the upstream makes a response from the  *)
(* replayed conversation.  It may fail before any output (the next         *)
(* candidate is tried) or after (the turn is over).                        *)
HttpDone(c) ==
    /\ cli[c].pc = "http"
    /\ cli' = [cli EXCEPT ![c] = Outcome(@, "done", @.replay)]
    /\ UNCHANGED <<sess, sock, strm, seen, turns, nameless>>

HttpFails(c) ==
    /\ cli[c].pc = "http"
    /\ \E pc \in {"try", "broken"} : cli' = [cli EXCEPT ![c] = Outcome(@, pc, NoId)]
    /\ UNCHANGED <<sess, sock, strm, seen, turns, nameless>>

(* The terminal event reached the handler: commit, unless the connection   *)
(* to the client broke before it was passed on.                            *)
Commit(c) ==
    LET o == cli[c].obj
        s == IF cli[c].keep THEN commit(o, cli[c].replay, cli[c].got) ELSE sess[o]
    IN  /\ cli[c].pc = "done"
        /\ \/ /\ seen' = [seen EXCEPT ![c] = cli[c].got]
              /\ EndTurn(c, s)
           \/ /\ ~cli[c].live
              /\ EndTurn(c, sess[o])
              /\ UNCHANGED seen
        /\ UNCHANGED <<sock, strm, turns, nameless>>

(* The stream ended after output and before its terminal event.  A         *)
(* websocket turn that left a tool call pending is committed without an    *)
(* id, and the connection closed for the client to retry.                  *)
Interrupted(c) ==
    LET o == cli[c].obj
    IN  /\ cli[c].pc = "broken"
        /\ \/ EndTurn(c, sess[o])
           \/ c \in Web /\ EndTurnTo(c, commit(o, cli[c].replay, NoId), "leave")
        /\ UNCHANGED <<sock, strm, seen, turns, nameless>>

-----------------------------------------------------------------------------
(* The upstream socket: roundTrip and the goroutine of streamResponse.     *)

(* What the upstream makes of a request with input and a previous response. *)
Context(known, prev, t) ==
    IF prev = NoId THEN <<t>>
    ELSE IF prev \in known THEN Append(prev, t) ELSE Missing

connectionReusable(o, t) ==
    sock[o].open /\ sock[o].target = t /\ ~sock[o].aged /\ sock[o].reads = <<>>

startStream(c, o) ==
    strm' = [strm EXCEPT ![o] = [NoStream EXCEPT !.st = "read", !.by = c, !.body = TRUE, !.live = cli[c].live,
                                                 !.replay = cli[c].replay, !.target = cli[c].target]]

(* A dialled socket with the replayed request written to it.               *)
Dialled(t, replay) ==
    [Closed EXCEPT !.open = TRUE, !.target = t, !.asked = TRUE, !.ctx = replay]

(* roundTrip up to the write on a socket it can reuse; without one, or when *)
(* that write fails, it closes what there is and dials.  turnMu.Lock        *)
(* ignores the context: a cancelled turn also waits here for the goroutine. *)
RoundTrip(c) ==
    LET o == cli[c].obj
        last == cli[c].replay[Len(cli[c].replay)]
    IN  /\ cli[c].pc = "lock" /\ turnMuFree(o)
        /\ \/ /\ connectionReusable(o, cli[c].target)
              /\ sock' = [sock EXCEPT ![o] = [@ EXCEPT !.asked = TRUE,
                                              !.ctx = Context(sock[o].known, cli[c].prev, last)]]
              /\ startStream(c, o)
              /\ cli' = [cli EXCEPT ![c].pc = "body"]
           \/ /\ sock' = closeLocked(o)
              /\ cli' = [cli EXCEPT ![c].pc = "dial"]
              /\ UNCHANGED strm
        /\ UNCHANGED <<sess, seen, turns, nameless>>

(* dial and the first write.  A refused handshake goes on over HTTP, any   *)
(* other failure ends the attempt; both give turnMu back.                  *)
Dial(c) ==
    LET o == cli[c].obj
    IN  /\ cli[c].pc = "dial"
        /\ \/ /\ cli[c].live
              /\ sock' = [sock EXCEPT ![o] = Dialled(cli[c].target, cli[c].replay)]
              /\ startStream(c, o)
              /\ cli' = [cli EXCEPT ![c].pc = "body"]
           \/ /\ \E pc \in {"try", "http"} : cli' = [cli EXCEPT ![c].pc = pc]
              /\ sock' = closeLocked(o)
              /\ UNCHANGED strm
        /\ UNCHANGED <<sess, seen, turns, nameless>>

Dead(o) == \E i \in DOMAIN sock[o].reads : sock[o].reads[i].kind = "err"

(* External: the upstream answers the request in progress, the reader      *)
(* queues the frame (enqueueRead).                                         *)
UpstreamFrame(o) ==
    LET k == sock[o]
        push(f, asked, known) ==
            sock' = [sock EXCEPT ![o] = [k EXCEPT !.reads = Append(@, f), !.asked = asked, !.known = known,
                                                     !.ctx = IF asked THEN @ ELSE <<>>]]
    IN  /\ k.open /\ k.asked /\ ~Dead(o)
        /\ \/ /\ k.ctx = Missing
              /\ push([kind |-> "missing", resp |-> NoId], FALSE, k.known)
           \/ /\ k.ctx # Missing /\ k.reads = <<>> /\ ~strm[o].sem
              /\ push([kind |-> "output", resp |-> NoId], TRUE, k.known)
           \/ /\ k.ctx # Missing
              /\ push([kind |-> "completed", resp |-> k.ctx], FALSE, k.known \cup {k.ctx})
           \/ /\ k.ctx # Missing
              /\ push([kind |-> "failed", resp |-> NoId], FALSE, k.known)
        /\ UNCHANGED <<sess, strm, cli, seen, turns, nameless>>

(* The reader queues its failure and then detaches the socket, leaving the *)
(* frames that were read; a failed ping detaches it at once.               *)
ReadFails(o) ==
    /\ sock[o].open /\ ~Dead(o)
    /\ sock' = [sock EXCEPT ![o].reads = Append(@, [kind |-> "err", resp |-> NoId])]
    /\ UNCHANGED <<sess, strm, cli, seen, turns, nameless>>

detachReadFailure(o) ==
    /\ sock[o].open
    /\ sock' = [sock EXCEPT ![o] = [Closed EXCEPT !.reads = sock[o].reads]]
    /\ UNCHANGED <<sess, strm, cli, seen, turns, nameless>>

(* expireConnection marks the socket and closes it if no turn is on it.    *)
(* The last turn may be between its own check and its unlock: then the     *)
(* marked socket stays open until it is next looked at.                    *)
expireConnection(o) ==
    /\ sock[o].open /\ ~sock[o].aged
    /\ \/ sock' = [sock EXCEPT ![o].aged = TRUE]
       \/ turnMuFree(o) /\ sock' = closeLocked(o)
    /\ UNCHANGED <<sess, strm, cli, seen, turns, nameless>>

(* finishTurn: the goroutine ends, an over-age socket goes with it.        *)
finishTurn(o, k) ==
    /\ strm' = [strm EXCEPT ![o] = NoStream]
    /\ sock' = [sock EXCEPT ![o] = IF k.aged THEN Closed ELSE k]

(* What the handler reading the pipe learns, unless it closed it.          *)
Tell(o, pc, r) ==
    cli' = IF strm[o].body
           THEN [cli EXCEPT ![strm[o].by] = Outcome(@, pc, r)] ELSE cli

(* invalidate after a failed read: one reconnect, as long as no output was *)
(* passed on and the request is not cancelled.                             *)
RetryOrFail(o) ==
    /\ \/ /\ ~strm[o].sem /\ ~strm[o].retried /\ strm[o].live
          /\ strm' = [strm EXCEPT ![o] = [@ EXCEPT !.st = "redial", !.retried = TRUE]]
          /\ sock' = closeLocked(o)
          /\ UNCHANGED cli
       \/ /\ strm[o].sem \/ strm[o].retried \/ ~strm[o].live
          /\ Tell(o, IF strm[o].sem THEN "broken" ELSE "try", NoId)
          /\ finishTurn(o, Closed)

HasRead(o) == sock[o].reads # <<>>

(* Mutant: a reader is not told that the socket was closed under it.       *)
nextReadFails_Blind(o) == ~HasRead(o) /\ ~strm[o].live

(* nextRead gives up when the socket is no longer the session's, or when   *)
(* the request is cancelled, after the frames that were read.              *)
nextReadFails(o) == ~HasRead(o) /\ (~sock[o].open \/ ~strm[o].live)

(* Mutant: the socket is kept although its request is in progress.         *)
WriteFailed_Kept(o) == [sock[o] EXCEPT !.reads = Tail(@)]

(* The socket after a frame could not be passed on, the handler having     *)
(* closed the pipe: invalidated, as its request is still in progress.      *)
WriteFailed(o) == Closed

(* One round of the goroutine's loop.                                      *)
StreamRead(o) ==
    LET f == Head(sock[o].reads)
        popped == [sock[o] EXCEPT !.reads = Tail(@)]
        isFrame(kind) == HasRead(o) /\ f.kind = kind
    IN  /\ strm[o].st = "read"
        /\ \/ /\ nextReadFails(o) \/ isFrame("err")
              /\ RetryOrFail(o)
           \/ /\ isFrame("missing")
              /\ \/ /\ ~strm[o].retried /\ strm[o].live
                    /\ RetryOrFail(o)
                 \/ /\ strm[o].retried \/ ~strm[o].live
                    /\ Tell(o, "try", NoId)
                    /\ finishTurn(o, Closed)
           \/ /\ isFrame("output")
              /\ \/ /\ strm[o].body
                    /\ strm' = [strm EXCEPT ![o].sem = TRUE]
                    /\ sock' = [sock EXCEPT ![o] = popped]
                 \/ /\ ~strm[o].body
                    /\ finishTurn(o, WriteFailed(o))
              /\ UNCHANGED cli
           \/ /\ isFrame("completed")
              /\ Tell(o, "done", f.resp)
              /\ finishTurn(o, IF strm[o].body THEN popped ELSE WriteFailed(o))
           \/ /\ isFrame("failed")
              /\ Tell(o, IF strm[o].sem THEN "broken" ELSE "try", NoId)
              /\ finishTurn(o, Closed)
        /\ UNCHANGED <<sess, seen, turns, nameless>>

(* reconnectWithReplay; a refused handshake sends the handler to HTTP.     *)
ReconnectWithReplay(o) ==
    /\ strm[o].st = "redial"
    /\ \/ /\ strm[o].live
          /\ sock' = [sock EXCEPT ![o] = Dialled(strm[o].target, strm[o].replay)]
          /\ strm' = [strm EXCEPT ![o].st = "read"]
          /\ UNCHANGED cli
       \/ /\ \E pc \in {"try", "http"} : Tell(o, pc, NoId)
          /\ finishTurn(o, sock[o])
    /\ UNCHANGED <<sess, seen, turns, nameless>>

(* The handler stops reading (a timeout, a failed write to the client):    *)
(* Body.Close aborts the socket first, the request's context is cancelled  *)
(* after it, and in between the goroutine may reconnect for nobody.        *)
CloseBody(c) ==
    LET o == cli[c].obj
    IN  /\ cli[c].pc = "body"
        /\ sock' = closeLocked(o)
        /\ strm' = [strm EXCEPT ![o].body = FALSE]
        /\ cli' = [cli EXCEPT ![c].pc = IF strm[o].sem THEN "cutoff" ELSE "closing"]
        /\ UNCHANGED <<sess, seen, turns, nameless>>

CancelAttempt(c) ==
    LET o == cli[c].obj
        mine == strm[o].st # "off" /\ strm[o].by = c
    IN  /\ cli[c].pc \in {"closing", "cutoff"}
        /\ strm' = IF mine THEN [strm EXCEPT ![o].live = FALSE] ELSE strm
        /\ sock' = IF mine THEN closeLocked(o) ELSE sock
        /\ cli' = [cli EXCEPT ![c] = Outcome(@, IF @.pc = "cutoff" THEN "broken" ELSE "try", NoId)]
        /\ UNCHANGED <<sess, seen, turns, nameless>>

-----------------------------------------------------------------------------
(* The client goes away: its context is cancelled, and with it the request *)
(* on the socket.  A connection that waits for a turn or for a message     *)
(* leaves at once.                                                         *)
Gone(C) ==
    LET cut(o) == strm[o].st # "off" /\ strm[o].body /\ strm[o].by \in C
    IN  /\ cli' = [c \in Clients |->
                     IF c \notin C \/ cli[c].pc = "away" THEN cli[c]
                     ELSE [cli[c] EXCEPT !.live = FALSE,
                             !.pc = IF @ \in {"ready", "turn"}
                                    THEN IF cli[c].obj = None THEN "away" ELSE "leave" ELSE @]]
        /\ strm' = [o \in Objs |-> IF cut(o) THEN [strm[o] EXCEPT !.live = FALSE] ELSE strm[o]]
        /\ sock' = [o \in Objs |-> IF cut(o) THEN Closed ELSE sock[o]]

ClientGone(c) ==
    /\ cli[c].pc # "away" /\ cli[c].live
    /\ Gone({c})
    /\ UNCHANGED <<sess, seen, turns, nameless>>

-----------------------------------------------------------------------------
Handler(c) ==
    \/ Acquire(c) \/ Release(c) \/ BeginTurn(c) \/ GiveUp(c) \/ Prewarm(c)
    \/ Attempt(c) \/ HttpDone(c) \/ Commit(c) \/ Interrupted(c)
    \/ RoundTrip(c) \/ Dial(c) \/ CancelAttempt(c)

Stream(o) == StreamRead(o) \/ ReconnectWithReplay(o)

(* What comes from outside at any moment, at most MaxFaults times: a client *)
(* goes, an answer is given up, a read or a ping fails, a socket grows old. *)
Fault ==
    /\ faults < MaxFaults
    /\ faults' = faults + 1
    /\ \/ \E c \in Clients : ClientGone(c) \/ CloseBody(c)
       \/ \E o \in Objs : ReadFails(o) \/ (~Dead(o) /\ detachReadFailure(o)) \/ expireConnection(o)

Next ==
    \/ /\ UNCHANGED faults
       /\ \/ \E c \in Clients : Handler(c) \/ Connect(c) \/ Message(c) \/ HttpFails(c)
          \/ \E o \in Objs : Stream(o) \/ UpstreamFrame(o) \/ (Dead(o) /\ detachReadFailure(o))
          \/ Cleanup \/ TimePasses
    \/ Fault

Spec == Init /\ [][Next]_vars

-----------------------------------------------------------------------------
(* A transient session is deleted with its last attachment, so eviction    *)
(* under capacity or budget pressure never has a victim.                   *)
NoIdleTransient ==
    \A o \in Stored : sess[o].key = "private" => sess[o].active > 0

(* Clients attached under the same Session-Id share one session object, so *)
(* their turns are serialised and continue one conversation: cleanup and   *)
(* acquire never drop an object that is attached, however long a           *)
(* connection has been quiet.                                              *)
OneSession ==
    /\ NoIdleTransient
    /\ \A c, d \in {e \in Clients : cli[e].obj # None} :
           cli[c].key = "shared" /\ cli[d].key = "shared" => cli[c].obj = cli[d].obj

(* The upstream built the last response of a session from exactly the      *)
(* conversation the session will replay: incremental requests on a reused  *)
(* socket, reconnects, failover and interrupted turns lose and repeat      *)
(* nothing.  The exception is a turn that continued a session without a    *)
(* last response id (an interrupted turn commits none): its incremental    *)
(* request carries neither the transcript nor a previous_response_id, and  *)
(* on a socket that an uncommitted turn left open the upstream answers     *)
(* without what went before.                                               *)
ContextIntact ==
    \A o \in Objs : sess[o].last # NoId =>
        LET all == sess[o].items
        IN  \E i \in DOMAIN all : /\ i = 1 \/ all[i] \in nameless
                                  /\ sess[o].last = SubSeq(all, i, Len(all))

(* A socket kept for the next turn owes nothing: no request is in progress *)
(* on it and no frame of an earlier one waits, so the next turn cannot be  *)
(* given the answer to another.                                            *)
KeptSocketIsQuiet ==
    \A o \in Objs : turnMuFree(o) /\ sock[o].open =>
        /\ ~sock[o].asked
        /\ \A i \in DOMAIN sock[o].reads : sock[o].reads[i].kind = "err"

(* Whoever holds a session's turn can always go on: its handler has a step *)
(* to take, or the goroutine that reads for it has, or the upstream (whose *)
(* silence the read deadline ends) owes it a frame.  No cancelled request, *)
(* lost socket or late reconnect leaves the session locked for its other   *)
(* clients.                                                                *)
TurnNeverStuck ==
    \A o \in Objs : sess[o].turn # None =>
        ENABLED (Handler(sess[o].turn) \/ Stream(o) \/ UpstreamFrame(o))

=============================================================================
