---------------------------- MODULE SessionsProofs -----------------------------
(***************************************************************************)
(* Sessions for any clients, targets, capacities and numbers of session    *)
(* objects, turns and faults.                                              *)
(***************************************************************************)
EXTENDS Sessions, FiniteSetTheorems, SequenceTheorems, TLAPS

(* Types.  A handler past "ready" has its session object, and one that works *)
(* on a turn the request it replays.                                         *)

Equipped ==
    \A c \in Clients :
        /\ cli[c].pc \notin {"away", "ready"} => cli[c].obj \in Objs
        /\ cli[c].pc \in Working => cli[c].replay # <<>>

Typed == TypeOK /\ Equipped

LEMMA Blank ==
    /\ NoSess \in SessType /\ Closed \in SockType /\ NoStream \in StrmType /\ Away \in CliType
    /\ NoId \in Items /\ Missing \in Items
<1>1. <<>> \in Items /\ <<0>> \in Items /\ <<>> \in Seq(Frames)
  BY DEF Items
<1> QED
  BY <1>1 DEF NoSess, SessType, Closed, SockType, NoStream, StrmType, Away, CliType, NoId, Missing, Keys, Between, None

LEMMA Appending ==
    ASSUME NEW S, NEW s \in Seq(S), NEW x \in S
    PROVE  Append(s, x) \in Seq(S) /\ Append(s, x) # <<>> /\ <<x>> \in Seq(S) /\ <<x>> # <<>>
<1>1. Append(s, x) \in Seq(S) /\ Len(Append(s, x)) = Len(s) + 1 /\ Len(s) \in Nat
  OBVIOUS
<1>2. Append(s, x) # <<>>
  <2>1. Len(Append(s, x)) # Len(<<>>)
    BY <1>1
  <2> QED
    BY <2>1
<1>3. <<x>> \in Seq(S)
  OBVIOUS
<1>4. <<x>> # <<>>
  <2>1. Len(<<x>>) = 1 /\ Len(<<>>) = 0
    OBVIOUS
  <2> QED
    BY <2>1
<1> QED
  BY <1>1, <1>2, <1>3, <1>4

LEMMA Reading ==
    ASSUME NEW S, NEW s \in Seq(S), s # <<>>
    PROVE  Head(s) \in S /\ Tail(s) \in Seq(S) /\ s[Len(s)] \in S
OBVIOUS

LEMMA SockTyped ==
    ASSUME NEW k \in SockType
    PROVE  /\ k.open \in BOOLEAN /\ k.target \in Targets \cup {None} /\ k.reads \in Seq(Frames)
           /\ k.aged \in BOOLEAN /\ k.asked \in BOOLEAN /\ k.ctx \in Items /\ k.known \subseteq Items
           /\ \A f \in Frames : [k EXCEPT !.reads = Append(@, f)] \in SockType
           /\ k.reads # <<>> => [k EXCEPT !.reads = Tail(@)] \in SockType /\ Head(k.reads) \in Frames
           /\ [k EXCEPT !.aged = TRUE] \in SockType
<1>1. /\ k.open \in BOOLEAN /\ k.target \in Targets \cup {None} /\ k.reads \in Seq(Frames)
      /\ k.aged \in BOOLEAN /\ k.asked \in BOOLEAN /\ k.ctx \in Items /\ k.known \subseteq Items
  BY DEF SockType
<1>2. ASSUME NEW f \in Frames PROVE [k EXCEPT !.reads = Append(@, f)] \in SockType
  <2>1. Append(k.reads, f) \in Seq(Frames)
    BY <1>1
  <2> HIDE DEF Frames
  <2> QED
    BY <1>1, <2>1 DEF SockType
<1>3. ASSUME k.reads # <<>> PROVE [k EXCEPT !.reads = Tail(@)] \in SockType /\ Head(k.reads) \in Frames
  <2>1. Tail(k.reads) \in Seq(Frames) /\ Head(k.reads) \in Frames
    BY <1>1, <1>3
  <2> QED
    BY <1>1, <2>1 DEF SockType
<1>4. [k EXCEPT !.aged = TRUE] \in SockType
  BY DEF SockType
<1> QED
  BY <1>1, <1>2, <1>3, <1>4

LEMMA SweepTyped ==
    ASSUME TypeOK
    PROVE  Swept \in [Objs -> SessType] /\ SweptSockets \in [Objs -> SockType]
<1>1. ASSUME NEW o \in Objs PROVE Forgotten(o, sess[o].active) \in SessType
  BY Blank DEF Forgotten, SessType, TypeOK
<1>2. Swept \in [Objs -> SessType]
  BY <1>1 DEF Swept, TypeOK
<1>3. SweptSockets \in [Objs -> SockType]
  BY Blank DEF SweptSockets, TypeOK
<1> QED
  BY <1>2, <1>3

LEMMA CloseTyped ==
    ASSUME TypeOK, NEW o
    PROVE  closeLocked(o) \in [Objs -> SockType]
BY Blank DEF closeLocked, TypeOK

LEMMA OutcomeTyped ==
    ASSUME NEW h \in CliType, NEW pc \in Between \cup Working, NEW r \in Items
    PROVE  /\ Outcome(h, pc, r) \in CliType
           /\ Outcome(h, pc, r).pc = pc /\ Outcome(h, pc, r).obj = h.obj /\ Outcome(h, pc, r).replay = h.replay
           /\ Outcome(h, pc, r).key = h.key
BY Blank DEF Outcome, CliType, Between, Working

\* One handler moves.
LEMMA CliTyped ==
    ASSUME Typed, NEW c \in Clients, NEW h \in CliType, cli' = [cli EXCEPT ![c] = h],
           h.pc \notin {"away", "ready"} => h.obj \in Objs, h.pc \in Working => h.replay # <<>>
    PROVE  cli' \in [Clients -> CliType] /\ Equipped'
<1>1. cli' \in [Clients -> CliType] /\ cli'[c] = h /\ \A d \in Clients \ {c} : cli'[d] = cli[d]
  BY DEF Typed, TypeOK
<1> HIDE DEF CliType
<1> QED
  BY <1>1 DEF Typed, Equipped

LEMMA EndTyped ==
    ASSUME Typed, NEW c \in Clients, cli[c].pc \in Working, NEW s \in SessType, NEW pc \in {"ready", "leave"},
           EndTurnTo(c, s, pc)
    PROVE  sess' \in [Objs -> SessType] /\ cli' \in [Clients -> CliType] /\ Equipped'
<1> DEFINE h == [Away EXCEPT !.pc = pc, !.obj = cli[c].obj, !.key = cli[c].key, !.live = cli[c].live]
<1>1. cli[c] \in CliType /\ cli[c].obj \in Objs
  BY DEF Typed, TypeOK, Equipped, Working
<1>2. h \in CliType /\ h.pc = pc /\ h.obj = cli[c].obj
  BY <1>1, Blank DEF CliType, Away, Between
<1>3. cli' = [cli EXCEPT ![c] = h]
  BY DEF EndTurnTo
<1>4. cli' \in [Clients -> CliType] /\ Equipped'
  <2> HIDE DEF h
  <2> QED
    BY <1>1, <1>2, <1>3, CliTyped DEF Working
<1>5. [s EXCEPT !.turn = None] \in SessType
  BY DEF SessType
<1>6. sess' \in [Objs -> SessType]
  BY <1>1, <1>5 DEF EndTurnTo, Typed, TypeOK
<1> QED
  BY <1>4, <1>6

LEMMA CommitTyped ==
    ASSUME TypeOK, NEW o \in Objs, NEW items \in Items, NEW r \in Items
    PROVE  commit(o, items, r) \in SessType /\ sess[o] \in SessType
BY DEF commit, TypeOK, SessType

\* What a handler at work has.
LEMMA AtWork ==
    ASSUME Typed, NEW c \in Clients, cli[c].pc \in Working
    PROVE  /\ cli[c] \in CliType /\ cli[c].obj \in Objs /\ cli[c].replay \in Items /\ cli[c].replay # <<>>
           /\ cli[c].got \in Items /\ cli[c].prev \in Items /\ cli[c].live \in BOOLEAN
           /\ cli[c].target \in Targets \cup {None}
BY DEF Typed, TypeOK, Equipped, CliType, Working

\* The start of the goroutine that reads for a handler.
LEMMA StartTyped ==
    ASSUME Typed, NEW c \in Clients, cli[c].pc \in Working, startStream(c, cli[c].obj)
    PROVE  strm' \in [Objs -> StrmType]
<1>1. /\ cli[c].obj \in Objs /\ cli[c].replay \in Items /\ cli[c].live \in BOOLEAN
      /\ cli[c].target \in Targets \cup {None}
  BY AtWork
<1>2. [NoStream EXCEPT !.st = "read", !.by = c, !.body = TRUE, !.live = cli[c].live,
                       !.replay = cli[c].replay, !.target = cli[c].target] \in StrmType
  BY <1>1, Blank DEF StrmType, NoStream
<1> QED
  BY <1>1, <1>2 DEF startStream, Typed, TypeOK

LEMMA DialledTyped ==
    ASSUME NEW t \in Targets \cup {None}, NEW replay \in Items
    PROVE  Dialled(t, replay) \in SockType
BY Blank DEF Dialled, SockType, Closed

LEMMA FinishTyped ==
    ASSUME TypeOK, NEW o \in Objs, NEW k \in SockType, finishTurn(o, k)
    PROVE  strm' \in [Objs -> StrmType] /\ sock' \in [Objs -> SockType]
BY Blank DEF finishTurn, TypeOK

\* Telling the handler that reads the pipe.
LEMMA TellTyped ==
    ASSUME Typed, NEW o \in Objs, NEW pc \in {"try", "http", "broken", "done"}, NEW r \in Items, Tell(o, pc, r),
           strm[o].body => strm[o].by \in Clients /\ cli[strm[o].by].pc \in Working
    PROVE  cli' \in [Clients -> CliType] /\ Equipped'
<1>1. CASE strm[o].body
  <2> DEFINE c == strm[o].by
             h == Outcome(cli[c], pc, r)
  <2>1. c \in Clients /\ cli[c].pc \in Working /\ cli[c] \in CliType /\ cli[c].obj \in Objs /\ cli[c].replay # <<>>
    BY <1>1, AtWork
  <2>2. pc \in Between \cup Working
    BY DEF Working
  <2>3. h \in CliType /\ h.obj \in Objs /\ h.replay # <<>>
    BY <2>1, <2>2, OutcomeTyped
  <2>4. cli' = [cli EXCEPT ![c] = h]
    BY <1>1 DEF Tell
  <2> HIDE DEF h, c
  <2> QED
    BY <2>1, <2>3, <2>4, CliTyped
<1>2. CASE ~ strm[o].body
  BY <1>2 DEF Tell, Typed, TypeOK, Equipped
<1> QED
  BY <1>1, <1>2

-------------------------------------------------------------------------------
(* The turn of turnMu.  One handler at most dials for a session object, and  *)
(* only while no goroutine reads for it; a goroutine whose pipe is open is    *)
(* read by the handler it was started for.                                   *)

OneOnSocket ==
    /\ \A c, d \in Clients : cli[c].pc = "dial" /\ cli[d].pc = "dial" /\ cli[c].obj = cli[d].obj => c = d
    /\ \A c \in Clients, o \in Objs : cli[c].pc = "dial" /\ cli[c].obj = o => strm[o].st = "off"

PipeRead ==
    \A o \in Objs : strm[o].body =>
        strm[o].by \in Clients /\ cli[strm[o].by].pc = "body" /\ cli[strm[o].by].obj = o

\* What was read of a socket is in order: after the end of an answer only the
\* failure of the reader, and no end while the request is in progress.
Final == {"completed", "failed", "missing"}
InOrder(k) ==
    /\ \A i, j \in DOMAIN k.reads : i < j /\ k.reads[i].kind \in Final => k.reads[j].kind = "err"
    /\ k.asked => \A i \in DOMAIN k.reads : k.reads[i].kind \notin Final

SocketInv ==
    /\ OneOnSocket /\ PipeRead
    /\ \A o \in Objs : InOrder(sock[o]) /\ (strm[o].st = "redial" => ~ sock[o].open)
    /\ KeptSocketIsQuiet

SafeInv == Typed /\ SocketInv

-------------------------------------------------------------------------------
(* Steps that at most close sockets.                                         *)

Calm ==
    \A o \in Objs :
        /\ sock'[o].open => sock[o].open
        /\ sock'[o].reads = sock[o].reads \/ sock'[o].reads = <<>>
        /\ sock'[o].asked => sock[o].asked

LEMMA ClosingCalm ==
    ASSUME TypeOK, \A o \in Objs : sock'[o] \in {sock[o], Closed}
    PROVE  Calm
BY DEF Calm, Closed

LEMMA SocketCalm ==
    ASSUME SocketInv, Calm,
           \A o \in Objs : /\ strm'[o].st = strm[o].st
                           /\ strm'[o].body => /\ strm[o].body /\ strm'[o].by = strm[o].by
                                               /\ cli'[strm[o].by].pc = "body" /\ cli'[strm[o].by].obj = o,
           \A c \in Clients : (cli'[c].pc = "dial" <=> cli[c].pc = "dial")
                              /\ (cli[c].pc = "dial" => cli'[c].obj = cli[c].obj)
    PROVE  SocketInv'
<1>1. OneOnSocket' /\ PipeRead'
  BY DEF SocketInv, OneOnSocket, PipeRead
<1>2. \A o \in Objs : InOrder(sock[o])'
  <2> SUFFICES ASSUME NEW o \in Objs PROVE InOrder(sock[o])'
    OBVIOUS
  <2>1. InOrder(sock[o])
    BY DEF SocketInv
  <2>2. CASE sock'[o].reads = <<>>
    BY <2>2 DEF InOrder
  <2>3. CASE sock'[o].reads = sock[o].reads
    BY <2>1, <2>3 DEF InOrder, Calm
  <2> QED
    BY <2>2, <2>3 DEF Calm
<1>3. \A o \in Objs : strm'[o].st = "redial" => ~ sock'[o].open
  BY DEF SocketInv, Calm
<1>4. KeptSocketIsQuiet'
  <2> SUFFICES ASSUME NEW o \in Objs, turnMuFree(o)', sock'[o].open
               PROVE  ~ sock'[o].asked /\ \A i \in DOMAIN sock'[o].reads : sock'[o].reads[i].kind = "err"
    BY DEF KeptSocketIsQuiet
  <2>1. turnMuFree(o)
    BY DEF turnMuFree
  <2>2. sock[o].open
    BY DEF Calm
  <2>3. ~ sock[o].asked /\ \A i \in DOMAIN sock[o].reads : sock[o].reads[i].kind = "err"
    BY <2>1, <2>2 DEF SocketInv, KeptSocketIsQuiet
  <2>4. CASE sock'[o].reads = <<>>
    BY <2>3, <2>4 DEF Calm
  <2>5. CASE sock'[o].reads = sock[o].reads
    BY <2>3, <2>5 DEF Calm
  <2> QED
    BY <2>4, <2>5 DEF Calm
<1> QED
  BY <1>1, <1>2, <1>3, <1>4 DEF SocketInv

\* A handler that neither dials nor reads moves.
LEMMA HandlerCalm ==
    ASSUME SafeInv, NEW c \in Clients, strm' = strm, \A o \in Objs : sock'[o] \in {sock[o], Closed},
           cli[c].pc \notin {"body", "dial"}, cli'[c].pc # "dial", \A d \in Clients \ {c} : cli'[d] = cli[d]
    PROVE  SocketInv'
<1>1. Calm
  BY ClosingCalm DEF SafeInv, Typed
<1>2. \A o \in Objs : strm[o].body => strm[o].by \in Clients \ {c} /\ cli[strm[o].by].pc = "body" /\ cli[strm[o].by].obj = o
  BY DEF SafeInv, SocketInv, PipeRead
<1> QED
  BY <1>1, <1>2, SocketCalm DEF SafeInv

\* Together with the types.
LEMMA HandlerSafe ==
    ASSUME SafeInv, NEW c \in Clients, faults' \in 0..MaxFaults, strm' = strm,
           cli[c].pc \notin {"body", "dial"}, NEW h \in CliType, cli' = [cli EXCEPT ![c] = h],
           h.pc # "dial", h.pc \notin {"away", "ready"} => h.obj \in Objs, h.pc \in Working => h.replay # <<>>,
           sess' \in [Objs -> SessType], sock' \in [Objs -> SockType],
           \A o \in Objs : sock'[o] \in {sock[o], Closed},
           seen' \in [Clients -> Items], turns' \in Nat, nameless' \subseteq Nat
    PROVE  SafeInv'
<1>1. cli' \in [Clients -> CliType] /\ Equipped'
  BY CliTyped DEF SafeInv
<1>2. cli'[c] = h /\ \A d \in Clients \ {c} : cli'[d] = cli[d]
  BY DEF SafeInv, Typed, TypeOK
<1>3. SocketInv'
  BY <1>2, HandlerCalm
<1> QED
  BY <1>1, <1>3 DEF SafeInv, Typed, TypeOK

\* A turn ends.
LEMMA EndSafe ==
    ASSUME SafeInv, NEW c \in Clients, faults' \in 0..MaxFaults, UNCHANGED <<sock, strm, turns, nameless>>,
           cli[c].pc \in Working \ {"body", "dial"}, NEW s \in SessType, NEW pc \in {"ready", "leave"},
           EndTurnTo(c, s, pc), seen' \in [Clients -> Items]
    PROVE  SafeInv'
<1>1. Typed /\ sock \in [Objs -> SockType] /\ turns \in Nat /\ nameless \subseteq Nat /\ cli \in [Clients -> CliType]
      /\ strm \in [Objs -> StrmType]
  BY DEF SafeInv, Typed, TypeOK
<1>2. sess' \in [Objs -> SessType] /\ cli' \in [Clients -> CliType] /\ Equipped'
  BY <1>1, EndTyped
<1>3. cli'[c].pc = pc /\ \A d \in Clients \ {c} : cli'[d] = cli[d]
  BY <1>1 DEF EndTurnTo, Away
<1>4. SocketInv'
  BY <1>3, HandlerCalm
<1> QED
  BY <1>1, <1>2, <1>4 DEF SafeInv, Typed, TypeOK

-------------------------------------------------------------------------------
(* The handlers.                                                             *)

LEMMA ConnectSafe ==
    ASSUME SafeInv, faults' \in 0..MaxFaults, NEW c \in Clients, Connect(c) \/ Message(c) \/ HttpDone(c) \/ HttpFails(c)
    PROVE  SafeInv'
<1>t. /\ TypeOK /\ Typed /\ sess \in [Objs -> SessType] /\ sock \in [Objs -> SockType] /\ cli \in [Clients -> CliType]
      /\ seen \in [Clients -> Items] /\ turns \in Nat /\ nameless \subseteq Nat /\ cli[c] \in CliType
  BY DEF SafeInv, Typed, TypeOK
<1>1. UNCHANGED <<sess, sock, strm, seen, turns, nameless>>
  BY DEF Connect, Message, HttpDone, HttpFails
<1>2. CASE Connect(c)
  <2>1. PICK key \in Keys : cli' = [cli EXCEPT ![c] = [Away EXCEPT !.pc = "ready", !.key = key]]
    BY <1>2 DEF Connect, Keys
  <2> DEFINE h == [Away EXCEPT !.pc = "ready", !.key = key]
  <2>2. h \in CliType /\ h.pc = "ready"
    BY Blank DEF CliType, Away, Between
  <2>3. cli[c].pc = "away"
    BY <1>2 DEF Connect
  <2> HIDE DEF h
  <2> QED
    BY <1>t, <1>1, <2>1, <2>2, <2>3, HandlerSafe DEF Working, h
<1>3. CASE Message(c)
  <2> DEFINE h == [cli[c] EXCEPT !.pc = "turn"]
  <2>1. cli' = [cli EXCEPT ![c] = h] /\ cli[c].pc = "ready" /\ cli[c].obj # None
    BY <1>3 DEF Message
  <2>2. h \in CliType /\ h.pc = "turn" /\ h.obj \in Objs
    BY <1>t, <2>1 DEF CliType, Between
  <2> HIDE DEF h
  <2> QED
    BY <1>t, <1>1, <2>1, <2>2, HandlerSafe DEF Working
<1>4. ASSUME cli[c].pc = "http", NEW pc \in {"done", "try", "broken"}, NEW r \in Items,
             cli' = [cli EXCEPT ![c] = Outcome(cli[c], pc, r)]
      PROVE  SafeInv'
  <2> DEFINE h == Outcome(cli[c], pc, r)
  <2>1. pc \in Between \cup Working /\ cli[c].pc \in Working
    BY <1>4 DEF Working
  <2>2. h \in CliType /\ h.pc = pc /\ h.obj \in Objs /\ h.replay # <<>>
    <3>1. cli[c].obj \in Objs /\ cli[c].replay # <<>>
      BY <1>t, <2>1, AtWork
    <3>2. h \in CliType /\ h.pc = pc /\ h.obj = cli[c].obj /\ h.replay = cli[c].replay
      BY <1>t, <2>1, OutcomeTyped
    <3> QED
      BY <3>1, <3>2
  <2>3. cli' = [cli EXCEPT ![c] = h]
    BY <1>4
  <2> HIDE DEF h
  <2> QED
    BY <1>t, <1>1, <1>4, <2>2, <2>3, HandlerSafe
<1>5. CASE HttpDone(c)
  <2>1. cli[c].replay \in Items /\ cli[c].pc = "http" /\ cli' = [cli EXCEPT ![c] = Outcome(cli[c], "done", cli[c].replay)]
    BY <1>5, <1>t DEF HttpDone, CliType
  <2> QED
    BY <2>1, <1>4
<1>6. CASE HttpFails(c)
  <2>1. cli[c].pc = "http" /\ \E pc \in {"try", "broken"} : cli' = [cli EXCEPT ![c] = Outcome(cli[c], pc, NoId)]
    BY <1>6 DEF HttpFails
  <2> QED
    BY <2>1, <1>4, Blank
<1> QED
  BY <1>2, <1>3, <1>5, <1>6

LEMMA TurnEndsSafe ==
    ASSUME SafeInv, faults' \in 0..MaxFaults, NEW c \in Clients,
           GiveUp(c) \/ Prewarm(c) \/ Commit(c) \/ Interrupted(c)
    PROVE  SafeInv'
<1>t. /\ TypeOK /\ Typed /\ sess \in [Objs -> SessType] /\ seen \in [Clients -> Items]
  BY DEF SafeInv, Typed, TypeOK
<1>1. UNCHANGED <<sock, strm, turns, nameless>>
  BY DEF GiveUp, Prewarm, Commit, Interrupted
<1>2. cli[c].pc \in Working \ {"body", "dial"}
  BY DEF GiveUp, Prewarm, Commit, Interrupted, Working
<1>3. cli[c].obj \in Objs /\ cli[c].replay \in Items /\ cli[c].got \in Items
  BY <1>t, <1>2, AtWork
<1>4. /\ sess[cli[c].obj] \in SessType /\ commit(cli[c].obj, cli[c].replay, cli[c].replay) \in SessType
      /\ commit(cli[c].obj, cli[c].replay, cli[c].got) \in SessType /\ commit(cli[c].obj, cli[c].replay, NoId) \in SessType
  BY <1>t, <1>3, CommitTyped, Blank
<1>5. ASSUME NEW s \in SessType, EndTurn(c, s), seen' \in [Clients -> Items] PROVE SafeInv'
  <2>1. PICK pc \in {"ready", "leave"} : EndTurnTo(c, s, pc)
    BY <1>5 DEF EndTurn
  <2> QED
    BY <1>1, <1>2, <1>5, <2>1, EndSafe
<1>6. CASE GiveUp(c)
  BY <1>t, <1>4, <1>5, <1>6 DEF GiveUp
<1>7. CASE Prewarm(c)
  <2>1. seen' \in [Clients -> Items] /\ EndTurn(c, commit(cli[c].obj, cli[c].replay, cli[c].replay))
    BY <1>t, <1>3, <1>7 DEF Prewarm
  <2> QED
    BY <1>4, <1>5, <2>1
<1>8. CASE Commit(c)
  <2>1. seen' \in [Clients -> Items]
    BY <1>t, <1>3, <1>8 DEF Commit
  <2>2. EndTurn(c, commit(cli[c].obj, cli[c].replay, cli[c].got)) \/ EndTurn(c, sess[cli[c].obj])
    BY <1>8 DEF Commit
  <2> QED
    BY <1>4, <1>5, <2>1, <2>2
<1>9. CASE Interrupted(c)
  <2>1. EndTurn(c, sess[cli[c].obj]) \/ EndTurnTo(c, commit(cli[c].obj, cli[c].replay, NoId), "leave")
    BY <1>9 DEF Interrupted
  <2>2. seen' \in [Clients -> Items]
    BY <1>t, <1>9 DEF Interrupted
  <2> QED
    BY <1>1, <1>2, <1>4, <1>5, <2>1, <2>2, EndSafe
<1> QED
  BY <1>6, <1>7, <1>8, <1>9

-------------------------------------------------------------------------------
(* Attachment.  A session object counts the clients attached to it, keeps    *)
(* their key, and is stored as long as there are any.                        *)

Attached(o) == {c \in Clients : cli[c].obj = o}

AttachInv ==
    /\ \A o \in Objs : sess[o].active = Cardinality(Attached(o))
    /\ \A c \in Clients : cli[c].obj # None =>
           sess[cli[c].obj].stored /\ sess[cli[c].obj].key = cli[c].key
    /\ \A c \in Clients : cli[c].pc = "away" => cli[c].obj = None
    /\ \A o, p \in Stored : sess[o].key = "shared" /\ sess[p].key = "shared" => o = p
    /\ NoIdleTransient

LEMMA Counting ==
    ASSUME NEW S \in SUBSET Clients
    PROVE  /\ Cardinality(S) \in Nat /\ (S # {} => Cardinality(S) >= 1) /\ (S = {} => Cardinality(S) = 0)
           /\ \A c \in Clients \ S : Cardinality(S \cup {c}) = Cardinality(S) + 1
           /\ \A c \in S : Cardinality(S \ {c}) = Cardinality(S) - 1
<1>1. IsFiniteSet(Clients)
  BY SessionsAssumption, FS_Union DEF Clients
<1>2. IsFiniteSet(S)
  BY <1>1, FS_Subset
<1>3. Cardinality(S) \in Nat
  BY <1>2, FS_CardinalityType
<1>4. Cardinality(S) = 0 <=> S = {}
  BY <1>2, FS_EmptySet
<1>5. \A c \in Clients \ S : Cardinality(S \cup {c}) = Cardinality(S) + 1
  BY <1>2, FS_AddElement
<1>6. \A c \in S : Cardinality(S \ {c}) = Cardinality(S) - 1
  BY <1>2, FS_RemoveElement
<1> QED
  BY <1>3, <1>4, <1>5, <1>6

LEMMA Least ==
    ASSUME NEW T, T \subseteq Nat, T # {}
    PROVE  \E m \in T : \A y \in T : m <= y
<1>1. PICK m \in T : \A y \in T : ~ (<<y, m>> \in OpToRel(<, Nat))
  BY WFMin, NatLessThanWellFounded
<1>2. ASSUME NEW y \in T, y < m PROVE FALSE
  <2>1. <<y, m>> \in {ab \in Nat \X Nat : ab[1] < ab[2]}
    BY <1>2
  <2>2. <<y, m>> \in OpToRel(<, Nat)
    BY <2>1, Zenon DEF OpToRel
  <2> QED
    BY <2>2, <1>1
<1> QED
  BY <1>2

Fresh(c) == [NoSess EXCEPT !.key = cli[c].key, !.stored = TRUE]
Takes(c, o, s) ==
    /\ sess' = [Swept EXCEPT ![o] = [s EXCEPT !.active = @ + 1, !.idle = 0]]
    /\ cli' = [cli EXCEPT ![c] = [cli[c] EXCEPT !.obj = o, !.pc = "turn"]]
Joins(c, o) ==
    o \in Stored \ removeExpiredLocked /\ sess[o].key = "shared" /\ cli[c].key = "shared"
Opens(c, o) ==
    /\ ~ sess[o].stored /\ \A d \in Clients : cli[d].obj # o
    /\ cli[c].key = "shared" => \A p \in Stored \ removeExpiredLocked : sess[p].key # "shared"
Refused(c) == sess' = Swept /\ cli' = (IF c \in Web THEN cli ELSE [cli EXCEPT ![c] = Away])

\* What acquire does: it refuses the client, attaches it to the stored session of
\* its key, or makes one, only if none is left.
LEMMA AcquireIs ==
    ASSUME NEW c \in Clients, Acquire(c)
    PROVE  /\ cli[c].pc = "ready" /\ cli[c].obj = None
           /\ sock' = SweptSockets /\ UNCHANGED <<strm, seen, turns, nameless>>
           /\ \/ Refused(c)
              \/ \E o \in Objs : Takes(c, o, sess[o]) /\ Joins(c, o)
              \/ \E o \in Objs : Takes(c, o, Fresh(c)) /\ Opens(c, o)
<1> DEFINE left == Stored \ removeExpiredLocked
           mine == {o \in left : cli[c].key = "shared" /\ sess[o].key = "shared"}
           unused == {o \in Objs : /\ ~sess[o].stored /\ strm[o].st = "off"
                                   /\ \A d \in Clients : cli[d].obj # o}
           low == CHOOSE o \in unused : \A p \in unused : o <= p
<1>1. \/ Refused(c)
      \/ \E o \in mine : Takes(c, o, sess[o])
      \/ mine = {} /\ unused # {} /\ Takes(c, low, Fresh(c))
  BY DEF Acquire, Refused, Takes, Fresh
<1>0. /\ cli[c].pc = "ready" /\ cli[c].obj = None
      /\ sock' = SweptSockets /\ UNCHANGED <<strm, seen, turns, nameless>>
  BY DEF Acquire
<1>2. CASE \E o \in mine : Takes(c, o, sess[o])
  <2>1. PICK o \in mine : Takes(c, o, sess[o])
    BY <1>2
  <2>2. o \in Objs /\ Joins(c, o)
    BY <2>1 DEF Stored, Joins
  <2> QED
    BY <1>0, <2>1, <2>2
<1>3. CASE mine = {} /\ unused # {} /\ Takes(c, low, Fresh(c))
  <2>1. unused \subseteq Nat /\ unused \subseteq Objs
    BY SessionsAssumption DEF Objs
  <2>2. \E o \in unused : \A p \in unused : o <= p
    <3> HIDE DEF unused
    <3> QED
      BY <1>3, <2>1, Least
  <2>3. low \in unused
    <3> HIDE DEF unused
    <3> QED
      BY <2>2
  <2>4. cli[c].key = "shared" => \A p \in left : sess[p].key # "shared"
    BY <1>3
  <2> HIDE DEF low
  <2>5. low \in Objs /\ ~ sess[low].stored /\ \A d \in Clients : cli[d].obj # low
    BY <2>3
  <2>6. Opens(c, low)
    BY <2>4, <2>5 DEF Opens
  <2> QED
    BY <1>0, <1>3, <2>5, <2>6
<1> QED
  BY <1>0, <1>1, <1>2, <1>3

LEMMA AcquireSafe ==
    ASSUME SafeInv, faults' \in 0..MaxFaults, NEW c \in Clients, Acquire(c)
    PROVE  SafeInv'
<1>t. /\ TypeOK /\ Typed /\ sess \in [Objs -> SessType] /\ seen \in [Clients -> Items] /\ sock \in [Objs -> SockType]
      /\ turns \in Nat /\ nameless \subseteq Nat /\ cli[c] \in CliType
  BY DEF SafeInv, Typed, TypeOK
<1>1. cli[c].pc = "ready" /\ UNCHANGED <<strm, seen, turns, nameless>> /\ sock' = SweptSockets
  BY DEF Acquire
<1>2. sock' \in [Objs -> SockType] /\ \A o \in Objs : sock'[o] \in {sock[o], Closed}
  BY <1>t, <1>1, SweepTyped DEF SweptSockets
<1>3. CASE Refused(c)
  <2> DEFINE h == IF c \in Web THEN cli[c] ELSE Away
  <2>1. h \in CliType /\ h.pc \in {"ready", "away"}
    BY <1>t, <1>1, Blank DEF Away
  <2>2. cli' = [cli EXCEPT ![c] = h]
    BY <1>3, <1>t DEF TypeOK, Refused
  <2>3. sess' \in [Objs -> SessType]
    BY <1>3, <1>t, SweepTyped DEF Refused
  <2> HIDE DEF h
  <2> QED
    BY <1>t, <1>1, <1>2, <2>1, <2>2, <2>3, HandlerSafe DEF Working
<1>4. ASSUME NEW o \in Objs, NEW s \in SessType, Takes(c, o, s) PROVE SafeInv'
  <2> DEFINE h == [cli[c] EXCEPT !.obj = o, !.pc = "turn"]
  <2>1. h \in CliType /\ h.pc = "turn" /\ h.obj \in Objs
    BY <1>t DEF CliType, Between
  <2>2. [s EXCEPT !.active = @ + 1, !.idle = 0] \in SessType
    <3>1. s.active + 1 \in Nat /\ 0 \in 0..2
      BY DEF SessType
    <3> HIDE DEF Items
    <3> QED
      BY <3>1 DEF SessType
  <2>3. sess' \in [Objs -> SessType]
    BY <1>4, <1>t, <2>2, SweepTyped DEF Takes
  <2>4. cli' = [cli EXCEPT ![c] = h]
    BY <1>4 DEF Takes
  <2> HIDE DEF h
  <2> QED
    BY <1>t, <1>1, <1>2, <2>1, <2>3, <2>4, HandlerSafe DEF Working
<1>5. \A o \in Objs : sess[o] \in SessType
  BY <1>t
<1>6. Fresh(c) \in SessType
  BY <1>t, Blank DEF SessType, NoSess, CliType, Fresh
<1> QED
  BY <1>3, <1>4, <1>5, <1>6, AcquireIs

LEMMA ReleaseSafe ==
    ASSUME SafeInv, AttachInv, faults' \in 0..MaxFaults, NEW c \in Clients, Release(c)
    PROVE  SafeInv'
<1>t. /\ TypeOK /\ Typed /\ sess \in [Objs -> SessType] /\ seen \in [Clients -> Items] /\ sock \in [Objs -> SockType]
      /\ turns \in Nat /\ nameless \subseteq Nat /\ cli[c] \in CliType
  BY DEF SafeInv, Typed, TypeOK
<1> DEFINE o == cli[c].obj
           lost == Forgotten(o, sess[o].active - 1)
           kept == [sess[o] EXCEPT !.active = @ - 1, !.idle = 0]
<1>1. /\ cli[c].pc = "leave" /\ UNCHANGED <<strm, seen, turns, nameless>>
      /\ cli' = [cli EXCEPT ![c] = Away]
  BY DEF Release
<1>2. sock' = closeLocked(o) \/ sock' = sock
  BY DEF Release
<1>3. sess' = [sess EXCEPT ![o] = lost] \/ sess' = [sess EXCEPT ![o] = kept]
  <2> DEFINE all == (sess[o].key = "private" /\ sess[o].active = 1) \/ ~ sess[o].stored
  <2>0. sess' = [sess EXCEPT ![o] = IF all THEN lost ELSE kept]
    BY DEF Release
  <2>1. CASE all
    BY <2>0, <2>1
  <2>2. CASE ~ all
    BY <2>0, <2>2
  <2> QED
    BY <2>1, <2>2
<1>4. o \in Objs /\ sess[o] \in SessType
  BY <1>t, <1>1 DEF Typed, Equipped
<1>5. sess[o].active - 1 \in Nat
  <2>1. Attached(o) # {} /\ Attached(o) \in SUBSET Clients /\ sess[o].active = Cardinality(Attached(o))
    BY <1>4 DEF Attached, AttachInv
  <2> QED
    BY <2>1, Counting
<1>6. lost \in SessType
  <2>1. [sess[o] EXCEPT !.stored = FALSE, !.active = sess[o].active - 1] \in SessType
    BY <1>4, <1>5 DEF SessType
  <2> QED
    BY <2>1, Blank DEF Forgotten
<1>7. kept \in SessType
  <2>1. 0 \in 0..2
    OBVIOUS
  <2> QED
    BY <1>4, <1>5, <2>1 DEF SessType
<1>8. sess' \in [Objs -> SessType]
  BY <1>3, <1>6, <1>7, <1>t
<1>9. sock' \in [Objs -> SockType] /\ \A p \in Objs : sock'[p] \in {sock[p], Closed}
  BY <1>t, <1>2, CloseTyped DEF closeLocked
<1> QED
  BY <1>t, <1>1, <1>8, <1>9, Blank, HandlerSafe DEF Away, Working

-------------------------------------------------------------------------------
(* Steps about one socket.                                                   *)

LEMMA SocketStep ==
    ASSUME SocketInv, NEW o \in Objs,
           \A p \in Objs \ {o} : sock'[p] = sock[p] /\ strm'[p] = strm[p],
           \A c \in Clients : cli'[c] = cli[c] \/ (cli[c].obj = o /\ cli'[c].obj = o),
           \A c, d \in Clients : cli'[c].pc = "dial" /\ cli'[d].pc = "dial" /\ cli'[c].obj = o /\ cli'[d].obj = o => c = d,
           \A c \in Clients : cli'[c].pc = "dial" /\ cli'[c].obj = o => strm'[o].st = "off",
           strm'[o].body => strm'[o].by \in Clients /\ cli'[strm'[o].by].pc = "body" /\ cli'[strm'[o].by].obj = o,
           InOrder(sock'[o]), strm'[o].st = "redial" => ~ sock'[o].open,
           strm'[o].st = "off" /\ sock'[o].open /\ (\A c \in Clients : ~ (cli'[c].obj = o /\ cli'[c].pc = "dial")) =>
               ~ sock'[o].asked /\ \A i \in DOMAIN sock'[o].reads : sock'[o].reads[i].kind = "err"
    PROVE  SocketInv'
<1>1. OneOnSocket'
  BY DEF SocketInv, OneOnSocket
<1>2. PipeRead'
  BY DEF SocketInv, PipeRead
<1>3. \A p \in Objs : InOrder(sock[p])' /\ (strm'[p].st = "redial" => ~ sock'[p].open)
  <2> SUFFICES ASSUME NEW p \in Objs PROVE InOrder(sock[p])' /\ (strm'[p].st = "redial" => ~ sock'[p].open)
    OBVIOUS
  <2>1. CASE p = o
    BY <2>1 DEF InOrder
  <2>2. CASE p # o
    <3>1. InOrder(sock[p]) /\ (strm[p].st = "redial" => ~ sock[p].open)
      BY DEF SocketInv
    <3> QED
      BY <2>2, <3>1 DEF InOrder
  <2> QED
    BY <2>1, <2>2
<1>4. KeptSocketIsQuiet'
  <2> SUFFICES ASSUME NEW p \in Objs, turnMuFree(p)', sock'[p].open
               PROVE  ~ sock'[p].asked /\ \A i \in DOMAIN sock'[p].reads : sock'[p].reads[i].kind = "err"
    BY DEF KeptSocketIsQuiet
  <2>1. CASE p # o
    <3>1. turnMuFree(p)
      BY <2>1 DEF turnMuFree
    <3> QED
      BY <2>1, <3>1 DEF SocketInv, KeptSocketIsQuiet
  <2>2. CASE p = o
    <3>1. strm'[o].st = "off" /\ \A c \in Clients : ~ (cli'[c].obj = o /\ cli'[c].pc = "dial")
      BY <2>2 DEF turnMuFree
    <3> QED
      BY <2>2, <3>1
  <2> QED
    BY <2>1, <2>2
<1> QED
  BY <1>1, <1>2, <1>3, <1>4 DEF SocketInv

\* What the types of the rest give.
LEMMA TypedStep ==
    ASSUME SafeInv, faults' \in 0..MaxFaults, UNCHANGED <<sess, seen, turns, nameless>>,
           sock' \in [Objs -> SockType], strm' \in [Objs -> StrmType],
           cli' \in [Clients -> CliType], Equipped', SocketInv'
    PROVE  SafeInv'
BY DEF SafeInv, Typed, TypeOK

\* A closed socket, and one just dialled.
LEMMA QuietSockets ==
    /\ InOrder(Closed) /\ ~ Closed.open
    /\ \A t, r : InOrder(Dialled(t, r))
BY DEF InOrder, Closed, Dialled

LEMMA BeginTurnSafe ==
    ASSUME SafeInv, faults' \in 0..MaxFaults, NEW c \in Clients, BeginTurn(c)
    PROVE  SafeInv'
<1>t. /\ TypeOK /\ Typed /\ sess \in [Objs -> SessType] /\ seen \in [Clients -> Items] /\ sock \in [Objs -> SockType]
      /\ turns \in Nat /\ nameless \subseteq Nat /\ cli[c] \in CliType
  BY DEF SafeInv, Typed, TypeOK
<1> DEFINE o == cli[c].obj
<1>1. cli[c].pc = "turn" /\ UNCHANGED <<sock, strm, seen>>
  BY DEF BeginTurn
<1>2. o \in Objs /\ sess[o] \in SessType
  BY <1>t, <1>1 DEF Typed, Equipped
<1>3. CASE cli' = [cli EXCEPT ![c] = Refuse(c)] /\ UNCHANGED <<sess, turns, nameless>>
  <2> DEFINE h == Refuse(c)
  <2>1. h \in CliType /\ h.pc \in {"ready", "leave"} /\ h.obj \in Objs
    BY <1>t, <1>2 DEF Refuse, CliType, Between
  <2>2. cli' = [cli EXCEPT ![c] = h]
    BY <1>3
  <2> HIDE DEF h
  <2> QED
    BY <1>t, <1>1, <1>3, <2>1, <2>2, HandlerSafe DEF Working
<1>4. ASSUME NEW ask \in Asks, NEW native \in BOOLEAN, NEW keep \in BOOLEAN,
             cli' = [cli EXCEPT ![c] = [cli[c] EXCEPT
                        !.pc = "try", !.replay = replayRequest(c, o, ask), !.native = native,
                        !.prev = incrementalPrevious(c, o, ask), !.keep = keep]],
             sess' = [sess EXCEPT ![o].turn = c], turns' = turns + 1,
             nameless' = nameless \/ nameless' = nameless \cup {turns + 1}
      PROVE  SafeInv'
  <2> DEFINE h == [cli[c] EXCEPT !.pc = "try", !.replay = replayRequest(c, o, ask), !.native = native,
                                 !.prev = incrementalPrevious(c, o, ask), !.keep = keep]
  <2>1. turns + 1 \in Nat /\ turns' \in Nat /\ nameless' \subseteq Nat
    BY <1>t, <1>4
  <2>2. sess[o].items \in Seq(Nat) /\ sess[o].last \in Items
    BY <1>2 DEF SessType, Items
  <2>3. replayRequest(c, o, ask) \in Items /\ replayRequest(c, o, ask) # <<>>
    <3>1. Append(sess[o].items, turns + 1) \in Seq(Nat) /\ Append(sess[o].items, turns + 1) # <<>>
          /\ <<turns + 1>> \in Seq(Nat) /\ <<turns + 1>> # <<>>
      BY <2>1, <2>2, Appending
    <3> QED
      BY <3>1 DEF replayRequest, Items
  <2>4. incrementalPrevious(c, o, ask) \in Items
    BY <2>2, Blank DEF incrementalPrevious
  <2>5. h \in CliType /\ h.pc = "try" /\ h.obj \in Objs /\ h.replay # <<>>
    <3> HIDE DEF Items
    <3> QED
      BY <1>t, <1>2, <2>3, <2>4 DEF CliType, Working
  <2>6. [sess[o] EXCEPT !.turn = c] \in SessType
    BY <1>2 DEF SessType
  <2>7. sess' \in [Objs -> SessType]
    BY <1>t, <1>4, <2>6
  <2>8. cli' = [cli EXCEPT ![c] = h]
    BY <1>4
  <2> HIDE DEF h
  <2> QED
    BY <1>t, <1>1, <2>1, <2>5, <2>7, <2>8, HandlerSafe
<1>5. sock[o].open \in BOOLEAN
  BY <1>t, <1>2, SockTyped
<1> QED
  BY <1>3, <1>4, <1>5 DEF BeginTurn

LEMMA AttemptSafe ==
    ASSUME SafeInv, faults' \in 0..MaxFaults, NEW c \in Clients, Attempt(c)
    PROVE  SafeInv'
<1>t. /\ TypeOK /\ Typed /\ sess \in [Objs -> SessType] /\ seen \in [Clients -> Items] /\ sock \in [Objs -> SockType]
      /\ turns \in Nat /\ nameless \subseteq Nat /\ cli[c] \in CliType
  BY DEF SafeInv, Typed, TypeOK
<1>1. cli[c].pc = "try" /\ UNCHANGED <<sess, strm, seen, turns, nameless>>
  BY DEF Attempt
<1>2. cli[c].obj \in Objs /\ cli[c].replay # <<>>
  BY <1>t, <1>1, AtWork DEF Working
<1>3. sock' = sock \/ sock' = closeLocked(cli[c].obj)
  BY DEF Attempt
<1>4. sock' \in [Objs -> SockType] /\ \A p \in Objs : sock'[p] \in {sock[p], Closed}
  BY <1>t, <1>3, CloseTyped DEF closeLocked
<1>5. PICK pc \in {"lock", "http"} : \E t \in Targets \cup {None} :
          cli' = [cli EXCEPT ![c] = [cli[c] EXCEPT !.pc = pc, !.target = t, !.att = @ + 1]]
  BY DEF Attempt
<1>6. PICK t \in Targets \cup {None} :
          cli' = [cli EXCEPT ![c] = [cli[c] EXCEPT !.pc = pc, !.target = t, !.att = @ + 1]]
  BY <1>5
<1> DEFINE h == [cli[c] EXCEPT !.pc = pc, !.target = t, !.att = @ + 1]
<1>7. h \in CliType /\ h.pc = pc /\ h.obj \in Objs /\ h.replay # <<>>
  <2>1. cli[c].att + 1 \in Nat /\ pc \in Between \cup Working
    BY <1>t DEF CliType, Working
  <2> HIDE DEF Items
  <2> QED
    BY <1>t, <1>2, <2>1 DEF CliType
<1>8. cli' = [cli EXCEPT ![c] = h]
  BY <1>6
<1> HIDE DEF h
<1> QED
  BY <1>t, <1>1, <1>4, <1>7, <1>8, HandlerSafe

LEMMA RoundTripSafe ==
    ASSUME SafeInv, faults' \in 0..MaxFaults, NEW c \in Clients, RoundTrip(c)
    PROVE  SafeInv'
<1>t. /\ TypeOK /\ Typed /\ SocketInv /\ sock \in [Objs -> SockType] /\ strm \in [Objs -> StrmType]
      /\ cli \in [Clients -> CliType]
  BY DEF SafeInv, Typed, TypeOK
<1> DEFINE o == cli[c].obj
           last == cli[c].replay[Len(cli[c].replay)]
<1>1. cli[c].pc = "lock" /\ turnMuFree(o) /\ UNCHANGED <<sess, seen, turns, nameless>>
  BY DEF RoundTrip
<1>2. /\ cli[c] \in CliType /\ o \in Objs /\ cli[c].replay \in Items /\ cli[c].replay # <<>> /\ cli[c].prev \in Items
      /\ cli[c].pc \in Working
  BY <1>t, <1>1, AtWork DEF Working
<1>3. sock[o] \in SockType
  BY <1>t, <1>2
<1>4. ASSUME NEW pc \in {"body", "dial"}, cli' = [cli EXCEPT ![c].pc = pc]
      PROVE  /\ cli' \in [Clients -> CliType] /\ Equipped'
             /\ cli'[c].pc = pc /\ cli'[c].obj = o /\ \A d \in Clients \ {c} : cli'[d] = cli[d]
             /\ \A d \in Clients : cli'[d].obj = o /\ cli'[d].pc = "dial" => d = c
  <2> DEFINE h == [cli[c] EXCEPT !.pc = pc]
  <2>1. pc \in Between \cup Working
    BY DEF Working
  <2>2. h \in CliType /\ h.pc = pc /\ h.obj = o /\ h.replay # <<>>
    BY <1>2, <2>1 DEF CliType
  <2>3. cli' = [cli EXCEPT ![c] = h]
    BY <1>4
  <2> HIDE DEF h
  <2>4. cli' \in [Clients -> CliType] /\ Equipped'
    BY <1>t, <1>2, <2>2, <2>3, CliTyped
  <2>5. cli'[c] = h /\ \A d \in Clients \ {c} : cli'[d] = cli[d]
    BY <1>t, <2>3
  <2> QED
    BY <1>1, <2>2, <2>4, <2>5 DEF turnMuFree
<1>5. CASE connectionReusable(o, cli[c].target) /\ startStream(c, o) /\ cli' = [cli EXCEPT ![c].pc = "body"]
           /\ sock' = [sock EXCEPT ![o] = [@ EXCEPT !.asked = TRUE, !.ctx = Context(sock[o].known, cli[c].prev, last)]]
  <2> DEFINE k == [sock[o] EXCEPT !.asked = TRUE, !.ctx = Context(sock[o].known, cli[c].prev, last)]
  <2>1. Context(sock[o].known, cli[c].prev, last) \in Items
    <3>1. last \in Nat
      BY <1>2, Reading DEF Items
    <3>2. Append(cli[c].prev, last) \in Items /\ <<last>> \in Items
      BY <1>2, <3>1, Appending DEF Items
    <3> QED
      BY <3>2, Blank DEF Context
  <2>2. k \in SockType /\ k.reads = <<>>
    <3> HIDE DEF Items, last
    <3> QED
      BY <1>3, <1>5, <2>1 DEF SockType, connectionReusable
  <2>3. sock' \in [Objs -> SockType] /\ sock'[o] = k /\ \A p \in Objs \ {o} : sock'[p] = sock[p]
    BY <1>t, <1>2, <1>5, <2>2
  <2>4. strm' \in [Objs -> StrmType]
    BY <1>t, <1>2, <1>5, StartTyped
  <2>5. /\ strm'[o].st = "read" /\ strm'[o].by = c /\ \A p \in Objs \ {o} : strm'[p] = strm[p]
    BY <1>t, <1>2, <1>5 DEF startStream, NoStream
  <2>6. InOrder(k)
    BY <2>2 DEF InOrder
  <2> HIDE DEF k
  <2>9. \A d \in Clients : ~ (cli'[d].obj = o /\ cli'[d].pc = "dial")
    BY <1>4, <1>5
  <2>10. InOrder(sock'[o])
    BY <2>3, <2>6
  <2>11. \A d \in Clients : cli'[d] = cli[d] \/ (cli[d].obj = o /\ cli'[d].obj = o)
    BY <1>4, <1>5
  <2>12. cli'[c].pc = "body" /\ cli'[c].obj = o
    BY <1>4, <1>5
  <2>8. SocketInv'
    <3> HIDE DEF o
    <3> QED
      BY <1>t, <1>2, <2>3, <2>5, <2>9, <2>10, <2>11, <2>12, SocketStep
  <2> QED
    BY <1>1, <1>4, <1>5, <2>3, <2>4, <2>8, TypedStep
<1>6. CASE sock' = closeLocked(o) /\ cli' = [cli EXCEPT ![c].pc = "dial"] /\ strm' = strm
  <2>1. sock' \in [Objs -> SockType] /\ sock'[o] = Closed /\ \A p \in Objs \ {o} : sock'[p] = sock[p]
    BY <1>t, <1>2, <1>6, CloseTyped DEF closeLocked
  <2>2. strm'[o].st = "off"
    BY <1>1, <1>6 DEF turnMuFree
  <2>3. strm[o].body => strm[o].by \in Clients \ {c} /\ cli[strm[o].by].pc = "body" /\ cli[strm[o].by].obj = o
    BY <1>t, <1>1, <1>2 DEF SocketInv, PipeRead
  <2>4. strm'[o].body => strm'[o].by \in Clients /\ cli'[strm'[o].by].pc = "body" /\ cli'[strm'[o].by].obj = o
    BY <1>4, <1>6, <2>3
  <2>5. InOrder(sock'[o]) /\ ~ sock'[o].open
    BY <2>1, QuietSockets
  <2>6. \A d \in Clients : cli'[d] = cli[d] \/ (cli[d].obj = o /\ cli'[d].obj = o)
    BY <1>4, <1>6
  <2>7. \A d \in Clients : cli'[d].obj = o /\ cli'[d].pc = "dial" => d = c
    BY <1>4, <1>6
  <2>8. strm' \in [Objs -> StrmType] /\ \A p \in Objs \ {o} : strm'[p] = strm[p]
    BY <1>t, <1>6
  <2>9. SocketInv'
    <3> HIDE DEF o
    <3>1. o \in Objs
      BY <1>2
    <3> QED
      BY <1>t, <2>1, <2>2, <2>4, <2>5, <2>6, <2>7, <2>8, <3>1, SocketStep
  <2> QED
    BY <1>1, <1>4, <1>6, <2>1, <2>8, <2>9, TypedStep
<1> QED
  BY <1>5, <1>6 DEF RoundTrip

LEMMA DialSafe ==
    ASSUME SafeInv, faults' \in 0..MaxFaults, NEW c \in Clients, Dial(c)
    PROVE  SafeInv'
<1>t. /\ TypeOK /\ Typed /\ SocketInv /\ sock \in [Objs -> SockType] /\ strm \in [Objs -> StrmType]
      /\ cli \in [Clients -> CliType]
  BY DEF SafeInv, Typed, TypeOK
<1> DEFINE o == cli[c].obj
<1>1. cli[c].pc = "dial" /\ UNCHANGED <<sess, seen, turns, nameless>>
  BY DEF Dial
<1>2. /\ cli[c] \in CliType /\ o \in Objs /\ cli[c].replay \in Items /\ cli[c].replay # <<>>
      /\ cli[c].pc \in Working /\ cli[c].target \in Targets \cup {None}
  BY <1>t, <1>1, AtWork DEF Working
<1>3. PICK pc \in {"body", "try", "http"} :
          /\ cli' = [cli EXCEPT ![c].pc = pc]
          /\ \/ /\ pc = "body" /\ startStream(c, o)
                /\ sock' = [sock EXCEPT ![o] = Dialled(cli[c].target, cli[c].replay)]
             \/ pc # "body" /\ sock' = closeLocked(o) /\ strm' = strm
  BY DEF Dial
<1> DEFINE h == [cli[c] EXCEPT !.pc = pc]
<1>4. h \in CliType /\ h.pc = pc /\ h.obj = o /\ h.replay # <<>>
  <2>1. pc \in Between \cup Working
    BY DEF Working
  <2> QED
    BY <1>2, <2>1 DEF CliType
<1>5. cli' = [cli EXCEPT ![c] = h]
  BY <1>3
<1>6. cli' \in [Clients -> CliType] /\ Equipped'
  <2> HIDE DEF h
  <2> QED
    BY <1>t, <1>2, <1>4, <1>5, CliTyped
<1>7. cli'[c] = h /\ \A d \in Clients \ {c} : cli'[d] = cli[d]
  BY <1>t, <1>5
<1> HIDE DEF h
<1>8. \A d \in Clients : cli'[d] = cli[d] \/ (cli[d].obj = o /\ cli'[d].obj = o)
  BY <1>4, <1>7
<1>9. \A d \in Clients : ~ (cli'[d].obj = o /\ cli'[d].pc = "dial")
  BY <1>t, <1>1, <1>4, <1>7 DEF SocketInv, OneOnSocket
<1>10. CASE pc = "body"
  <2>1. sock' = [sock EXCEPT ![o] = Dialled(cli[c].target, cli[c].replay)] /\ startStream(c, o)
    BY <1>3, <1>10
  <2>2. sock' \in [Objs -> SockType] /\ sock'[o] = Dialled(cli[c].target, cli[c].replay)
        /\ \A p \in Objs \ {o} : sock'[p] = sock[p]
    BY <1>t, <1>2, <2>1, DialledTyped
  <2>3. strm' \in [Objs -> StrmType]
    BY <1>t, <1>2, <2>1, StartTyped
  <2>4. strm'[o].st = "read" /\ strm'[o].by = c /\ \A p \in Objs \ {o} : strm'[p] = strm[p]
    BY <1>t, <1>2, <2>1 DEF startStream, NoStream
  <2>6. cli'[c].pc = "body" /\ cli'[c].obj = o
    BY <1>4, <1>7, <1>10
  <2>7. InOrder(sock'[o])
    BY <2>2, QuietSockets
  <2>8. SocketInv'
    <3>1. o \in Objs
      BY <1>2
    <3> HIDE DEF o
    <3> QED
      BY <1>t, <1>8, <1>9, <2>2, <2>4, <2>6, <2>7, <3>1, SocketStep
  <2> QED
    BY <1>1, <1>6, <2>2, <2>3, <2>8, TypedStep
<1>11. CASE pc # "body"
  <2>1. sock' = closeLocked(o) /\ strm' = strm
    BY <1>3, <1>11
  <2>2. sock' \in [Objs -> SockType] /\ sock'[o] = Closed /\ \A p \in Objs \ {o} : sock'[p] = sock[p]
    BY <1>t, <1>2, <2>1, CloseTyped DEF closeLocked
  <2>3. strm[o].st = "off"
    BY <1>t, <1>1, <1>2 DEF SocketInv, OneOnSocket
  <2>4. strm[o].body => strm[o].by \in Clients \ {c} /\ cli[strm[o].by].pc = "body" /\ cli[strm[o].by].obj = o
    BY <1>t, <1>1, <1>2 DEF SocketInv, PipeRead
  <2>5. strm'[o].body => strm'[o].by \in Clients /\ cli'[strm'[o].by].pc = "body" /\ cli'[strm'[o].by].obj = o
    BY <1>7, <2>1, <2>4
  <2>6. InOrder(sock'[o]) /\ ~ sock'[o].open
    BY <2>2, QuietSockets
  <2>7. strm' \in [Objs -> StrmType] /\ strm'[o].st = "off" /\ \A p \in Objs \ {o} : strm'[p] = strm[p]
    BY <1>t, <2>1, <2>3
  <2>8. SocketInv'
    <3>1. o \in Objs
      BY <1>2
    <3> HIDE DEF o
    <3> QED
      BY <1>t, <1>8, <1>9, <2>2, <2>5, <2>6, <2>7, <3>1, SocketStep
  <2> QED
    BY <1>1, <1>6, <2>2, <2>7, <2>8, TypedStep
<1> QED
  BY <1>10, <1>11

LEMMA CloseBodySafe ==
    ASSUME SafeInv, faults' \in 0..MaxFaults, NEW c \in Clients, CloseBody(c)
    PROVE  SafeInv'
<1>t. /\ TypeOK /\ Typed /\ SocketInv /\ sock \in [Objs -> SockType] /\ strm \in [Objs -> StrmType]
      /\ cli \in [Clients -> CliType]
  BY DEF SafeInv, Typed, TypeOK
<1>1. cli[c].pc = "body" /\ UNCHANGED <<sess, seen, turns, nameless>>
  BY DEF CloseBody
<1>2. /\ cli[c] \in CliType /\ cli[c].obj \in Objs /\ cli[c].replay # <<>> /\ cli[c].pc \in Working
  BY <1>t, <1>1, AtWork DEF Working
<1>3. PICK o \in Objs : o = cli[c].obj
  BY <1>2
<1>4. /\ sock' = [sock EXCEPT ![o] = Closed] /\ strm' = [strm EXCEPT ![o].body = FALSE]
      /\ \E pc \in {"closing", "cutoff"} : cli' = [cli EXCEPT ![c].pc = pc]
  BY <1>3 DEF CloseBody, closeLocked
<1>5. PICK pc \in {"closing", "cutoff"} : cli' = [cli EXCEPT ![c].pc = pc]
  BY <1>4
<1> DEFINE h == [cli[c] EXCEPT !.pc = pc]
<1>6. h \in CliType /\ h.pc = pc /\ h.obj = o /\ h.replay # <<>>
  <2>1. pc \in Between \cup Working
    BY DEF Working
  <2> QED
    BY <1>2, <1>3, <2>1 DEF CliType
<1>7. cli' = [cli EXCEPT ![c] = h]
  BY <1>5
<1>8. cli' \in [Clients -> CliType] /\ Equipped'
  <2> HIDE DEF h
  <2> QED
    BY <1>t, <1>2, <1>6, <1>7, CliTyped
<1>9. cli'[c] = h /\ \A d \in Clients \ {c} : cli'[d] = cli[d]
  BY <1>t, <1>7
<1> HIDE DEF h
<1>10. sock' \in [Objs -> SockType] /\ sock'[o] = Closed /\ \A p \in Objs \ {o} : sock'[p] = sock[p]
  BY <1>t, <1>4, Blank
<1>11. [strm[o] EXCEPT !.body = FALSE] \in StrmType
  BY <1>t DEF StrmType
<1>12. strm' \in [Objs -> StrmType]
  BY <1>t, <1>4, <1>11
<1>13. /\ strm'[o].st = strm[o].st /\ ~ strm'[o].body /\ strm'[o].by = strm[o].by
       /\ \A p \in Objs \ {o} : strm'[p] = strm[p]
  BY <1>t, <1>4 DEF StrmType
<1>14. \A d \in Clients : cli'[d] = cli[d] \/ (cli[d].obj = o /\ cli'[d].obj = o)
  BY <1>3, <1>6, <1>9
<1>15. \A d \in Clients : cli'[d].pc = "dial" => cli[d] = cli'[d]
  BY <1>6, <1>9
<1>16. \A d, e \in Clients : cli'[d].pc = "dial" /\ cli'[e].pc = "dial" /\ cli'[d].obj = o /\ cli'[e].obj = o => d = e
  BY <1>t, <1>15 DEF SocketInv, OneOnSocket
<1>17. \A d \in Clients : cli'[d].pc = "dial" /\ cli'[d].obj = o => strm'[o].st = "off"
  BY <1>t, <1>13, <1>15 DEF SocketInv, OneOnSocket
<1>18. InOrder(sock'[o]) /\ ~ sock'[o].open
  BY <1>10, QuietSockets
<1>19. SocketInv'
  BY <1>t, <1>10, <1>13, <1>14, <1>16, <1>17, <1>18, SocketStep
<1> QED
  BY <1>1, <1>8, <1>10, <1>12, <1>19, TypedStep

LEMMA CancelAttemptSafe ==
    ASSUME SafeInv, faults' \in 0..MaxFaults, NEW c \in Clients, CancelAttempt(c)
    PROVE  SafeInv'
<1>t. /\ TypeOK /\ Typed /\ SocketInv /\ sock \in [Objs -> SockType] /\ strm \in [Objs -> StrmType]
      /\ cli \in [Clients -> CliType]
  BY DEF SafeInv, Typed, TypeOK
<1>1. cli[c].pc \in {"closing", "cutoff"} /\ UNCHANGED <<sess, seen, turns, nameless>>
  BY DEF CancelAttempt
<1>2. /\ cli[c] \in CliType /\ cli[c].obj \in Objs /\ cli[c].replay # <<>> /\ cli[c].pc \in Working
  BY <1>t, <1>1, AtWork DEF Working
<1>3. PICK o \in Objs : o = cli[c].obj
  BY <1>2
<1>4. /\ sock' \in {sock, [sock EXCEPT ![o] = Closed]} /\ strm' \in {strm, [strm EXCEPT ![o].live = FALSE]}
      /\ \E pc \in {"broken", "try"} : cli' = [cli EXCEPT ![c] = Outcome(cli[c], pc, NoId)]
  BY <1>3 DEF CancelAttempt, closeLocked
<1>5. PICK pc \in {"broken", "try"} : cli' = [cli EXCEPT ![c] = Outcome(cli[c], pc, NoId)]
  BY <1>4
<1> DEFINE h == Outcome(cli[c], pc, NoId)
<1>6. h \in CliType /\ h.pc = pc /\ h.obj = o /\ h.replay # <<>>
  <2>1. pc \in Between \cup Working
    BY DEF Working
  <2> QED
    BY <1>2, <1>3, <2>1, OutcomeTyped, Blank
<1>7. cli' = [cli EXCEPT ![c] = h]
  BY <1>5
<1> HIDE DEF h
<1>8. cli' \in [Clients -> CliType] /\ Equipped'
  BY <1>t, <1>2, <1>6, <1>7, CliTyped
<1>9. cli'[c] = h /\ \A d \in Clients \ {c} : cli'[d] = cli[d]
  BY <1>t, <1>7
<1>10. sock' \in [Objs -> SockType] /\ \A p \in Objs : sock'[p] \in {sock[p], Closed}
  BY <1>t, <1>4, Blank
<1>11. [strm[o] EXCEPT !.live = FALSE] \in StrmType
  BY <1>t DEF StrmType
<1>12. strm' \in [Objs -> StrmType]
  BY <1>t, <1>4, <1>11
<1>13. \A p \in Objs : strm'[p].st = strm[p].st /\ strm'[p].body = strm[p].body /\ strm'[p].by = strm[p].by
  BY <1>t, <1>4 DEF StrmType
<1>14. \A p \in Objs : strm[p].body => cli[strm[p].by].pc = "body" /\ cli[strm[p].by].obj = p /\ strm[p].by \in Clients \ {c}
  BY <1>t, <1>1 DEF SocketInv, PipeRead
<1>15. SocketInv'
  <2>1. Calm
    BY <1>t, <1>10, ClosingCalm
  <2>2. \A d \in Clients : (cli'[d].pc = "dial" <=> cli[d].pc = "dial") /\ (cli[d].pc = "dial" => cli'[d].obj = cli[d].obj)
    BY <1>1, <1>6, <1>9
  <2>3. \A p \in Objs : /\ strm'[p].st = strm[p].st
                        /\ strm'[p].body => /\ strm[p].body /\ strm'[p].by = strm[p].by
                                            /\ cli'[strm[p].by].pc = "body" /\ cli'[strm[p].by].obj = p
    BY <1>9, <1>13, <1>14
  <2> QED
    BY <1>t, <2>1, <2>2, <2>3, SocketCalm
<1> QED
  BY <1>1, <1>8, <1>10, <1>12, <1>15, TypedStep

LEMMA ClientGoneSafe ==
    ASSUME SafeInv, faults' \in 0..MaxFaults, NEW c \in Clients, ClientGone(c)
    PROVE  SafeInv'
<1>t. /\ TypeOK /\ Typed /\ SocketInv /\ sock \in [Objs -> SockType] /\ strm \in [Objs -> StrmType]
      /\ cli \in [Clients -> CliType] /\ Equipped
  BY DEF SafeInv, Typed, TypeOK
<1> DEFINE cut(o) == strm[o].st # "off" /\ strm[o].body /\ strm[o].by \in {c}
           left(d) == [cli[d] EXCEPT !.live = FALSE,
                           !.pc = IF @ \in {"ready", "turn"}
                                  THEN IF cli[d].obj = None THEN "away" ELSE "leave" ELSE @]
<1>1. /\ UNCHANGED <<sess, seen, turns, nameless>>
      /\ cli' = [d \in Clients |-> IF d \notin {c} \/ cli[d].pc = "away" THEN cli[d] ELSE left(d)]
      /\ strm' = [o \in Objs |-> IF cut(o) THEN [strm[o] EXCEPT !.live = FALSE] ELSE strm[o]]
      /\ sock' = [o \in Objs |-> IF cut(o) THEN Closed ELSE sock[o]]
  BY DEF ClientGone, Gone
<1>2. ASSUME NEW d \in Clients
      PROVE  /\ left(d) \in CliType /\ left(d).obj = cli[d].obj /\ left(d).replay = cli[d].replay
             /\ left(d).pc = cli[d].pc \/ (cli[d].pc \in {"ready", "turn"} /\ left(d).pc = "away")
                \/ (cli[d].pc \in {"ready", "turn"} /\ left(d).pc = "leave" /\ cli[d].obj # None)
  <2>1. cli[d] \in CliType
    BY <1>t
  <2> QED
    BY <2>1 DEF CliType, Between
<1> HIDE DEF cut, left
<1>3. cli' \in [Clients -> CliType]
  BY <1>1, <1>2, <1>t
<1>4. Equipped'
  <2> SUFFICES ASSUME NEW d \in Clients
               PROVE  /\ cli'[d].pc \notin {"away", "ready"} => cli'[d].obj \in Objs
                      /\ cli'[d].pc \in Working => cli'[d].replay # <<>>
    BY DEF Equipped
  <2>1. cli'[d] \in {cli[d], left(d)}
    BY <1>1
  <2>2. cli[d].obj \in Objs \cup {None}
    BY <1>t DEF CliType
  <2> QED
    BY <1>t, <1>2, <2>1, <2>2 DEF Equipped, Working
<1>5. ASSUME NEW o \in Objs
      PROVE  /\ sock'[o] \in {sock[o], Closed} /\ strm'[o] \in StrmType /\ strm'[o].st = strm[o].st
             /\ strm'[o].body = strm[o].body /\ strm'[o].by = strm[o].by
  BY <1>t, <1>1 DEF StrmType
<1>6. sock' \in [Objs -> SockType]
  BY <1>t, <1>1, Blank
<1>7. strm' \in [Objs -> StrmType]
  <2>1. DOMAIN strm' = Objs
    BY <1>1
  <2> QED
    BY <1>1, <1>5, <2>1
<1>8. SocketInv'
  <2>1. Calm
    BY <1>t, <1>5, ClosingCalm
  <2>2. \A d \in Clients : /\ cli'[d].obj = cli[d].obj
                           /\ cli'[d].pc = "dial" <=> cli[d].pc = "dial"
                           /\ cli[d].pc = "body" => cli'[d].pc = "body"
    <3> SUFFICES ASSUME NEW d \in Clients
                 PROVE  /\ cli'[d].obj = cli[d].obj
                        /\ cli'[d].pc = "dial" <=> cli[d].pc = "dial"
                        /\ cli[d].pc = "body" => cli'[d].pc = "body"
      OBVIOUS
    <3>1. cli'[d] \in {cli[d], left(d)}
      BY <1>1
    <3> QED
      BY <1>2, <3>1
  <2>3. \A o \in Objs : strm[o].body => strm[o].by \in Clients /\ cli[strm[o].by].pc = "body" /\ cli[strm[o].by].obj = o
    BY <1>t DEF SocketInv, PipeRead
  <2>4. \A p \in Objs : /\ strm'[p].st = strm[p].st
                        /\ strm'[p].body => /\ strm[p].body /\ strm'[p].by = strm[p].by
                                            /\ cli'[strm[p].by].pc = "body" /\ cli'[strm[p].by].obj = p
    BY <1>5, <2>2, <2>3
  <2> QED
    BY <1>t, <2>1, <2>2, <2>4, SocketCalm
<1> QED
  BY <1>1, <1>3, <1>4, <1>6, <1>7, <1>8, TypedStep

LEMMA SweepSafe ==
    ASSUME SafeInv, faults' \in 0..MaxFaults, Cleanup \/ TimePasses
    PROVE  SafeInv'
<1>t. /\ TypeOK /\ Typed /\ SocketInv /\ sock \in [Objs -> SockType] /\ sess \in [Objs -> SessType]
  BY DEF SafeInv, Typed, TypeOK
<1>1. UNCHANGED <<strm, cli, seen, turns, nameless>>
  BY DEF Cleanup, TimePasses
<1>2. sess' \in [Objs -> SessType]
  <2>1. CASE Cleanup
    BY <1>t, <2>1, SweepTyped DEF Cleanup
  <2>2. CASE TimePasses
    <3>1. ASSUME NEW o \in Objs, sess[o].idle < 2 PROVE [sess[o] EXCEPT !.idle = @ + 1] \in SessType
      <4>1. sess[o].idle \in 0..2 /\ sess[o] \in SessType
        BY <1>t DEF SessType
      <4>2. sess[o].idle + 1 \in 0..2
        BY <3>1, <4>1
      <4> QED
        BY <4>1, <4>2 DEF SessType
    <3> QED
      BY <1>t, <2>2, <3>1 DEF TimePasses
  <2> QED
    BY <2>1, <2>2
<1>3. sock' \in [Objs -> SockType] /\ \A o \in Objs : sock'[o] \in {sock[o], Closed}
  <2>1. CASE Cleanup
    BY <1>t, <2>1, SweepTyped DEF Cleanup, SweptSockets
  <2>2. CASE TimePasses
    BY <1>t, <2>2 DEF TimePasses
  <2> QED
    BY <2>1, <2>2
<1>4. \A o \in Objs : strm[o].body => strm[o].by \in Clients /\ cli[strm[o].by].pc = "body" /\ cli[strm[o].by].obj = o
  BY <1>t DEF SocketInv, PipeRead
<1>5. SocketInv'
  <2>1. Calm
    BY <1>t, <1>3, ClosingCalm
  <2> QED
    BY <1>t, <1>1, <1>4, <2>1, SocketCalm
<1>6. Equipped'
  BY <1>t, <1>1 DEF Typed, Equipped
<1> QED
  BY <1>1, <1>2, <1>3, <1>5, <1>6 DEF SafeInv, Typed, TypeOK

\* Only a socket changes.
LEMMA SocketOnly ==
    ASSUME SafeInv, faults' \in 0..MaxFaults, UNCHANGED <<sess, strm, cli, seen, turns, nameless>>,
           NEW o \in Objs, NEW k \in SockType, sock' = [sock EXCEPT ![o] = k],
           InOrder(k), k.open => sock[o].open,
           turnMuFree(o) /\ k.open => ~ k.asked /\ \A i \in DOMAIN k.reads : k.reads[i].kind = "err"
    PROVE  SafeInv'
<1>t. /\ TypeOK /\ Typed /\ SocketInv /\ sock \in [Objs -> SockType] /\ strm \in [Objs -> StrmType]
      /\ cli \in [Clients -> CliType]
  BY DEF SafeInv, Typed, TypeOK
<1>1. sock' \in [Objs -> SockType] /\ sock'[o] = k /\ \A p \in Objs \ {o} : sock'[p] = sock[p]
  BY <1>t
<1>2. /\ \A c, d \in Clients : cli'[c].pc = "dial" /\ cli'[d].pc = "dial" /\ cli'[c].obj = o /\ cli'[d].obj = o => c = d
      /\ \A c \in Clients : cli'[c].pc = "dial" /\ cli'[c].obj = o => strm'[o].st = "off"
      /\ strm'[o].body => strm'[o].by \in Clients /\ cli'[strm'[o].by].pc = "body" /\ cli'[strm'[o].by].obj = o
  BY <1>t DEF SocketInv, OneOnSocket, PipeRead
<1>3. strm'[o].st = "redial" => ~ sock'[o].open
  BY <1>t, <1>1 DEF SocketInv
<1>4. strm'[o].st = "off" /\ sock'[o].open /\ (\A c \in Clients : ~ (cli'[c].obj = o /\ cli'[c].pc = "dial"))
        => ~ sock'[o].asked /\ \A i \in DOMAIN sock'[o].reads : sock'[o].reads[i].kind = "err"
  BY <1>1 DEF turnMuFree
<1>5. InOrder(sock'[o])
  BY <1>1
<1>6. SocketInv'
  BY <1>t, <1>1, <1>2, <1>3, <1>4, <1>5, SocketStep
<1>7. Equipped'
  BY <1>t DEF Typed, Equipped
<1> QED
  BY <1>t, <1>1, <1>6, <1>7, TypedStep

\* A frame at the end of what was read.
LEMMA Pushed ==
    ASSUME NEW k \in SockType, NEW f \in Frames, NEW j, j.reads = Append(k.reads, f),
           InOrder(k), f.kind # "err" => k.asked /\ \A i \in DOMAIN k.reads : k.reads[i].kind # "err",
           j.asked => k.asked /\ f.kind \notin Final
    PROVE  InOrder(j)
<1>1. k.reads \in Seq(Frames)
  BY SockTyped
<1>2. /\ DOMAIN j.reads = 1..(Len(k.reads) + 1) /\ DOMAIN k.reads = 1..Len(k.reads) /\ Len(k.reads) \in Nat
      /\ j.reads[Len(k.reads) + 1] = f /\ \A i \in DOMAIN k.reads : j.reads[i] = k.reads[i]
  BY <1>1
<1>3. ASSUME NEW i \in DOMAIN j.reads, NEW m \in DOMAIN j.reads, i < m, j.reads[i].kind \in Final
      PROVE  j.reads[m].kind = "err"
  <2>1. i \in DOMAIN k.reads /\ k.reads[i].kind \in Final
    BY <1>2, <1>3
  <2>2. CASE m \in DOMAIN k.reads
    BY <1>2, <1>3, <2>1, <2>2 DEF InOrder
  <2>3. CASE m = Len(k.reads) + 1
    <3>1. ~ k.asked
      BY <2>1 DEF InOrder
    <3> QED
      BY <1>2, <2>3, <3>1
  <2> QED
    BY <1>2, <2>2, <2>3
<1>4. ASSUME j.asked, NEW i \in DOMAIN j.reads PROVE j.reads[i].kind \notin Final
  <2>1. CASE i \in DOMAIN k.reads
    BY <1>2, <1>4, <2>1 DEF InOrder
  <2>2. CASE i = Len(k.reads) + 1
    BY <1>2, <1>4, <2>2
  <2> QED
    BY <1>2, <2>1, <2>2
<1> QED
  BY <1>3, <1>4 DEF InOrder

LEMMA ReaderSafe ==
    ASSUME SafeInv, faults' \in 0..MaxFaults, NEW o \in Objs,
           ReadFails(o) \/ detachReadFailure(o) \/ expireConnection(o)
    PROVE  SafeInv'
<1>t. /\ TypeOK /\ Typed /\ SocketInv /\ sock \in [Objs -> SockType] /\ sock[o] \in SockType /\ InOrder(sock[o])
  BY DEF SafeInv, Typed, TypeOK, SocketInv
<1>1. UNCHANGED <<sess, strm, cli, seen, turns, nameless>> /\ sock[o].open
  BY DEF ReadFails, detachReadFailure, expireConnection
<1>2. turnMuFree(o) => ~ sock[o].asked /\ \A i \in DOMAIN sock[o].reads : sock[o].reads[i].kind = "err"
  BY <1>t, <1>1 DEF SocketInv, KeptSocketIsQuiet
<1>3. CASE ReadFails(o)
  <2> DEFINE f == [kind |-> "err", resp |-> NoId]
             k == [sock[o] EXCEPT !.reads = Append(@, f)]
  <2>1. f \in Frames /\ f.kind = "err"
    BY Blank DEF Frames
  <2> HIDE DEF f
  <2>2. k \in SockType /\ k.reads = Append(sock[o].reads, f) /\ k.asked = sock[o].asked /\ k.open = sock[o].open
    BY <1>t, <2>1, SockTyped DEF SockType
  <2>3. sock' = [sock EXCEPT ![o] = k]
    BY <1>3 DEF ReadFails, f
  <2>4. ASSUME turnMuFree(o) PROVE ~ k.asked /\ \A i \in DOMAIN k.reads : k.reads[i].kind = "err"
    <3>1. sock[o].reads \in Seq(Frames)
      BY <1>t, SockTyped
    <3> QED
      BY <1>2, <2>1, <2>2, <2>4, <3>1
  <2> HIDE DEF k
  <2>5. InOrder(k)
    BY <1>t, <2>1, <2>2, Pushed DEF Final
  <2> QED
    BY <1>1, <2>2, <2>3, <2>4, <2>5, SocketOnly
<1>4. CASE detachReadFailure(o)
  <2> DEFINE k == [Closed EXCEPT !.reads = sock[o].reads]
  <2>1. k \in SockType /\ ~ k.open /\ ~ k.asked /\ k.reads = sock[o].reads
    BY <1>t, Blank DEF SockType, Closed
  <2>2. sock' = [sock EXCEPT ![o] = k]
    BY <1>4 DEF detachReadFailure
  <2> HIDE DEF k
  <2>3. InOrder(k)
    BY <1>t, <2>1 DEF InOrder
  <2> QED
    BY <1>1, <2>1, <2>2, <2>3, SocketOnly
<1>5. CASE expireConnection(o)
  <2>1. CASE sock' = closeLocked(o)
    BY <1>1, <2>1, Blank, QuietSockets, SocketOnly DEF closeLocked
  <2>2. CASE sock' = [sock EXCEPT ![o].aged = TRUE]
    <3> DEFINE k == [sock[o] EXCEPT !.aged = TRUE]
    <3>1. k \in SockType /\ k.open = sock[o].open /\ k.asked = sock[o].asked /\ k.reads = sock[o].reads
      BY <1>t, SockTyped DEF SockType
    <3>2. sock' = [sock EXCEPT ![o] = k]
      BY <2>2
    <3> HIDE DEF k
    <3>3. InOrder(k)
      BY <1>t, <3>1 DEF InOrder
    <3> QED
      BY <1>1, <1>2, <3>1, <3>2, <3>3, SocketOnly
  <2> QED
    BY <1>5, <2>1, <2>2 DEF expireConnection
<1> QED
  BY <1>3, <1>4, <1>5

LEMMA UpstreamFrameSafe ==
    ASSUME SafeInv, faults' \in 0..MaxFaults, NEW o \in Objs, UpstreamFrame(o)
    PROVE  SafeInv'
<1>t. /\ TypeOK /\ Typed /\ SocketInv /\ sock \in [Objs -> SockType] /\ sock[o] \in SockType /\ InOrder(sock[o])
  BY DEF SafeInv, Typed, TypeOK, SocketInv
<1>1. /\ UNCHANGED <<sess, strm, cli, seen, turns, nameless>> /\ sock[o].open /\ sock[o].asked
      /\ \A i \in DOMAIN sock[o].reads : sock[o].reads[i].kind # "err"
  BY DEF UpstreamFrame, Dead
<1>2. ~ turnMuFree(o)
  BY <1>t, <1>1 DEF SocketInv, KeptSocketIsQuiet
<1>3. ASSUME NEW f \in Frames, f.kind # "err", NEW asked \in BOOLEAN, asked => f.kind \notin Final,
             NEW known \in SUBSET Items,
             sock' = [sock EXCEPT ![o] = [sock[o] EXCEPT !.reads = Append(@, f), !.asked = asked, !.known = known,
                                                        !.ctx = IF asked THEN @ ELSE <<>>]]
      PROVE  SafeInv'
  <2> DEFINE k == [sock[o] EXCEPT !.reads = Append(@, f), !.asked = asked, !.known = known,
                                  !.ctx = IF asked THEN @ ELSE <<>>]
  <2>1. Append(sock[o].reads, f) \in Seq(Frames)
    BY <1>t, SockTyped, Appending
  <2>2. sock[o].ctx \in Items /\ <<>> \in Items
    BY <1>t, SockTyped, Blank DEF NoId
  <2>3. k \in SockType /\ k.reads = Append(sock[o].reads, f) /\ k.asked = asked
    <3> HIDE DEF Items, Frames
    <3> QED
      BY <1>t, <2>1, <2>2 DEF SockType
  <2>4. sock' = [sock EXCEPT ![o] = k]
    BY <1>3
  <2> HIDE DEF k
  <2>5. InOrder(k)
    BY <1>t, <1>1, <1>3, <2>3, Pushed
  <2> QED
    BY <1>1, <1>2, <2>3, <2>4, <2>5, SocketOnly
<1>4. /\ sock[o].ctx \in Items /\ sock[o].known \in SUBSET Items
      /\ \A kind \in {"output", "missing", "failed"} : [kind |-> kind, resp |-> NoId] \in Frames
      /\ [kind |-> "completed", resp |-> sock[o].ctx] \in Frames /\ sock[o].known \cup {sock[o].ctx} \in SUBSET Items
  <2>1. sock[o].ctx \in Items /\ sock[o].known \in SUBSET Items /\ NoId \in Items
    BY <1>t, SockTyped, Blank
  <2> HIDE DEF Items
  <2> QED
    BY <2>1 DEF Frames
<1>5. \/ sock' = [sock EXCEPT ![o] = [sock[o] EXCEPT !.reads = Append(@, [kind |-> "missing", resp |-> NoId]),
                    !.asked = FALSE, !.known = sock[o].known, !.ctx = IF FALSE THEN @ ELSE <<>>]]
      \/ sock' = [sock EXCEPT ![o] = [sock[o] EXCEPT !.reads = Append(@, [kind |-> "output", resp |-> NoId]),
                    !.asked = TRUE, !.known = sock[o].known, !.ctx = IF TRUE THEN @ ELSE <<>>]]
      \/ sock' = [sock EXCEPT ![o] = [sock[o] EXCEPT !.reads = Append(@, [kind |-> "completed", resp |-> sock[o].ctx]),
                    !.asked = FALSE, !.known = sock[o].known \cup {sock[o].ctx}, !.ctx = IF FALSE THEN @ ELSE <<>>]]
      \/ sock' = [sock EXCEPT ![o] = [sock[o] EXCEPT !.reads = Append(@, [kind |-> "failed", resp |-> NoId]),
                    !.asked = FALSE, !.known = sock[o].known, !.ctx = IF FALSE THEN @ ELSE <<>>]]
  BY DEF UpstreamFrame
<1> QED
  BY <1>3, <1>4, <1>5 DEF Final

-------------------------------------------------------------------------------
(* The goroutine that reads the socket.                                      *)

\* It ends and leaves a socket that owes nothing.
LEMMA FinishSafe ==
    ASSUME SafeInv, faults' \in 0..MaxFaults, UNCHANGED <<sess, seen, turns, nameless>>,
           NEW o \in Objs, strm[o].st # "off", NEW k \in SockType, finishTurn(o, k), InOrder(k),
           k.open => ~ k.asked /\ \A i \in DOMAIN k.reads : k.reads[i].kind = "err",
           \/ cli' = cli /\ ~ strm[o].body
           \/ \E pc \in {"try", "http", "broken", "done"} : \E r \in Items : Tell(o, pc, r)
    PROVE  SafeInv'
<1>t. /\ TypeOK /\ Typed /\ SocketInv /\ sock \in [Objs -> SockType] /\ strm \in [Objs -> StrmType]
      /\ cli \in [Clients -> CliType] /\ Equipped
  BY DEF SafeInv, Typed, TypeOK
<1>1. sock' \in [Objs -> SockType] /\ strm' \in [Objs -> StrmType]
  BY <1>t, FinishTyped
<1>2. /\ strm'[o] = NoStream /\ sock'[o] \in {k, Closed}
      /\ \A p \in Objs \ {o} : sock'[p] = sock[p] /\ strm'[p] = strm[p]
  BY <1>t DEF finishTurn
<1>3. strm[o].body => strm[o].by \in Clients /\ cli[strm[o].by].pc = "body" /\ cli[strm[o].by].obj = o
                      /\ cli[strm[o].by].pc \in Working
  BY <1>t DEF SocketInv, PipeRead, Working
<1>4. /\ cli' \in [Clients -> CliType] /\ Equipped'
      /\ \A c \in Clients : cli'[c] = cli[c] \/ (cli[c].obj = o /\ cli'[c].obj = o /\ cli'[c].pc # "dial")
  <2>1. CASE cli' = cli
    BY <1>t, <2>1 DEF Equipped
  <2>2. ASSUME strm[o].body, NEW pc \in {"try", "http", "broken", "done"}, NEW r \in Items, Tell(o, pc, r)
        PROVE  /\ cli' \in [Clients -> CliType] /\ Equipped'
               /\ \A c \in Clients : cli'[c] = cli[c] \/ (cli[c].obj = o /\ cli'[c].obj = o /\ cli'[c].pc # "dial")
    <3>1. cli' \in [Clients -> CliType] /\ Equipped'
      BY <1>t, <1>3, <2>2, TellTyped
    <3>2. PICK c \in Clients : c = strm[o].by
      BY <1>3, <2>2
    <3>3. cli' = [cli EXCEPT ![c] = Outcome(cli[c], pc, r)] /\ cli[c].obj = o /\ cli[c] \in CliType
      BY <1>t, <1>3, <2>2, <3>2 DEF Tell
    <3>4. Outcome(cli[c], pc, r).obj = o /\ Outcome(cli[c], pc, r).pc = pc
      <4>1. pc \in Between \cup Working
        BY DEF Working
      <4> QED
        BY <2>2, <3>3, <4>1, OutcomeTyped
    <3>5. cli'[c] = Outcome(cli[c], pc, r) /\ \A d \in Clients \ {c} : cli'[d] = cli[d]
      BY <1>t, <3>3
    <3> QED
      BY <3>1, <3>3, <3>4, <3>5
  <2>3. \/ cli' = cli
        \/ strm[o].body /\ \E pc \in {"try", "http", "broken", "done"} : \E r \in Items : Tell(o, pc, r)
    BY DEF Tell
  <2> QED
    BY <2>1, <2>2, <2>3
<1>5. \A c \in Clients : cli'[c].pc = "dial" => cli'[c] = cli[c]
  BY <1>4
<1>6. \A c, d \in Clients : cli'[c].pc = "dial" /\ cli'[d].pc = "dial" /\ cli'[c].obj = o /\ cli'[d].obj = o => c = d
  BY <1>t, <1>5 DEF SocketInv, OneOnSocket
<1>7. strm'[o].st = "off" /\ ~ strm'[o].body
  BY <1>2 DEF NoStream
<1>8. InOrder(sock'[o])
  BY <1>2, QuietSockets
<1>9. sock'[o].open => ~ sock'[o].asked /\ \A i \in DOMAIN sock'[o].reads : sock'[o].reads[i].kind = "err"
  BY <1>2, QuietSockets
<1>10. SocketInv'
  BY <1>t, <1>2, <1>4, <1>6, <1>7, <1>8, <1>9, SocketStep
<1> QED
  BY <1>1, <1>4, <1>10, TypedStep

\* It goes on.
LEMMA GoesOnSafe ==
    ASSUME SafeInv, faults' \in 0..MaxFaults, UNCHANGED <<sess, cli, seen, turns, nameless>>,
           NEW o \in Objs, strm[o].st # "off", NEW k \in SockType, NEW s \in StrmType,
           sock' = [sock EXCEPT ![o] = k], strm' = [strm EXCEPT ![o] = s],
           s.st # "off", s.body = strm[o].body, s.by = strm[o].by, InOrder(k), s.st = "redial" => ~ k.open
    PROVE  SafeInv'
<1>t. /\ TypeOK /\ Typed /\ SocketInv /\ sock \in [Objs -> SockType] /\ strm \in [Objs -> StrmType]
      /\ cli \in [Clients -> CliType] /\ Equipped
  BY DEF SafeInv, Typed, TypeOK
<1>1. /\ sock' \in [Objs -> SockType] /\ strm' \in [Objs -> StrmType] /\ sock'[o] = k /\ strm'[o] = s
      /\ \A p \in Objs \ {o} : sock'[p] = sock[p] /\ strm'[p] = strm[p]
  BY <1>t
<1>2. /\ \A c, d \in Clients : cli'[c].pc = "dial" /\ cli'[d].pc = "dial" /\ cli'[c].obj = o /\ cli'[d].obj = o => c = d
      /\ \A c \in Clients : cli'[c].pc = "dial" /\ cli'[c].obj = o => strm'[o].st = "off"
      /\ strm'[o].body => strm'[o].by \in Clients /\ cli'[strm'[o].by].pc = "body" /\ cli'[strm'[o].by].obj = o
  BY <1>t, <1>1 DEF SocketInv, OneOnSocket, PipeRead
<1>3. SocketInv'
  BY <1>t, <1>1, <1>2, SocketStep
<1>4. Equipped'
  BY <1>t DEF Equipped
<1> QED
  BY <1>t, <1>1, <1>3, <1>4, TypedStep

\* A frame is taken from what was read.
LEMMA Popped ==
    ASSUME NEW k \in SockType, k.reads # <<>>, InOrder(k)
    PROVE  /\ [k EXCEPT !.reads = Tail(@)] \in SockType /\ InOrder([k EXCEPT !.reads = Tail(@)])
           /\ [k EXCEPT !.reads = Tail(@)].open = k.open /\ [k EXCEPT !.reads = Tail(@)].asked = k.asked
           /\ Head(k.reads).resp \in Items
           /\ Head(k.reads).kind \in Final =>
                  ~ k.asked /\ \A i \in DOMAIN Tail(k.reads) : Tail(k.reads)[i].kind = "err"
           /\ [k EXCEPT !.reads = Tail(@)].reads = Tail(k.reads)
<1> DEFINE j == [k EXCEPT !.reads = Tail(@)]
<1>1. k.reads \in Seq(Frames)
  BY SockTyped
<1>2. j \in SockType /\ j.reads = Tail(k.reads) /\ j.open = k.open /\ j.asked = k.asked
  BY SockTyped DEF SockType
<1>3. Head(k.reads) \in Frames
  BY SockTyped
<1> HIDE DEF j
<1>4. /\ DOMAIN Tail(k.reads) = 1..(Len(k.reads) - 1) /\ DOMAIN k.reads = 1..Len(k.reads) /\ Len(k.reads) \in Nat
      /\ Len(k.reads) >= 1 /\ Head(k.reads) = k.reads[1]
      /\ \A i \in DOMAIN Tail(k.reads) : Tail(k.reads)[i] = k.reads[i + 1]
  <2>1. Len(k.reads) \in Nat /\ Len(k.reads) # 0
    BY <1>1
  <2> QED
    BY <1>1, <2>1
<1>5. \A i \in DOMAIN Tail(k.reads) : i + 1 \in DOMAIN k.reads /\ i \in Nat /\ i + 1 > 1
  BY <1>4
<1>6. InOrder(j)
  <2>1. ASSUME NEW i \in DOMAIN j.reads, NEW m \in DOMAIN j.reads, i < m, j.reads[i].kind \in Final
        PROVE  j.reads[m].kind = "err"
    <3>1. i + 1 < m + 1
      BY <1>2, <1>5, <2>1
    <3> QED
      BY <1>2, <1>4, <1>5, <2>1, <3>1 DEF InOrder
  <2>2. ASSUME j.asked, NEW i \in DOMAIN j.reads PROVE j.reads[i].kind \notin Final
    BY <1>2, <1>4, <1>5, <2>2 DEF InOrder
  <2> QED
    BY <2>1, <2>2 DEF InOrder
<1>7. ASSUME Head(k.reads).kind \in Final
      PROVE  ~ k.asked /\ \A i \in DOMAIN Tail(k.reads) : Tail(k.reads)[i].kind = "err"
  <2>1. 1 \in DOMAIN k.reads /\ k.reads[1].kind \in Final
    BY <1>4, <1>7
  <2>2. \A m \in DOMAIN k.reads : 1 < m => k.reads[m].kind = "err"
    BY <2>1 DEF InOrder
  <2>3. ~ k.asked
    BY <2>1 DEF InOrder
  <2> QED
    BY <1>4, <1>5, <2>2, <2>3
<1>8. Head(k.reads).resp \in Items
  BY <1>3 DEF Frames
<1> QED
  BY <1>2, <1>6, <1>7, <1>8 DEF j

\* After a failed read it reconnects, or it tells its handler and ends.
LEMMA RetryOrFailSafe ==
    ASSUME SafeInv, faults' \in 0..MaxFaults, UNCHANGED <<sess, seen, turns, nameless>>,
           NEW o \in Objs, strm[o].st # "off", RetryOrFail(o)
    PROVE  SafeInv'
<1>t. TypeOK /\ strm \in [Objs -> StrmType] /\ strm[o] \in StrmType
  BY DEF SafeInv, Typed, TypeOK
<1>1. CASE /\ sock' = closeLocked(o) /\ cli' = cli
           /\ strm' = [strm EXCEPT ![o] = [strm[o] EXCEPT !.st = "redial", !.retried = TRUE]]
  <2> DEFINE s == [strm[o] EXCEPT !.st = "redial", !.retried = TRUE]
  <2>1. s \in StrmType /\ s.st = "redial" /\ s.body = strm[o].body /\ s.by = strm[o].by
    BY <1>t DEF StrmType
  <2>2. sock' = [sock EXCEPT ![o] = Closed] /\ strm' = [strm EXCEPT ![o] = s]
    BY <1>1 DEF closeLocked
  <2> HIDE DEF s
  <2> QED
    BY <1>1, <2>1, <2>2, Blank, QuietSockets, GoesOnSafe
<1>2. ASSUME NEW pc \in {"broken", "try"}, Tell(o, pc, NoId), finishTurn(o, Closed) PROVE SafeInv'
  BY <1>2, Blank, QuietSockets, FinishSafe
<1> QED
  BY <1>1, <1>2 DEF RetryOrFail

LEMMA StreamReadSafe ==
    ASSUME SafeInv, faults' \in 0..MaxFaults, NEW o \in Objs, StreamRead(o)
    PROVE  SafeInv'
<1>t. /\ TypeOK /\ Typed /\ SocketInv /\ sock \in [Objs -> SockType] /\ strm \in [Objs -> StrmType]
      /\ sock[o] \in SockType /\ strm[o] \in StrmType /\ InOrder(sock[o])
  BY DEF SafeInv, Typed, TypeOK, SocketInv
<1> DEFINE f == Head(sock[o].reads)
           popped == [sock[o] EXCEPT !.reads = Tail(@)]
           isFrame(kind) == HasRead(o) /\ f.kind = kind
<1>1. strm[o].st = "read" /\ UNCHANGED <<sess, seen, turns, nameless>>
  BY DEF StreamRead
<1>2. ASSUME HasRead(o)
      PROVE  /\ popped \in SockType /\ InOrder(popped) /\ f.resp \in Items
             /\ f.kind \in Final => ~ popped.asked /\ \A i \in DOMAIN popped.reads : popped.reads[i].kind = "err"
  BY <1>t, <1>2, Popped DEF HasRead
<1>3. CASE RetryOrFail(o)
  BY <1>1, <1>3, RetryOrFailSafe
<1>4. CASE Tell(o, "try", NoId) /\ finishTurn(o, Closed)
  BY <1>1, <1>4, Blank, QuietSockets, FinishSafe
<1>5. CASE /\ isFrame("output") /\ cli' = cli
           /\ strm' = [strm EXCEPT ![o].sem = TRUE] /\ sock' = [sock EXCEPT ![o] = popped]
  <2> DEFINE s == [strm[o] EXCEPT !.sem = TRUE]
  <2>1. s \in StrmType /\ s.st = "read" /\ s.body = strm[o].body /\ s.by = strm[o].by
    BY <1>t, <1>1 DEF StrmType
  <2>2. strm' = [strm EXCEPT ![o] = s]
    BY <1>5
  <2>3. popped \in SockType /\ InOrder(popped)
    BY <1>2, <1>5
  <2> HIDE DEF s, popped
  <2> QED
    BY <1>1, <1>5, <2>1, <2>2, <2>3, GoesOnSafe
<1>6. CASE ~ strm[o].body /\ finishTurn(o, WriteFailed(o)) /\ cli' = cli
  BY <1>1, <1>6, Blank, QuietSockets, FinishSafe DEF WriteFailed
<1>7. CASE isFrame("completed") /\ Tell(o, "done", f.resp)
           /\ finishTurn(o, IF strm[o].body THEN popped ELSE WriteFailed(o))
  <2>1. /\ popped \in SockType /\ InOrder(popped) /\ f.resp \in Items
        /\ ~ popped.asked /\ \A i \in DOMAIN popped.reads : popped.reads[i].kind = "err"
    BY <1>2, <1>7 DEF Final
  <2>2. Tell(o, "done", f.resp)
    BY <1>7
  <2> HIDE DEF f
  <2>3. CASE strm[o].body
    <3>1. finishTurn(o, popped)
      BY <1>7, <2>3
    <3> HIDE DEF popped
    <3> QED
      BY <1>1, <2>1, <2>2, <3>1, FinishSafe
  <2>4. CASE ~ strm[o].body
    <3>1. finishTurn(o, Closed)
      BY <1>7, <2>4 DEF WriteFailed
    <3> QED
      BY <1>1, <2>1, <2>2, <3>1, Blank, QuietSockets, FinishSafe
  <2> QED
    BY <2>3, <2>4
<1>8. CASE Tell(o, IF strm[o].sem THEN "broken" ELSE "try", NoId) /\ finishTurn(o, Closed)
  <2>1. PICK pc \in {"broken", "try"} : Tell(o, pc, NoId)
    BY <1>8
  <2> QED
    BY <1>1, <1>8, <2>1, Blank, QuietSockets, FinishSafe
<1> QED
  BY <1>3, <1>4, <1>5, <1>6, <1>7, <1>8 DEF StreamRead

LEMMA ReconnectSafe ==
    ASSUME SafeInv, faults' \in 0..MaxFaults, NEW o \in Objs, ReconnectWithReplay(o)
    PROVE  SafeInv'
<1>t. /\ TypeOK /\ Typed /\ SocketInv /\ sock \in [Objs -> SockType] /\ strm \in [Objs -> StrmType]
      /\ sock[o] \in SockType /\ strm[o] \in StrmType /\ InOrder(sock[o])
  BY DEF SafeInv, Typed, TypeOK, SocketInv
<1>1. strm[o].st = "redial" /\ ~ sock[o].open /\ UNCHANGED <<sess, seen, turns, nameless>>
  BY <1>t DEF ReconnectWithReplay, SocketInv
<1>2. CASE /\ sock' = [sock EXCEPT ![o] = Dialled(strm[o].target, strm[o].replay)]
           /\ strm' = [strm EXCEPT ![o].st = "read"] /\ cli' = cli
  <2> DEFINE s == [strm[o] EXCEPT !.st = "read"]
             k == Dialled(strm[o].target, strm[o].replay)
  <2>1. s \in StrmType /\ s.st = "read" /\ s.body = strm[o].body /\ s.by = strm[o].by
    BY <1>t DEF StrmType
  <2>2. k \in SockType /\ InOrder(k)
    BY <1>t, DialledTyped, QuietSockets DEF StrmType
  <2>3. strm' = [strm EXCEPT ![o] = s] /\ sock' = [sock EXCEPT ![o] = k]
    BY <1>2
  <2> HIDE DEF s, k
  <2> QED
    BY <1>1, <1>2, <2>1, <2>2, <2>3, GoesOnSafe
<1>3. ASSUME NEW pc \in {"try", "http"}, Tell(o, pc, NoId), finishTurn(o, sock[o]) PROVE SafeInv'
  BY <1>t, <1>1, <1>3, Blank, FinishSafe
<1> QED
  BY <1>2, <1>3 DEF ReconnectWithReplay

-------------------------------------------------------------------------------
(* Attachment is preserved.                                                  *)

\* By steps that attach and release no client.
LEMMA AttachFrame ==
    ASSUME AttachInv,
           \A o \in Objs : sess'[o].active = sess[o].active /\ sess'[o].stored = sess[o].stored /\ sess'[o].key = sess[o].key,
           \A c \in Clients : /\ cli'[c].obj = cli[c].obj /\ (cli[c].obj # None => cli'[c].key = cli[c].key)
                             /\ (cli'[c].pc = "away" => cli[c].obj = None),
           \A c \in Clients : cli[c].obj \in Objs \cup {None}
    PROVE  AttachInv'
<1>1. \A o \in Objs : Attached(o)' = Attached(o)
  BY DEF Attached
<1>2. Stored' = Stored /\ Stored \subseteq Objs
  BY DEF Stored
<1>3. \A o \in Objs : sess'[o].active = Cardinality(Attached(o)')
  BY <1>1 DEF AttachInv
<1>4. \A c \in Clients : cli'[c].obj # None => sess'[cli'[c].obj].stored /\ sess'[cli'[c].obj].key = cli'[c].key
  BY DEF AttachInv
<1>5. \A o, p \in Stored' : sess'[o].key = "shared" /\ sess'[p].key = "shared" => o = p
  BY <1>2 DEF AttachInv
<1>6. NoIdleTransient'
  BY <1>2 DEF AttachInv, NoIdleTransient
<1>7. \A c \in Clients : cli'[c].pc = "away" => cli'[c].obj = None
  OBVIOUS
<1> QED
  BY <1>3, <1>4, <1>5, <1>6, <1>7, Zenon DEF AttachInv

\* One handler moves and stays attached.
LEMMA HandlerAttached ==
    ASSUME SafeInv, AttachInv, NEW c \in Clients, NEW h, cli' = [cli EXCEPT ![c] = h],
           h.obj = cli[c].obj, h.obj # None => h.key = cli[c].key, h.pc = "away" => h.obj = None,
           \A o \in Objs : sess'[o].active = sess[o].active /\ sess'[o].stored = sess[o].stored /\ sess'[o].key = sess[o].key
    PROVE  AttachInv'
<1>1. cli \in [Clients -> CliType]
  BY DEF SafeInv, Typed, TypeOK
<1>2. cli'[c] = h /\ \A d \in Clients \ {c} : cli'[d] = cli[d]
  BY <1>1
<1>3. \A d \in Clients : cli[d].obj \in Objs \cup {None}
  BY <1>1 DEF CliType
<1>4. \A d \in Clients : cli[d].pc = "away" => cli[d].obj = None
  BY DEF AttachInv
<1> QED
  BY <1>2, <1>3, <1>4, AttachFrame

LEMMA TellAttached ==
    ASSUME SafeInv, AttachInv, NEW o \in Objs, NEW pc \in {"try", "http", "broken", "done"}, NEW r \in Items,
           Tell(o, pc, r), sess' = sess
    PROVE  AttachInv'
<1>1. CASE strm[o].body
  <2>1. PICK c \in Clients : c = strm[o].by
    BY <1>1 DEF SafeInv, SocketInv, PipeRead
  <2>2. cli[c] \in CliType
    BY DEF SafeInv, Typed, TypeOK
  <2> DEFINE h == Outcome(cli[c], pc, r)
  <2>3. h.pc = pc /\ h.obj = cli[c].obj /\ h.key = cli[c].key
    <3>1. pc \in Between \cup Working
      BY DEF Working
    <3> QED
      BY <2>2, <3>1, OutcomeTyped
  <2>4. cli' = [cli EXCEPT ![c] = h]
    BY <1>1, <2>1 DEF Tell
  <2> HIDE DEF h
  <2> QED
    BY <2>3, <2>4, HandlerAttached
<1>2. CASE ~ strm[o].body
  <2>1. cli' = cli
    BY <1>2 DEF Tell
  <2> QED
    BY <2>1, AttachFrame DEF AttachInv, SafeInv, Typed, TypeOK, CliType
<1> QED
  BY <1>1, <1>2

LEMMA ClientAttached ==
    ASSUME SafeInv, AttachInv, NEW c \in Clients,
           \/ Connect(c) \/ Message(c) \/ HttpDone(c) \/ HttpFails(c) \/ Attempt(c) \/ RoundTrip(c) \/ Dial(c)
           \/ CloseBody(c) \/ CancelAttempt(c) \/ ClientGone(c)
    PROVE  AttachInv'
<1>t. cli \in [Clients -> CliType] /\ cli[c] \in CliType /\ \A d \in Clients : cli[d].obj \in Objs \cup {None}
  BY DEF SafeInv, Typed, TypeOK, CliType
<1>1. sess' = sess
  BY DEF Connect, Message, HttpDone, HttpFails, Attempt, RoundTrip, Dial, CloseBody, CancelAttempt, ClientGone
<1>3. ASSUME NEW pc \in {"ready", "turn", "lock", "http", "body", "dial", "try", "cutoff", "closing"}, NEW t, NEW n,
             \/ cli' = [cli EXCEPT ![c].pc = pc]
             \/ cli' = [cli EXCEPT ![c] = [cli[c] EXCEPT !.pc = pc, !.target = t, !.att = n]]
      PROVE  AttachInv'
  <2>1. PICK h : cli' = [cli EXCEPT ![c] = h] /\ h.pc = pc /\ h.obj = cli[c].obj /\ h.key = cli[c].key
    <3> DEFINE h == [cli[c] EXCEPT !.pc = pc]
               g == [cli[c] EXCEPT !.pc = pc, !.target = t, !.att = n]
    <3>1. /\ h.pc = pc /\ h.obj = cli[c].obj /\ h.key = cli[c].key
          /\ g.pc = pc /\ g.obj = cli[c].obj /\ g.key = cli[c].key
      BY <1>t DEF CliType
    <3>2. cli' = [cli EXCEPT ![c] = h] \/ cli' = [cli EXCEPT ![c] = g]
      BY <1>3
    <3> HIDE DEF h, g
    <3> QED
      BY <3>1, <3>2
  <2> QED
    BY <1>1, <2>1, HandlerAttached
<1>4. ASSUME NEW pc \in {"done", "try", "broken"}, NEW r \in Items, cli' = [cli EXCEPT ![c] = Outcome(cli[c], pc, r)]
      PROVE  AttachInv'
  <2> DEFINE h == Outcome(cli[c], pc, r)
  <2>1. h.pc = pc /\ h.obj = cli[c].obj /\ h.key = cli[c].key
    <3>1. pc \in Between \cup Working
      BY DEF Working
    <3> QED
      BY <1>t, <3>1, OutcomeTyped
  <2>2. cli' = [cli EXCEPT ![c] = h]
    BY <1>4
  <2> HIDE DEF h
  <2> QED
    BY <1>1, <1>4, <2>1, <2>2, HandlerAttached
<1>5. CASE Connect(c)
  <2>1. PICK key : cli' = [cli EXCEPT ![c] = [Away EXCEPT !.pc = "ready", !.key = key]]
    BY <1>5 DEF Connect
  <2> DEFINE h == [Away EXCEPT !.pc = "ready", !.key = key]
  <2>2. h.obj = None /\ h.pc = "ready"
    BY DEF Away
  <2>3. cli[c].obj = None
    BY <1>5 DEF Connect, AttachInv
  <2> HIDE DEF h
  <2> QED
    BY <1>1, <2>1, <2>2, <2>3, HandlerAttached DEF h
<1>6. CASE HttpDone(c) \/ HttpFails(c) \/ CancelAttempt(c)
  <2>1. cli[c].replay \in Items /\ NoId \in Items
    BY <1>t, Blank DEF CliType
  <2>2. \E pc \in {"done", "try", "broken"} : \E r \in Items : cli' = [cli EXCEPT ![c] = Outcome(cli[c], pc, r)]
    BY <1>6, <2>1 DEF HttpDone, HttpFails, CancelAttempt
  <2> QED
    BY <1>4, <2>2
<1>7. CASE Message(c) \/ Attempt(c) \/ RoundTrip(c) \/ Dial(c) \/ CloseBody(c)
  BY <1>3, <1>7 DEF Message, Attempt, RoundTrip, Dial, CloseBody
<1>8. CASE ClientGone(c)
  <2>1. cli' = [d \in Clients |-> IF d \notin {c} \/ cli[d].pc = "away" THEN cli[d]
                  ELSE [cli[d] EXCEPT !.live = FALSE,
                           !.pc = IF @ \in {"ready", "turn"}
                                  THEN IF cli[d].obj = None THEN "away" ELSE "leave" ELSE @]]
    BY <1>8 DEF ClientGone, Gone
  <2>2. ASSUME NEW d \in Clients
        PROVE  cli'[d].obj = cli[d].obj /\ cli'[d].key = cli[d].key /\ (cli'[d].pc = "away" => cli[d].obj = None)
    <3>1. cli[d] \in CliType /\ (cli[d].pc = "away" => cli[d].obj = None)
      BY <1>t DEF AttachInv
    <3> QED
      BY <2>1, <3>1 DEF CliType
  <2> QED
    BY <1>t, <1>1, <2>2, AttachFrame
<1> QED
  BY <1>5, <1>6, <1>7, <1>8

LEMMA SocketAttached ==
    ASSUME SafeInv, AttachInv, NEW o \in Objs,
           \/ StreamRead(o) \/ ReconnectWithReplay(o) \/ UpstreamFrame(o)
           \/ ReadFails(o) \/ detachReadFailure(o) \/ expireConnection(o)
    PROVE  AttachInv'
<1>t. \A d \in Clients : cli[d].obj \in Objs \cup {None}
  BY DEF SafeInv, Typed, TypeOK, CliType
<1>1. sess' = sess
  BY DEF StreamRead, ReconnectWithReplay, UpstreamFrame, ReadFails, detachReadFailure, expireConnection
<1>2. CASE cli' = cli
  BY <1>t, <1>1, <1>2, AttachFrame DEF AttachInv
<1>3. CASE StreamRead(o)
  <2> DEFINE f == Head(sock[o].reads)
  <2>1. CASE HasRead(o) /\ Tell(o, "done", f.resp)
    <3>1. f.resp \in Items
      BY <2>1, Popped DEF HasRead, SafeInv, Typed, TypeOK, SocketInv
    <3> HIDE DEF f
    <3> QED
      BY <1>1, <2>1, <3>1, TellAttached
  <2>2. ASSUME NEW pc \in {"try", "broken"}, Tell(o, pc, NoId) PROVE AttachInv'
    BY <1>1, <2>2, Blank, TellAttached
  <2>3. \/ cli' = cli \/ Tell(o, "try", NoId) \/ Tell(o, "broken", NoId)
        \/ HasRead(o) /\ Tell(o, "done", f.resp)
    BY <1>3 DEF StreamRead, RetryOrFail
  <2> QED
    BY <1>2, <2>1, <2>2, <2>3
<1>4. CASE ReconnectWithReplay(o)
  <2>1. \/ cli' = cli \/ \E pc \in {"try", "http"} : Tell(o, pc, NoId)
    BY <1>4 DEF ReconnectWithReplay
  <2> QED
    BY <1>1, <1>2, <2>1, Blank, TellAttached
<1>5. CASE UpstreamFrame(o) \/ ReadFails(o) \/ detachReadFailure(o) \/ expireConnection(o)
  BY <1>2, <1>5 DEF UpstreamFrame, ReadFails, detachReadFailure, expireConnection
<1> QED
  BY <1>3, <1>4, <1>5

LEMMA TurnAttached ==
    ASSUME SafeInv, AttachInv, NEW c \in Clients,
           BeginTurn(c) \/ GiveUp(c) \/ Prewarm(c) \/ Commit(c) \/ Interrupted(c)
    PROVE  AttachInv'
<1>t. /\ Typed /\ sess \in [Objs -> SessType] /\ cli[c] \in CliType /\ cli[c].obj \in Objs \cup {None}
      /\ sess[cli[c].obj] \in SessType
  <2>1. Typed /\ sess \in [Objs -> SessType] /\ cli[c] \in CliType /\ cli[c].obj \in Objs \cup {None}
    BY DEF SafeInv, Typed, TypeOK, CliType
  <2>2. cli[c].pc \notin {"away", "ready"}
    BY DEF BeginTurn, GiveUp, Prewarm, Commit, Interrupted
  <2>3. cli[c].obj \in Objs
    BY <2>1, <2>2 DEF Typed, Equipped
  <2> QED
    BY <2>1, <2>3
<1>1. ASSUME NEW s, s \in SessType, NEW pc \in {"ready", "leave"}, EndTurnTo(c, s, pc),
             s.active = sess[cli[c].obj].active, s.stored = sess[cli[c].obj].stored, s.key = sess[cli[c].obj].key
      PROVE  AttachInv'
  <2> DEFINE h == [Away EXCEPT !.pc = pc, !.obj = cli[c].obj, !.key = cli[c].key, !.live = cli[c].live]
             r == [s EXCEPT !.turn = None]
  <2>1. h.obj = cli[c].obj /\ h.key = cli[c].key /\ h.pc = pc
    BY DEF Away
  <2>2. r.active = s.active /\ r.stored = s.stored /\ r.key = s.key
    BY <1>1 DEF SessType
  <2>3. cli' = [cli EXCEPT ![c] = h] /\ sess' = [sess EXCEPT ![cli[c].obj] = r]
    BY <1>1 DEF EndTurnTo
  <2> HIDE DEF h, r
  <2>4. \A o \in Objs : sess'[o].active = sess[o].active /\ sess'[o].stored = sess[o].stored /\ sess'[o].key = sess[o].key
    BY <1>t, <1>1, <2>2, <2>3
  <2> QED
    BY <1>1, <2>1, <2>3, <2>4, HandlerAttached
<1>2. ASSUME NEW items, NEW r
      PROVE  LET s == commit(cli[c].obj, items, r)
             IN  /\ s.active = sess[cli[c].obj].active /\ s.stored = sess[cli[c].obj].stored
                 /\ s.key = sess[cli[c].obj].key
  BY <1>t DEF commit, SessType
<1>3. CASE BeginTurn(c)
  <2>1. \A o \in Objs : sess'[o].active = sess[o].active /\ sess'[o].stored = sess[o].stored /\ sess'[o].key = sess[o].key
    <3>1. sess' = sess \/ sess' = [sess EXCEPT ![cli[c].obj].turn = c]
      BY <1>3 DEF BeginTurn
    <3> QED
      BY <1>t, <3>1 DEF SessType
  <2>2. \E h : cli' = [cli EXCEPT ![c] = h] /\ h.obj = cli[c].obj /\ h.key = cli[c].key /\ h.pc \in {"try", "ready", "leave"}
    <3>1. CASE cli' = [cli EXCEPT ![c] = Refuse(c)]
      <4>1. Refuse(c).obj = cli[c].obj /\ Refuse(c).key = cli[c].key /\ Refuse(c).pc \in {"ready", "leave"}
        BY <1>t DEF Refuse, CliType
      <4> QED
        BY <3>1, <4>1
    <3>2. ASSUME NEW ask \in Asks, NEW native \in BOOLEAN, NEW keep \in BOOLEAN,
                 cli' = [cli EXCEPT ![c] = [cli[c] EXCEPT
                            !.pc = "try", !.replay = replayRequest(c, cli[c].obj, ask), !.native = native,
                            !.prev = incrementalPrevious(c, cli[c].obj, ask), !.keep = keep]]
          PROVE  \E h : /\ cli' = [cli EXCEPT ![c] = h] /\ h.obj = cli[c].obj /\ h.key = cli[c].key
                        /\ h.pc \in {"try", "ready", "leave"}
      <4> DEFINE h == [cli[c] EXCEPT !.pc = "try", !.replay = replayRequest(c, cli[c].obj, ask), !.native = native,
                                     !.prev = incrementalPrevious(c, cli[c].obj, ask), !.keep = keep]
      <4>1. h.obj = cli[c].obj /\ h.key = cli[c].key /\ h.pc = "try"
        BY <1>t DEF CliType
      <4>2. cli' = [cli EXCEPT ![c] = h]
        BY <3>2
      <4> HIDE DEF h
      <4> QED
        BY <4>1, <4>2
    <3>3. \/ cli' = [cli EXCEPT ![c] = Refuse(c)]
          \/ \E ask \in Asks : \E native, keep \in BOOLEAN :
                 cli' = [cli EXCEPT ![c] = [cli[c] EXCEPT
                            !.pc = "try", !.replay = replayRequest(c, cli[c].obj, ask), !.native = native,
                            !.prev = incrementalPrevious(c, cli[c].obj, ask), !.keep = keep]]
      <4>1. sock[cli[c].obj].open \in BOOLEAN
        <5>1. cli[c].obj \in Objs
          BY <1>t, <1>3 DEF BeginTurn, Typed, Equipped
        <5> QED
          BY <5>1, SockTyped DEF SafeInv, Typed, TypeOK
      <4> QED
        BY <1>3, <4>1 DEF BeginTurn
    <3> QED
      BY <3>1, <3>2, <3>3
  <2> QED
    BY <2>1, <2>2, HandlerAttached
<1>4. CASE GiveUp(c) \/ Prewarm(c) \/ Commit(c) \/ Interrupted(c)
  <2>1. cli[c].pc \in Working
    BY <1>4 DEF GiveUp, Prewarm, Commit, Interrupted, Working
  <2>2. cli[c].obj \in Objs /\ cli[c].replay \in Items /\ cli[c].got \in Items
    BY <1>t, <2>1, AtWork
  <2>3. \E s : /\ s = sess[cli[c].obj] \/ \E r \in Items : s = commit(cli[c].obj, cli[c].replay, r)
               /\ EndTurn(c, s) \/ EndTurnTo(c, s, "leave")
    BY <1>4, <2>2, Blank DEF GiveUp, Prewarm, Commit, Interrupted
  <2>4. PICK s : /\ s = sess[cli[c].obj] \/ \E r \in Items : s = commit(cli[c].obj, cli[c].replay, r)
                 /\ EndTurn(c, s) \/ EndTurnTo(c, s, "leave")
    BY <2>3
  <2>5. PICK pc \in {"ready", "leave"} : EndTurnTo(c, s, pc)
    BY <2>4 DEF EndTurn
  <2>6. s \in SessType
    BY <1>t, <2>2, <2>4, CommitTyped DEF Typed
  <2> QED
    BY <1>1, <1>2, <2>4, <2>5, <2>6
<1> QED
  BY <1>3, <1>4

\* What the removal of expired sessions leaves.
LEMMA SweptIs ==
    ASSUME SafeInv, AttachInv
    PROVE  /\ \A o \in Objs \ removeExpiredLocked : Swept[o] = sess[o]
           /\ \A o \in removeExpiredLocked : Swept[o] = NoSess /\ Attached(o) = {}
           /\ removeExpiredLocked \subseteq Objs /\ Stored \subseteq Objs
<1>1. removeExpiredLocked \subseteq Objs /\ Stored \subseteq Objs
  BY DEF removeExpiredLocked, Stored
<1>2. \A o \in Objs \ removeExpiredLocked : Swept[o] = sess[o]
  BY DEF Swept
<1>3. ASSUME NEW o \in removeExpiredLocked PROVE Swept[o] = NoSess /\ Attached(o) = {}
  <2>1. o \in Objs /\ sess[o].active = 0
    BY <1>1, <1>3 DEF removeExpiredLocked
  <2>2. Attached(o) \in SUBSET Clients /\ Cardinality(Attached(o)) = 0
    BY <2>1 DEF Attached, AttachInv
  <2>3. Attached(o) = {}
    <3>1. Attached(o) # {} => Cardinality(Attached(o)) >= 1
      BY <2>2, Counting
    <3> QED
      BY <2>2, <3>1
  <2> QED
    BY <2>1, <2>3 DEF Swept, Forgotten
<1> QED
  BY <1>1, <1>2, <1>3

\* Expired sessions are removed and one object changes otherwise.
LEMMA SweepAttached ==
    ASSUME SafeInv, AttachInv, NEW o \in Objs \cup {None}, NEW gone, gone \subseteq removeExpiredLocked,
           \A p \in Objs \ {o} : sess'[p] = IF p \in gone THEN NoSess ELSE sess[p],
           \A c \in Clients : cli'[c].obj \in {o, None} \/ (cli'[c].obj = cli[c].obj /\ cli'[c].key = cli[c].key),
           \A c \in Clients : cli[c].obj # o /\ cli[c].obj # None => cli'[c].obj = cli[c].obj,
           \A c \in Clients : cli'[c].pc = "away" => cli'[c].obj = None,
           o \in Objs =>
               /\ sess'[o].active = Cardinality(Attached(o)')
               /\ \A c \in Clients : cli'[c].obj = o => sess'[o].stored /\ sess'[o].key = cli'[c].key
               /\ sess'[o].stored /\ sess'[o].key = "shared" =>
                      \A p \in Stored \ (gone \cup {o}) : sess[p].key # "shared"
               /\ sess'[o].stored /\ sess'[o].key = "private" => sess'[o].active > 0
    PROVE  AttachInv'
<1>t. \A c \in Clients : cli[c].obj \in Objs \cup {None} /\ None \notin Objs
  BY SessionsAssumption DEF SafeInv, Typed, TypeOK, CliType, None, Objs
<1>1. \A p \in Objs \ {o} : /\ Attached(p)' = Attached(p)
                            /\ p \in gone => sess'[p] = NoSess /\ Attached(p) = {}
                            /\ p \notin gone => sess'[p] = sess[p]
  <2>1. \A p \in Objs \ {o} : Attached(p)' = Attached(p)
    <3> SUFFICES ASSUME NEW p \in Objs \ {o}, NEW c \in Clients PROVE cli'[c].obj = p <=> cli[c].obj = p
      BY DEF Attached
    <3> QED
      BY <1>t
  <2> QED
    BY <2>1, SweptIs
<1>2. Stored' = {p \in Objs : sess'[p].stored}
  BY DEF Stored
<1>3. \A p \in Objs \ {o} : sess'[p].stored => p \in Stored \ gone /\ sess'[p] = sess[p]
  BY <1>1 DEF Stored, NoSess
<1>4. ASSUME NEW p \in Objs PROVE sess'[p].active = Cardinality(Attached(p)')
  <2>1. CASE p = o
    BY <2>1
  <2>2. CASE p # o /\ p \in gone
    <3>1. sess'[p].active = 0 /\ Attached(p)' = {}
      BY <1>1, <2>2 DEF NoSess
    <3> QED
      BY <3>1, Counting
  <2>3. CASE p # o /\ p \notin gone
    BY <1>1, <2>3 DEF AttachInv
  <2> QED
    BY <2>1, <2>2, <2>3
<1>5. ASSUME NEW c \in Clients, cli'[c].obj # None
      PROVE  sess'[cli'[c].obj].stored /\ sess'[cli'[c].obj].key = cli'[c].key
  <2>1. CASE cli'[c].obj = o
    BY <1>5, <2>1
  <2>2. CASE cli'[c].obj # o
    <3>1. PICK p \in Objs \ {o} : p = cli[c].obj /\ cli'[c].obj = p /\ cli'[c].key = cli[c].key
      BY <1>t, <1>5, <2>2
    <3>2. c \in Attached(p)
      BY <3>1 DEF Attached
    <3>3. sess'[p] = sess[p]
      BY <1>1, <3>2
    <3> QED
      BY <1>t, <3>1, <3>3 DEF AttachInv
  <2> QED
    BY <2>1, <2>2
<1>6. ASSUME NEW p \in Stored', NEW q \in Stored', sess'[p].key = "shared", sess'[q].key = "shared" PROVE p = q
  <2>1. \A r \in Stored' \ {o} : r \in Stored \ gone /\ sess'[r] = sess[r]
    BY <1>2, <1>3
  <2>2. o \in Stored' /\ sess'[o].key = "shared" => \A r \in Stored \ (gone \cup {o}) : sess[r].key # "shared"
    BY <1>2
  <2>3. \A r, s \in Stored : sess[r].key = "shared" /\ sess[s].key = "shared" => r = s
    BY DEF AttachInv
  <2> QED
    BY <1>6, <2>1, <2>2, <2>3
<1>7. NoIdleTransient'
  <2> SUFFICES ASSUME NEW p \in Stored', sess'[p].key = "private" PROVE sess'[p].active > 0
    BY DEF NoIdleTransient
  <2>1. CASE p = o
    BY <1>2, <2>1
  <2>2. CASE p # o
    <3>1. p \in Stored /\ sess'[p] = sess[p]
      BY <1>2, <1>3, <2>2
    <3> QED
      BY <3>1 DEF AttachInv, NoIdleTransient
  <2> QED
    BY <2>1, <2>2
<1> QED
  BY <1>4, <1>5, <1>6, <1>7, Zenon DEF AttachInv

LEMMA AcquireAttached ==
    ASSUME SafeInv, AttachInv, NEW c \in Clients, Acquire(c)
    PROVE  AttachInv'
<1>t. /\ cli \in [Clients -> CliType] /\ cli[c] \in CliType /\ sess \in [Objs -> SessType] /\ Swept \in [Objs -> SessType]
      /\ None \notin Objs /\ Away.obj = None
  BY SessionsAssumption, SweepTyped DEF SafeInv, Typed, TypeOK, None, Objs, Away
<1>1. cli[c].pc = "ready" /\ cli[c].obj = None
  BY AcquireIs
<1>2. /\ \A p \in Objs : Swept[p] = IF p \in removeExpiredLocked THEN NoSess ELSE sess[p]
      /\ removeExpiredLocked \subseteq Objs /\ Stored \subseteq Objs
  BY SweptIs
<1>3. \A d \in Clients : cli[d].pc = "away" => cli[d].obj = None
  BY DEF AttachInv
<1>4. CASE Refused(c)
  <2>1. \A d \in Clients : cli'[d] = cli[d] \/ (d = c /\ cli'[d].obj = None)
    BY <1>t, <1>4 DEF Refused
  <2>2. sess' = Swept
    BY <1>4 DEF Refused
  <2>3. /\ None \in Objs \cup {None}
        /\ \A p \in Objs \ {None} : sess'[p] = IF p \in removeExpiredLocked THEN NoSess ELSE sess[p]
        /\ \A d \in Clients : cli'[d].obj \in {None, None} \/ (cli'[d].obj = cli[d].obj /\ cli'[d].key = cli[d].key)
        /\ \A d \in Clients : cli[d].obj # None /\ cli[d].obj # None => cli'[d].obj = cli[d].obj
        /\ \A d \in Clients : cli'[d].pc = "away" => cli'[d].obj = None
    BY <1>1, <1>2, <1>3, <2>1, <2>2
  <2> QED
    BY <1>t, <2>3, SweepAttached
<1>5. ASSUME NEW o \in Objs, NEW s \in SessType, Takes(c, o, s), s.active = Cardinality(Attached(o)),
             s.stored, s.key = cli[c].key, o \notin removeExpiredLocked,
             \A d \in Clients : cli[d].obj = o => cli[d].key = s.key,
             s.key = "shared" => \A p \in Stored \ (removeExpiredLocked \cup {o}) : sess[p].key # "shared"
      PROVE  AttachInv'
  <2> DEFINE r == [s EXCEPT !.active = @ + 1, !.idle = 0]
             h == [cli[c] EXCEPT !.obj = o, !.pc = "turn"]
  <2>1. r.active = s.active + 1 /\ r.stored = s.stored /\ r.key = s.key
    BY DEF SessType
  <2>2. h.obj = o /\ h.pc = "turn" /\ h.key = cli[c].key
    BY <1>t DEF CliType
  <2>3. sess' = [Swept EXCEPT ![o] = r] /\ cli' = [cli EXCEPT ![c] = h]
    BY <1>5 DEF Takes
  <2> HIDE DEF r, h
  <2>4. sess'[o] = r /\ \A p \in Objs \ {o} : sess'[p] = Swept[p]
    BY <1>t, <2>3
  <2>5. cli'[c] = h /\ \A d \in Clients \ {c} : cli'[d] = cli[d]
    BY <1>t, <2>3
  <2>6. Attached(o)' = Attached(o) \cup {c} /\ c \in Clients \ Attached(o) /\ Attached(o) \in SUBSET Clients
    BY <1>t, <1>1, <2>2, <2>5 DEF Attached
  <2>7. Cardinality(Attached(o)') = Cardinality(Attached(o)) + 1 /\ Cardinality(Attached(o)) \in Nat
    BY <2>6, Counting
  <2>8. /\ sess'[o].active = Cardinality(Attached(o)') /\ sess'[o].active > 0
        /\ \A d \in Clients : cli'[d].obj = o => sess'[o].stored /\ sess'[o].key = cli'[d].key
        /\ sess'[o].stored /\ sess'[o].key = "shared" =>
               \A p \in Stored \ (removeExpiredLocked \cup {o}) : sess[p].key # "shared"
    <3>1. sess'[o].active = s.active + 1 /\ sess'[o].stored /\ sess'[o].key = cli[c].key /\ s.key = cli[c].key
      BY <1>5, <2>1, <2>4
    <3>2. sess'[o].active = Cardinality(Attached(o)') /\ sess'[o].active > 0
      BY <1>5, <2>7, <3>1
    <3>3. \A d \in Clients : cli'[d].obj = o => cli'[d].key = cli[c].key
      BY <1>5, <2>2, <2>5
    <3> QED
      BY <1>5, <3>1, <3>2, <3>3
  <2>9. /\ \A p \in Objs \ {o} : sess'[p] = IF p \in removeExpiredLocked THEN NoSess ELSE sess[p]
        /\ \A d \in Clients : cli'[d].obj \in {o, None} \/ (cli'[d].obj = cli[d].obj /\ cli'[d].key = cli[d].key)
        /\ \A d \in Clients : cli[d].obj # o /\ cli[d].obj # None => cli'[d].obj = cli[d].obj
        /\ \A d \in Clients : cli'[d].pc = "away" => cli'[d].obj = None
    BY <1>1, <1>2, <1>3, <2>2, <2>4, <2>5
  <2> QED
    BY <2>8, <2>9, SweepAttached
<1>6. ASSUME NEW o \in Objs, Takes(c, o, sess[o]), Joins(c, o) PROVE AttachInv'
  <2>1. /\ sess[o].active = Cardinality(Attached(o)) /\ sess[o].stored /\ sess[o].key = "shared"
        /\ cli[c].key = "shared" /\ o \notin removeExpiredLocked /\ sess[o] \in SessType
    BY <1>t, <1>6 DEF Joins, Stored, AttachInv
  <2>2. \A d \in Clients : cli[d].obj = o => cli[d].key = sess[o].key
    BY <1>t DEF AttachInv
  <2>3. \A p \in Stored \ (removeExpiredLocked \cup {o}) : sess[p].key # "shared"
    BY <1>6, <2>1 DEF AttachInv, Joins
  <2> QED
    BY <1>5, <1>6, <2>1, <2>2, <2>3
<1>7. ASSUME NEW o \in Objs, Takes(c, o, Fresh(c)), Opens(c, o) PROVE AttachInv'
  <2>1. Fresh(c) \in SessType /\ Fresh(c).active = 0 /\ Fresh(c).stored /\ Fresh(c).key = cli[c].key
    BY <1>t, Blank DEF SessType, NoSess, CliType, Fresh
  <2>2. o \notin removeExpiredLocked /\ \A d \in Clients : cli[d].obj # o
    BY <1>7 DEF Opens, removeExpiredLocked, Stored
  <2>3. Attached(o) = {} /\ Attached(o) \in SUBSET Clients
    BY <2>2 DEF Attached
  <2>4. Cardinality(Attached(o)) = 0
    BY <2>3, Counting
  <2>5. Fresh(c).key = "shared" => \A p \in Stored \ (removeExpiredLocked \cup {o}) : sess[p].key # "shared"
    BY <1>7, <2>1 DEF Opens
  <2> QED
    BY <1>5, <1>7, <2>1, <2>2, <2>4, <2>5
<1> QED
  BY <1>4, <1>6, <1>7, AcquireIs

LEMMA ReleaseAttached ==
    ASSUME SafeInv, AttachInv, NEW c \in Clients, Release(c)
    PROVE  AttachInv'
<1>t. /\ cli \in [Clients -> CliType] /\ cli[c] \in CliType /\ sess \in [Objs -> SessType] /\ Equipped
      /\ None \notin Objs /\ Away.obj = None
  BY SessionsAssumption DEF SafeInv, Typed, TypeOK, None, Objs, Away
<1>1. cli[c].pc = "leave" /\ cli[c].obj \in Objs
  BY <1>t DEF Release, Equipped
<1>2. PICK o \in Objs : o = cli[c].obj
  BY <1>1
<1>3. /\ sess[o].stored /\ sess[o].key = cli[c].key /\ sess[o].active = Cardinality(Attached(o)) /\ sess[o] \in SessType
      /\ \A d \in Clients : cli[d].obj = o => cli[d].key = sess[o].key
      /\ \A p \in Stored : sess[o].key = "shared" /\ sess[p].key = "shared" => p = o
  BY <1>t, <1>2 DEF AttachInv, Stored
<1> DEFINE gone == sess[o].key = "private" /\ sess[o].active = 1
           kept == [sess[o] EXCEPT !.active = @ - 1, !.idle = 0]
           s == IF gone THEN NoSess ELSE kept
<1>4. sess' = [sess EXCEPT ![o] = s]
  <2>1. CASE gone
    BY <1>2, <1>3, <2>1 DEF Release, Forgotten
  <2>2. CASE ~ gone
    BY <1>2, <1>3, <2>2 DEF Release
  <2> QED
    BY <2>1, <2>2
<1>5. /\ c \in Attached(o) /\ Attached(o) \in SUBSET Clients /\ Attached(o) \ {c} \in SUBSET Clients /\ Attached(o) # {}
  BY <1>2 DEF Attached
<1>6. /\ Cardinality(Attached(o)) \in Nat /\ Cardinality(Attached(o)) >= 1
      /\ Cardinality(Attached(o) \ {c}) = Cardinality(Attached(o)) - 1
      /\ Cardinality(Attached(o) \ {c}) = 0 => Attached(o) \ {c} = {}
  <2>1. Attached(o) \ {c} # {} => Cardinality(Attached(o) \ {c}) >= 1
    BY <1>5, Counting
  <2> QED
    BY <1>5, <2>1, Counting
<1>7. cli'[c] = Away /\ \A d \in Clients \ {c} : cli'[d] = cli[d]
  BY <1>t DEF Release
<1>8. Attached(o)' = Attached(o) \ {c}
  BY <1>t, <1>2, <1>7 DEF Attached
<1>9. /\ kept.active = sess[o].active - 1 /\ kept.key = sess[o].key /\ kept.stored
      /\ NoSess.active = 0 /\ ~ NoSess.stored
  BY <1>3 DEF SessType, NoSess
<1> HIDE DEF kept
<1>10. sess'[o] = s /\ \A p \in Objs \ {o} : sess'[p] = sess[p]
  BY <1>t, <1>4
<1>11. s.active = Cardinality(Attached(o)') /\ (gone => Attached(o)' = {})
  BY <1>3, <1>6, <1>8, <1>9
<1>12. \A d \in Clients : cli'[d].obj = o => d \in Attached(o)' /\ cli'[d] = cli[d]
  BY <1>t, <1>7 DEF Attached
<1>13. /\ \A d \in Clients : cli'[d].obj = o => s.stored /\ s.key = cli'[d].key
       /\ s.stored => ~ gone /\ s.key = sess[o].key
  BY <1>3, <1>9, <1>11, <1>12
<1>14. s.stored /\ s.key = "shared" => \A p \in Stored \ {o} : sess[p].key # "shared"
  BY <1>3, <1>13
<1>15. s.stored /\ s.key = "private" => s.active > 0
  BY <1>3, <1>6, <1>9, <1>13
<1>16. /\ \A d \in Clients : cli'[d].obj \in {o, None} \/ (cli'[d].obj = cli[d].obj /\ cli'[d].key = cli[d].key)
       /\ \A d \in Clients : cli[d].obj # o /\ cli[d].obj # None => cli'[d].obj = cli[d].obj
       /\ \A d \in Clients : cli'[d].pc = "away" => cli'[d].obj = None
  BY <1>t, <1>2, <1>7 DEF AttachInv
<1> HIDE DEF s
<1> DEFINE none == {}
<1>17. none \subseteq removeExpiredLocked /\ \A p \in Objs \ {o} : sess'[p] = IF p \in none THEN NoSess ELSE sess[p]
  BY <1>10
<1>18. sess'[o].stored /\ sess'[o].key = "shared" => \A p \in Stored \ (none \cup {o}) : sess[p].key # "shared"
  BY <1>10, <1>14
<1>19. /\ sess'[o].active = Cardinality(Attached(o)')
       /\ \A d \in Clients : cli'[d].obj = o => sess'[o].stored /\ sess'[o].key = cli'[d].key
       /\ sess'[o].stored /\ sess'[o].key = "private" => sess'[o].active > 0
  BY <1>10, <1>11, <1>13, <1>15
<1> HIDE DEF none
<1> QED
  BY <1>16, <1>17, <1>18, <1>19, SweepAttached

LEMMA TimeAttached ==
    ASSUME SafeInv, AttachInv, Cleanup \/ TimePasses
    PROVE  AttachInv'
<1>t. /\ cli \in [Clients -> CliType] /\ sess \in [Objs -> SessType] /\ None \notin Objs
      /\ \A d \in Clients : cli[d].obj \in Objs \cup {None}
  BY SessionsAssumption DEF SafeInv, Typed, TypeOK, None, Objs, CliType
<1>1. cli' = cli
  BY DEF Cleanup, TimePasses
<1>2. \A d \in Clients : cli[d].pc = "away" => cli[d].obj = None
  BY DEF AttachInv
<1>3. CASE Cleanup
  <2>1. \A p \in Objs : Swept[p] = IF p \in removeExpiredLocked THEN NoSess ELSE sess[p]
    BY SweptIs
  <2>2. sess' = Swept
    BY <1>3 DEF Cleanup
  <2>3. /\ None \in Objs \cup {None}
        /\ \A p \in Objs \ {None} : sess'[p] = IF p \in removeExpiredLocked THEN NoSess ELSE sess[p]
        /\ \A d \in Clients : cli'[d].obj \in {None, None} \/ (cli'[d].obj = cli[d].obj /\ cli'[d].key = cli[d].key)
        /\ \A d \in Clients : cli[d].obj # None /\ cli[d].obj # None => cli'[d].obj = cli[d].obj
        /\ \A d \in Clients : cli'[d].pc = "away" => cli'[d].obj = None
    BY <1>1, <1>2, <2>1, <2>2
  <2> QED
    BY <1>t, <2>3, SweepAttached
<1>4. CASE TimePasses
  <2>1. \A o \in Objs : sess'[o].active = sess[o].active /\ sess'[o].stored = sess[o].stored /\ sess'[o].key = sess[o].key
    BY <1>t, <1>4 DEF TimePasses, SessType
  <2> QED
    BY <1>t, <1>1, <1>2, <2>1, AttachFrame
<1> QED
  BY <1>3, <1>4

-------------------------------------------------------------------------------
(* The specification.                                                        *)

SessionsInv == SafeInv /\ AttachInv

LEMMA SessionsInit ==
    ASSUME Init
    PROVE  SessionsInv
<1>1. TypeOK
  BY Blank, SessionsAssumption DEF Init, TypeOK
<1>2. /\ \A c \in Clients : cli[c] = Away /\ cli[c].pc = "away" /\ cli[c].obj = None
      /\ \A o \in Objs : /\ strm[o].st = "off" /\ ~ strm[o].body
                         /\ sock[o] = Closed /\ sess[o].active = 0 /\ ~ sess[o].stored
  BY DEF Init, Away, NoStream, NoSess
<1>3. Equipped
  BY <1>2 DEF Equipped, Working
<1>4. OneOnSocket /\ PipeRead
  BY <1>2 DEF OneOnSocket, PipeRead
<1>5. KeptSocketIsQuiet
  BY <1>2, QuietSockets DEF KeptSocketIsQuiet
<1>6. \A o \in Objs : InOrder(sock[o]) /\ (strm[o].st = "redial" => ~ sock[o].open)
  BY <1>2, QuietSockets
<1>7. AttachInv
  <2>1. None \notin Objs
    BY SessionsAssumption DEF None, Objs
  <2>2. \A o \in Objs : Attached(o) = {}
    BY <1>2, <2>1 DEF Attached
  <2>3. Cardinality({}) = 0
    BY FS_EmptySet
  <2>4. Stored = {}
    BY <1>2 DEF Stored
  <2> QED
    BY <1>2, <2>2, <2>3, <2>4 DEF AttachInv, NoIdleTransient
<1> QED
  BY <1>1, <1>3, <1>4, <1>5, <1>6, <1>7 DEF SessionsInv, SafeInv, SocketInv, Typed

LEMMA SessionsNext ==
    ASSUME SessionsInv, Next
    PROVE  SessionsInv'
<1>t. SafeInv /\ AttachInv
  BY DEF SessionsInv
<1>f. faults' \in 0..MaxFaults
  <2>1. faults \in 0..MaxFaults /\ MaxFaults \in Nat
    BY <1>t, SessionsAssumption DEF SafeInv, Typed, TypeOK
  <2>2. faults' = faults \/ (faults < MaxFaults /\ faults' = faults + 1)
    BY DEF Next, Fault
  <2> QED
    BY <2>1, <2>2
<1>1. ASSUME NEW c \in Clients, Acquire(c) PROVE SessionsInv'
  BY <1>t, <1>f, <1>1, AcquireSafe, AcquireAttached DEF SessionsInv
<1>2. ASSUME NEW c \in Clients, Release(c) PROVE SessionsInv'
  BY <1>t, <1>f, <1>2, ReleaseSafe, ReleaseAttached DEF SessionsInv
<1>3. ASSUME NEW c \in Clients, BeginTurn(c) PROVE SessionsInv'
  BY <1>t, <1>f, <1>3, BeginTurnSafe, TurnAttached DEF SessionsInv
<1>4. ASSUME NEW c \in Clients, GiveUp(c) \/ Prewarm(c) \/ Commit(c) \/ Interrupted(c) PROVE SessionsInv'
  BY <1>t, <1>f, <1>4, TurnEndsSafe, TurnAttached DEF SessionsInv
<1>5. ASSUME NEW c \in Clients, Connect(c) \/ Message(c) \/ HttpDone(c) \/ HttpFails(c) PROVE SessionsInv'
  BY <1>t, <1>f, <1>5, ConnectSafe, ClientAttached DEF SessionsInv
<1>6. ASSUME NEW c \in Clients, Attempt(c) PROVE SessionsInv'
  BY <1>t, <1>f, <1>6, AttemptSafe, ClientAttached DEF SessionsInv
<1>7. ASSUME NEW c \in Clients, RoundTrip(c) PROVE SessionsInv'
  BY <1>t, <1>f, <1>7, RoundTripSafe, ClientAttached DEF SessionsInv
<1>8. ASSUME NEW c \in Clients, Dial(c) PROVE SessionsInv'
  BY <1>t, <1>f, <1>8, DialSafe, ClientAttached DEF SessionsInv
<1>9. ASSUME NEW c \in Clients, CancelAttempt(c) PROVE SessionsInv'
  BY <1>t, <1>f, <1>9, CancelAttemptSafe, ClientAttached DEF SessionsInv
<1>10. ASSUME NEW c \in Clients, ClientGone(c) PROVE SessionsInv'
  BY <1>t, <1>f, <1>10, ClientGoneSafe, ClientAttached DEF SessionsInv
<1>11. ASSUME NEW c \in Clients, CloseBody(c) PROVE SessionsInv'
  BY <1>t, <1>f, <1>11, CloseBodySafe, ClientAttached DEF SessionsInv
<1>12. ASSUME NEW o \in Objs, StreamRead(o) PROVE SessionsInv'
  BY <1>t, <1>f, <1>12, StreamReadSafe, SocketAttached DEF SessionsInv
<1>13. ASSUME NEW o \in Objs, ReconnectWithReplay(o) PROVE SessionsInv'
  BY <1>t, <1>f, <1>13, ReconnectSafe, SocketAttached DEF SessionsInv
<1>14. ASSUME NEW o \in Objs, UpstreamFrame(o) PROVE SessionsInv'
  BY <1>t, <1>f, <1>14, UpstreamFrameSafe, SocketAttached DEF SessionsInv
<1>15. ASSUME NEW o \in Objs, ReadFails(o) \/ detachReadFailure(o) \/ expireConnection(o) PROVE SessionsInv'
  BY <1>t, <1>f, <1>15, ReaderSafe, SocketAttached DEF SessionsInv
<1>16. CASE Cleanup \/ TimePasses
  BY <1>t, <1>f, <1>16, SweepSafe, TimeAttached DEF SessionsInv
<1> QED
  BY <1>1, <1>2, <1>3, <1>4, <1>5, <1>6, <1>7, <1>8, <1>9, <1>10, <1>11, <1>12, <1>13, <1>14, <1>15, <1>16
     DEF Next, Handler, Stream, Fault

LEMMA SessionsStutter ==
    ASSUME SessionsInv, UNCHANGED vars
    PROVE  SessionsInv'
<1>1. SafeInv'
  <2>1. SocketInv'
    BY DEF SessionsInv, SafeInv, SocketInv, OneOnSocket, PipeRead, InOrder, KeptSocketIsQuiet, turnMuFree, vars
  <2> QED
    BY <2>1 DEF SessionsInv, SafeInv, Typed, TypeOK, Equipped, vars
<1>2. AttachInv'
  BY AttachFrame DEF SessionsInv, SafeInv, Typed, TypeOK, CliType, AttachInv, vars
<1> QED
  BY <1>1, <1>2 DEF SessionsInv

\* The inductive invariant: the types, what the holder of turnMu leaves of a
\* socket, and the attachments of the session store (responsesExecutionSession
\* and codexUpstreamWebsocket).
THEOREM SessionsInvariant == Spec => []SessionsInv
<1>1. Init => SessionsInv
  BY SessionsInit
<1>2. SessionsInv /\ [Next]_vars => SessionsInv'
  BY SessionsNext, SessionsStutter
<1> QED
  BY <1>1, <1>2, PTL DEF Spec

\* The state is well typed; in particular active never falls below zero and a
\* handler's session object exists.
THEOREM SessionsTypeInvariant == Spec => []TypeOK
<1>1. SessionsInv => TypeOK
  BY DEF SessionsInv, SafeInv, Typed
<1> QED
  BY <1>1, SessionsInvariant, PTL

\* A socket that the goroutine of streamResponse left for the next turn has no
\* request in progress and no frame but its reader's failure, so roundTrip can
\* never hand a turn the answer to an earlier one.
THEOREM SessionsKeptSocketIsQuiet == Spec => []KeptSocketIsQuiet
<1>1. SessionsInv => KeptSocketIsQuiet
  BY DEF SessionsInv, SafeInv, SocketInv
<1> QED
  BY <1>1, SessionsInvariant, PTL

\* acquire, release and cleanup keep the clients of one Session-Id on one
\* session object, and leave no transient session without a client.
THEOREM SessionsOneSession == Spec => []OneSession
<1>1. ASSUME SessionsInv PROVE OneSession
  <2>1. AttachInv /\ \A c \in Clients : cli[c].obj \in Objs \cup {None}
    BY <1>1 DEF SessionsInv, SafeInv, Typed, TypeOK, CliType
  <2>2. ASSUME NEW c \in Clients, NEW d \in Clients, cli[c].obj # None, cli[d].obj # None,
               cli[c].key = "shared", cli[d].key = "shared"
        PROVE  cli[c].obj = cli[d].obj
    <3>1. /\ cli[c].obj \in Stored /\ sess[cli[c].obj].key = "shared"
          /\ cli[d].obj \in Stored /\ sess[cli[d].obj].key = "shared"
      BY <2>1, <2>2 DEF AttachInv, Stored
    <3> QED
      BY <2>1, <3>1 DEF AttachInv
  <2> QED
    BY <2>1, <2>2 DEF OneSession, AttachInv
<1> QED
  BY <1>1, SessionsInvariant, PTL

(* Context.  A response answers the conversation all when it was built from  *)
(* its end, from the start or from a turn of names on.                        *)

Whole(names, all, r) ==
    \E i \in DOMAIN all : (i = 1 \/ all[i] \in names) /\ r = SubSeq(all, i, Len(all))

\* The request of the turn a conversation ends with, after response prev.
Newest(all) == all[Len(all)]
Built(all, prev) == IF prev = NoId THEN <<Newest(all)>> ELSE Append(prev, Newest(all))

Trying == {"try", "lock", "dial", "http", "body", "closing", "cutoff"}

SessWhole(names, s) == s.last # NoId => Whole(names, s.items, s.last)
TurnWhole(names, h) ==
    /\ h.pc \in Trying => Whole(names, h.replay, Built(h.replay, h.prev))
    /\ h.pc = "done" => Whole(names, h.replay, h.got)
AnswersWhole(names, k, all) ==
    /\ k.asked => k.ctx = Missing \/ Whole(names, all, k.ctx)
    /\ \A i \in DOMAIN k.reads : k.reads[i].kind = "completed" => Whole(names, all, k.reads[i].resp)
StreamWhole(names, g, k) ==
    /\ g.st # "off" => g.replay # <<>>
    /\ g.st = "read" => AnswersWhole(names, k, g.replay)

\* The goroutine replays what the handler at its pipe asked for.
SameRequest == \A o \in Objs : strm[o].body => strm[o].st # "off" /\ strm[o].replay = cli[strm[o].by].replay

ContextInv ==
    /\ \A o \in Objs : SessWhole(nameless, sess[o])
    /\ \A c \in Clients : TurnWhole(nameless, cli[c])
    /\ \A o \in Objs : StreamWhole(nameless, strm[o], sock[o])
    /\ SameRequest

LEMMA WholeKept ==
    ASSUME NEW N, NEW M, N \subseteq M, NEW all, NEW r, Whole(N, all, r)
    PROVE  Whole(M, all, r)
BY DEF Whole

\* The whole conversation, the last turn alone, and a response continued.
LEMMA WholeItself ==
    ASSUME NEW names, NEW all \in Items, all # <<>>
    PROVE  Whole(names, all, all)
<1>1. 1 \in DOMAIN all /\ SubSeq(all, 1, Len(all)) = all
  BY DEF Items
<1> QED
  BY <1>1 DEF Whole

LEMMA WholeAlone ==
    ASSUME NEW names, NEW all \in Items, NEW t \in Nat, all = <<>> \/ t \in names
    PROVE  Whole(names, Append(all, t), <<t>>)
<1> DEFINE more == Append(all, t)
           n == Len(all) + 1
<1>1. more \in Seq(Nat) /\ Len(more) = n /\ more[n] = t /\ n \in DOMAIN more /\ n \in Nat
  BY DEF Items
<1>2. SubSeq(more, n, Len(more)) = <<t>>
  <2> HIDE DEF more, n
  <2>1. SubSeq(more, n, n) = SubSeq(more, n, n - 1) \o <<more[n]>>
    BY <1>1, SubSeqRecursiveSecond
  <2>2. SubSeq(more, n, n - 1) = <<>>
    BY <1>1, SubSeqEmpty
  <2>3. <<>> \o <<t>> = <<t>>
    OBVIOUS
  <2> QED
    BY <1>1, <2>1, <2>2, <2>3
<1>3. n = 1 \/ more[n] \in names
  <2>1. all = <<>> => n = 1
    OBVIOUS
  <2> QED
    BY <1>1, <2>1
<1> QED
  BY <1>1, <1>2, <1>3 DEF Whole

LEMMA WholeContinues ==
    ASSUME NEW names, NEW all \in Items, NEW r, Whole(names, all, r), NEW t \in Nat
    PROVE  Whole(names, Append(all, t), Append(r, t))
<1>1. PICK i \in DOMAIN all : (i = 1 \/ all[i] \in names) /\ r = SubSeq(all, i, Len(all))
  BY DEF Whole
<1> DEFINE more == Append(all, t)
           n == Len(all) + 1
<1>2. /\ all \in Seq(Nat) /\ i \in 1..Len(all) /\ more \in Seq(Nat) /\ Len(more) = n
      /\ \A j \in 1..Len(all) : more[j] = all[j]
      /\ more[n] = t /\ Len(all) \in Nat
  BY DEF Items
<1>3. i \in DOMAIN more /\ more[i] = all[i]
  BY <1>2
<1>4. SubSeq(more, i, Len(more)) = Append(r, t)
  <2> HIDE DEF more, n
  <2>i. i \in Nat /\ i <= Len(all) /\ 1 <= i /\ n - 1 = Len(all) /\ n \in Nat
    BY <1>2 DEF n
  <2>1. r \in Seq(Nat)
    <3>1. \A j \in i..Len(all) : all[j] \in Nat
      BY <1>2, <2>i
    <3> QED
      BY <1>1, <1>2, <2>i, <3>1, SubSeqProperties
  <2>2. SubSeq(more, i, n) = SubSeq(more, i, n - 1) \o <<more[n]>>
    <3>1. i \in 1..Len(more) /\ n \in i..Len(more)
      BY <1>2, <2>i
    <3> QED
      BY <1>2, <3>1, SubSeqRecursiveSecond
  <2>3. SubSeq(more, i, n - 1) = r
    <3>1. more = all \o <<t>> /\ <<t>> \in Seq(Nat)
      BY <1>2, AppendIsConcat DEF more
    <3>2. SubSeq(all \o <<t>>, i, Len(all)) = SubSeq(all, i, Len(all))
      <4>1. i \in 1..Len(all) /\ Len(all) \in 1..Len(all)
        BY <1>2
      <4> QED
        BY <1>2, <3>1, <4>1, SubSeqOfConcat1
    <3> QED
      BY <1>1, <2>i, <3>1, <3>2
  <2>4. Append(r, t) = r \o <<t>>
    BY <2>1, AppendIsConcat
  <2> QED
    BY <1>2, <2>2, <2>3, <2>4
<1> HIDE DEF more
<1> QED
  BY <1>1, <1>3, <1>4 DEF Whole, more

\* What the upstream makes of the request of a turn.
LEMMA ContextWhole ==
    ASSUME NEW names, NEW h, TurnWhole(names, h), h.pc \in Trying, NEW known
    PROVE  LET r == Context(known, h.prev, Newest(h.replay)) IN r = Missing \/ Whole(names, h.replay, r)
BY DEF TurnWhole, Built, Context

-------------------------------------------------------------------------------
(* Context is preserved.                                                     *)

Continued(h, g) ==
    /\ g.replay = h.replay /\ g.prev = h.prev /\ g.got = h.got
    /\ g.pc \in Trying => h.pc \in Trying
    /\ g.pc = "done" => h.pc = "done"

LEMMA ContextStep ==
    ASSUME ContextInv, nameless \subseteq nameless', SameRequest',
           \A o \in Objs : \/ SessWhole(nameless', sess'[o])
                           \/ sess'[o].items = sess[o].items /\ sess'[o].last = sess[o].last,
           \A c \in Clients : TurnWhole(nameless', cli'[c]) \/ Continued(cli[c], cli'[c]),
           \A o \in Objs : \/ StreamWhole(nameless', strm'[o], sock'[o])
                           \/ /\ strm'[o].st = strm[o].st /\ strm'[o].replay = strm[o].replay
                              /\ sock'[o] \in {sock[o], Closed}
    PROVE  ContextInv'
<1>1. \A o \in Objs : SessWhole(nameless', sess'[o])
  BY WholeKept DEF ContextInv, SessWhole
<1>2. \A c \in Clients : TurnWhole(nameless', cli'[c])
  <2> SUFFICES ASSUME NEW c \in Clients, Continued(cli[c], cli'[c]) PROVE TurnWhole(nameless', cli'[c])
    OBVIOUS
  <2>1. TurnWhole(nameless, cli[c])
    BY DEF ContextInv
  <2>2. ASSUME cli'[c].pc \in Trying PROVE Whole(nameless', cli'[c].replay, Built(cli'[c].replay, cli'[c].prev))
    BY <2>1, <2>2, WholeKept DEF TurnWhole, Continued
  <2>3. ASSUME cli'[c].pc = "done" PROVE Whole(nameless', cli'[c].replay, cli'[c].got)
    BY <2>1, <2>3, WholeKept DEF TurnWhole, Continued
  <2> QED
    BY <2>2, <2>3 DEF TurnWhole
<1>3. \A o \in Objs : StreamWhole(nameless', strm'[o], sock'[o])
  <2> SUFFICES ASSUME NEW o \in Objs, strm'[o].st = strm[o].st, strm'[o].replay = strm[o].replay,
                      sock'[o] \in {sock[o], Closed}
               PROVE  StreamWhole(nameless', strm'[o], sock'[o])
    OBVIOUS
  <2>1. StreamWhole(nameless, strm[o], sock[o])
    BY DEF ContextInv
  <2>2. AnswersWhole(nameless, sock[o], strm[o].replay) => AnswersWhole(nameless', sock[o], strm[o].replay)
    BY WholeKept DEF AnswersWhole
  <2>3. AnswersWhole(nameless', Closed, strm[o].replay)
    BY DEF AnswersWhole, Closed
  <2> QED
    BY <2>1, <2>2, <2>3 DEF StreamWhole
<1> QED
  BY <1>1, <1>2, <1>3 DEF ContextInv

LEMMA RequestKept ==
    ASSUME SafeInv, SameRequest,
           \A o \in Objs : strm'[o].body => /\ strm[o].body /\ strm'[o].by = strm[o].by
                                            /\ strm'[o].replay = strm[o].replay /\ strm'[o].st # "off",
           \A c \in Clients : cli[c].pc = "body" => cli'[c].replay = cli[c].replay
    PROVE  SameRequest'
<1>1. \A o \in Objs : strm[o].body => strm[o].by \in Clients /\ cli[strm[o].by].pc = "body"
  BY DEF SafeInv, SocketInv, PipeRead
<1> QED
  BY <1>1 DEF SameRequest

\* A handler that does not read moves, the goroutines do not.
LEMMA HandlerContext ==
    ASSUME SafeInv, ContextInv, NEW c \in Clients, cli[c].pc # "body", strm' = strm, nameless \subseteq nameless',
           \A o \in Objs : sock'[o] \in {sock[o], Closed},
           \A d \in Clients \ {c} : cli'[d] = cli[d],
           TurnWhole(nameless', cli'[c]) \/ Continued(cli[c], cli'[c]),
           \A o \in Objs : \/ SessWhole(nameless', sess'[o])
                           \/ sess'[o].items = sess[o].items /\ sess'[o].last = sess[o].last
    PROVE  ContextInv'
<1>1. SameRequest'
  <2>1. \A o \in Objs : strm[o].body => strm[o].st # "off"
    BY DEF ContextInv, SameRequest
  <2> QED
    BY <2>1, RequestKept DEF ContextInv
<1>2. \A d \in Clients : TurnWhole(nameless', cli'[d]) \/ Continued(cli[d], cli'[d])
  BY DEF Continued
<1> QED
  BY <1>1, <1>2, ContextStep

\* What is left of a forgotten session, and of one that was swept.
LEMMA ForgottenContext ==
    ASSUME SafeInv, NEW names
    PROVE  /\ \A o \in Objs, n \in Int : \/ SessWhole(names, Forgotten(o, n))
                                         \/ /\ Forgotten(o, n).items = sess[o].items
                                            /\ Forgotten(o, n).last = sess[o].last
           /\ \A o \in Objs : \/ SessWhole(names, Swept[o])
                              \/ Swept[o].items = sess[o].items /\ Swept[o].last = sess[o].last
           /\ \A o \in Objs : SweptSockets[o] \in {sock[o], Closed}
           /\ SessWhole(names, NoSess)
<1>1. SessWhole(names, NoSess)
  BY DEF SessWhole, NoSess
<1>2. ASSUME NEW o \in Objs, NEW n \in Int
      PROVE  \/ SessWhole(names, Forgotten(o, n))
             \/ Forgotten(o, n).items = sess[o].items /\ Forgotten(o, n).last = sess[o].last
  <2>1. sess[o] \in SessType
    BY DEF SafeInv, Typed, TypeOK
  <2> QED
    BY <1>1, <2>1 DEF Forgotten, SessType
<1>3. ASSUME NEW o \in Objs
      PROVE  \/ SessWhole(names, Swept[o])
             \/ Swept[o].items = sess[o].items /\ Swept[o].last = sess[o].last
  <2>1. sess[o].active \in Int
    BY DEF SafeInv, Typed, TypeOK, SessType
  <2> QED
    BY <1>2, <2>1 DEF Swept
<1>4. \A o \in Objs : SweptSockets[o] \in {sock[o], Closed}
  BY DEF SweptSockets
<1> QED
  BY <1>1, <1>2, <1>3, <1>4

LEMMA AcquireContext ==
    ASSUME SafeInv, ContextInv, NEW c \in Clients, Acquire(c)
    PROVE  ContextInv'
<1>t. cli \in [Clients -> CliType] /\ cli[c] \in CliType /\ sess \in [Objs -> SessType]
  BY DEF SafeInv, Typed, TypeOK
<1>1. /\ cli[c].pc = "ready" /\ sock' = SweptSockets /\ UNCHANGED <<strm, seen, turns, nameless>>
      /\ \/ Refused(c)
         \/ \E o \in Objs : Takes(c, o, sess[o])
         \/ \E o \in Objs : Takes(c, o, Fresh(c))
  BY AcquireIs
<1>2. \A d \in Clients \ {c} : cli'[d] = cli[d]
  BY <1>t, <1>1 DEF Refused, Takes
<1>3. Continued(cli[c], cli'[c]) \/ TurnWhole(nameless', cli'[c])
  <2>1. CASE Refused(c)
    <3>1. cli'[c] = cli[c] \/ cli'[c] = Away
      BY <1>t, <2>1 DEF Refused
    <3>2. TurnWhole(nameless', Away)
      BY DEF TurnWhole, Away, Trying
    <3> QED
      BY <3>1, <3>2 DEF Continued
  <2>2. ASSUME NEW o \in Objs, NEW s, Takes(c, o, s) PROVE Continued(cli[c], cli'[c])
    <3>1. cli'[c] = [cli[c] EXCEPT !.obj = o, !.pc = "turn"]
      BY <1>t, <2>2 DEF Takes
    <3> QED
      BY <1>t, <3>1 DEF CliType, Continued, Trying
  <2> QED
    BY <1>1, <2>1, <2>2
<1>4. ASSUME NEW p \in Objs
      PROVE  \/ SessWhole(nameless', sess'[p])
             \/ sess'[p].items = sess[p].items /\ sess'[p].last = sess[p].last
  <2>1. CASE sess'[p] = Swept[p]
    BY <2>1, ForgottenContext
  <2>2. ASSUME NEW s \in {sess[p], Fresh(c)}, sess'[p] = [s EXCEPT !.active = @ + 1, !.idle = 0]
        PROVE  \/ SessWhole(nameless', sess'[p])
               \/ sess'[p].items = sess[p].items /\ sess'[p].last = sess[p].last
    <3>1. CASE s = sess[p]
      BY <1>t, <2>2, <3>1 DEF SessType
    <3>2. CASE s = Fresh(c)
      <4>1. sess'[p].last = NoId
        BY <2>2, <3>2 DEF Fresh, NoSess
      <4> QED
        BY <4>1 DEF SessWhole
    <3> QED
      BY <2>2, <3>1, <3>2
  <2>3. DOMAIN Swept = Objs
    BY DEF Swept
  <2>4. \/ sess'[p] = Swept[p]
        \/ \E s \in {sess[p], Fresh(c)} : sess'[p] = [s EXCEPT !.active = @ + 1, !.idle = 0]
    BY <1>1, <2>3 DEF Refused, Takes
  <2> QED
    BY <2>1, <2>2, <2>4
<1>5. \A o \in Objs : sock'[o] \in {sock[o], Closed}
  BY <1>1, ForgottenContext
<1> QED
  BY <1>1, <1>2, <1>3, <1>4, <1>5, HandlerContext

LEMMA ReleaseContext ==
    ASSUME SafeInv, ContextInv, NEW c \in Clients, Release(c)
    PROVE  ContextInv'
<1>t. cli \in [Clients -> CliType] /\ sess \in [Objs -> SessType] /\ sock \in [Objs -> SockType]
      /\ cli[c].obj \in Objs
  BY DEF SafeInv, Typed, TypeOK, Equipped, Release
<1>1. /\ cli[c].pc = "leave" /\ cli'[c] = Away /\ (\A d \in Clients \ {c} : cli'[d] = cli[d])
      /\ UNCHANGED <<strm, nameless>>
  BY <1>t DEF Release
<1>2. \A o \in Objs : sock'[o] \in {sock[o], Closed}
  BY <1>t DEF Release, closeLocked
<1>3. TurnWhole(nameless', cli'[c])
  BY <1>1 DEF TurnWhole, Away, Trying
<1>4. ASSUME NEW p \in Objs
      PROVE  \/ SessWhole(nameless', sess'[p])
             \/ sess'[p].items = sess[p].items /\ sess'[p].last = sess[p].last
  <2>1. \/ sess'[p] = sess[p]
        \/ sess'[p] = Forgotten(p, sess[p].active - 1)
        \/ sess'[p] = [sess[p] EXCEPT !.active = @ - 1, !.idle = 0]
    BY <1>t DEF Release
  <2>2. sess[p] \in SessType /\ sess[p].active - 1 \in Int
    BY <1>t DEF SessType
  <2>3. CASE sess'[p] = [sess[p] EXCEPT !.active = @ - 1, !.idle = 0]
    BY <2>2, <2>3 DEF SessType
  <2>4. CASE sess'[p] = Forgotten(p, sess[p].active - 1)
    <3> DEFINE n == sess[p].active - 1
    <3>1. n \in Int /\ sess'[p] = Forgotten(p, n)
      BY <2>2, <2>4
    <3> HIDE DEF n
    <3> QED
      BY <3>1, ForgottenContext
  <2> QED
    BY <2>1, <2>3, <2>4
<1> QED
  BY <1>1, <1>2, <1>3, <1>4, HandlerContext

LEMMA SweepContext ==
    ASSUME SafeInv, ContextInv, Cleanup \/ TimePasses
    PROVE  ContextInv'
<1>t. sess \in [Objs -> SessType] /\ sock \in [Objs -> SockType]
  BY DEF SafeInv, Typed, TypeOK
<1>1. UNCHANGED <<strm, cli, nameless>>
  BY DEF Cleanup, TimePasses
<1>2. \A o \in Objs : sock'[o] \in {sock[o], Closed}
  BY ForgottenContext DEF Cleanup, TimePasses
<1>3. ASSUME NEW p \in Objs
      PROVE  \/ SessWhole(nameless', sess'[p])
             \/ sess'[p].items = sess[p].items /\ sess'[p].last = sess[p].last
  <2>1. sess'[p] \in {sess[p], Swept[p], [sess[p] EXCEPT !.idle = @ + 1]}
    BY DEF Cleanup, TimePasses
  <2>2. CASE sess'[p] = [sess[p] EXCEPT !.idle = @ + 1]
    BY <1>t, <2>2 DEF SessType
  <2> QED
    BY <2>1, <2>2, ForgottenContext
<1>4. SameRequest'
  BY <1>1 DEF ContextInv, SameRequest
<1>5. \A d \in Clients : Continued(cli[d], cli'[d])
  BY <1>1 DEF Continued
<1> QED
  BY <1>1, <1>2, <1>3, <1>4, <1>5, ContextStep

LEMMA OutcomeContext ==
    ASSUME NEW h \in CliType, NEW pc \in {"try", "http", "broken", "done"}, NEW r, NEW names, h.pc \in Trying,
           pc = "done" => Whole(names, h.replay, r)
    PROVE  TurnWhole(names, Outcome(h, pc, r)) \/ Continued(h, Outcome(h, pc, r))
<1> DEFINE g == Outcome(h, pc, r)
<1>1. CASE pc \in {"try", "http"}
  <2>1. g = [h EXCEPT !.pc = pc]
    BY <1>1 DEF Outcome
  <2>2. g.replay = h.replay /\ g.prev = h.prev /\ g.got = h.got /\ g.pc = pc
    BY <2>1 DEF CliType
  <2> QED
    BY <1>1, <2>2 DEF Continued
<1>2. CASE pc \in {"done", "broken"}
  <2>1. g = [h EXCEPT !.pc = pc, !.got = r, !.prev = NoId, !.native = FALSE, !.target = None, !.att = 0]
    BY <1>2 DEF Outcome
  <2>2. g.replay = h.replay /\ g.got = r /\ g.pc = pc
    BY <2>1 DEF CliType
  <2> HIDE DEF g
  <2> QED
    BY <1>2, <2>2 DEF TurnWhole, Trying, g
<1> QED
  BY <1>1, <1>2

LEMMA ClientContext ==
    ASSUME SafeInv, ContextInv, NEW c \in Clients,
           Connect(c) \/ Message(c) \/ Attempt(c) \/ HttpDone(c) \/ HttpFails(c)
    PROVE  ContextInv'
<1>t. cli \in [Clients -> CliType] /\ cli[c] \in CliType /\ sock \in [Objs -> SockType]
  BY DEF SafeInv, Typed, TypeOK
<1>1. UNCHANGED <<sess, strm, nameless>> /\ (\A o \in Objs : sock'[o] \in {sock[o], Closed})
      /\ cli[c].pc # "body" /\ \A d \in Clients \ {c} : cli'[d] = cli[d]
  BY <1>t DEF Connect, Message, Attempt, HttpDone, HttpFails, closeLocked
<1>2. TurnWhole(nameless', cli'[c]) \/ Continued(cli[c], cli'[c])
  <2>1. CASE Connect(c)
    <3>1. cli'[c].pc = "ready"
      BY <1>t, <2>1 DEF Connect, Away
    <3> QED
      BY <3>1 DEF TurnWhole, Trying
  <2>2. CASE Message(c)
    <3>1. cli'[c].pc = "turn"
      BY <1>t, <2>2 DEF Message, CliType
    <3> QED
      BY <3>1 DEF TurnWhole, Trying
  <2>3. CASE Attempt(c)
    <3>1. \E pc \in {"lock", "http"} : \E t : cli'[c] = [cli[c] EXCEPT !.pc = pc, !.target = t, !.att = @ + 1]
      BY <1>t, <2>3 DEF Attempt
    <3>2. cli[c].pc = "try"
      BY <2>3 DEF Attempt
    <3> QED
      BY <1>t, <3>1, <3>2 DEF Continued, CliType, Trying
  <2>4. CASE HttpDone(c)
    <3>1. cli'[c] = Outcome(cli[c], "done", cli[c].replay) /\ cli[c].pc = "http"
      BY <1>t, <2>4 DEF HttpDone
    <3>2. cli[c].pc \in Working
      BY <3>1 DEF Working
    <3>3. Whole(nameless', cli[c].replay, cli[c].replay)
      BY <3>2, AtWork, WholeItself DEF SafeInv
    <3> QED
      BY <1>t, <3>1, <3>3, OutcomeContext DEF Trying
  <2>5. CASE HttpFails(c)
    <3>1. cli[c].pc = "http" /\ \E pc \in {"try", "broken"} : cli'[c] = Outcome(cli[c], pc, NoId)
      BY <1>t, <2>5 DEF HttpFails
    <3> QED
      BY <1>t, <3>1, OutcomeContext DEF Trying
  <2> QED
    BY <2>1, <2>2, <2>3, <2>4, <2>5
<1> QED
  BY <1>1, <1>2, HandlerContext

\* The end of a turn, with the session as it was or with what the turn commits.
LEMMA TurnEndsContext ==
    ASSUME SafeInv, ContextInv, NEW c \in Clients, GiveUp(c) \/ Prewarm(c) \/ Commit(c) \/ Interrupted(c)
    PROVE  ContextInv'
<1>t. cli \in [Clients -> CliType] /\ cli[c] \in CliType /\ sess \in [Objs -> SessType] /\ Typed
  BY DEF SafeInv, Typed, TypeOK
<1>1. cli[c].pc \in Working /\ cli[c].pc # "body" /\ UNCHANGED <<sock, strm, nameless>>
  BY DEF GiveUp, Prewarm, Commit, Interrupted, Working
<1> DEFINE o == cli[c].obj
<1>2. o \in Objs /\ cli[c].replay \in Items /\ cli[c].replay # <<>> /\ sess[o] \in SessType
  BY <1>t, <1>1, AtWork
<1>3. \E s : /\ \/ s = sess[o]
                \/ \E r : s = commit(o, cli[c].replay, r) /\ (r = NoId \/ Whole(nameless, cli[c].replay, r))
             /\ EndTurn(c, s) \/ EndTurnTo(c, s, "leave")
  <2>1. Whole(nameless, cli[c].replay, cli[c].replay)
    BY <1>2, WholeItself
  <2>2. cli[c].pc = "done" => Whole(nameless, cli[c].replay, cli[c].got)
    BY DEF ContextInv, TurnWhole
  <2> QED
    BY <2>1, <2>2 DEF GiveUp, Prewarm, Commit, Interrupted
<1>4. PICK s : /\ \/ s = sess[o]
                  \/ \E r : s = commit(o, cli[c].replay, r) /\ (r = NoId \/ Whole(nameless, cli[c].replay, r))
               /\ EndTurn(c, s) \/ EndTurnTo(c, s, "leave")
  BY <1>3
<1>5. PICK pc \in {"ready", "leave"} : EndTurnTo(c, s, pc)
  BY <1>4 DEF EndTurn
<1>6. TurnWhole(nameless', cli'[c]) /\ \A d \in Clients \ {c} : cli'[d] = cli[d]
  <2>1. cli'[c].pc = pc
    BY <1>t, <1>5 DEF EndTurnTo, Away
  <2> QED
    BY <1>t, <1>5, <2>1 DEF EndTurnTo, TurnWhole, Trying
<1>7. ASSUME NEW p \in Objs
      PROVE  \/ SessWhole(nameless', sess'[p])
             \/ sess'[p].items = sess[p].items /\ sess'[p].last = sess[p].last
  <2>1. CASE p # o
    BY <1>t, <1>5, <2>1 DEF EndTurnTo
  <2>2. CASE p = o
    <3>1. sess'[p] = [s EXCEPT !.turn = None]
      BY <1>t, <1>2, <1>5, <2>2 DEF EndTurnTo
    <3>2. CASE s = sess[o]
      BY <1>2, <2>2, <3>1, <3>2 DEF SessType
    <3>3. ASSUME NEW r, s = commit(o, cli[c].replay, r), r = NoId \/ Whole(nameless, cli[c].replay, r)
          PROVE  SessWhole(nameless', sess'[p])
      <4>1. sess'[p].items = cli[c].replay /\ sess'[p].last = r
        BY <1>2, <3>1, <3>3 DEF commit, SessType
      <4> QED
        BY <1>1, <3>3, <4>1 DEF SessWhole
    <3> QED
      BY <1>4, <3>2, <3>3
  <2> QED
    BY <2>1, <2>2
<1> QED
  BY <1>1, <1>6, <1>7, HandlerContext

\* The request of a new turn: the whole conversation with this turn at its end,
\* and for the incremental one a previous response that answers the rest.
LEMMA AskContext ==
    ASSUME SafeInv, ContextInv, NEW c \in Clients, NEW o \in Objs, NEW ask,
           nameless' = IF Continues(c, o, ask) /\ sess[o].last = NoId THEN nameless \cup {turns + 1} ELSE nameless
    PROVE  LET r == replayRequest(c, o, ask)
           IN  Whole(nameless', r, Built(r, incrementalPrevious(c, o, ask)))
<1> DEFINE t == turns + 1
           r == replayRequest(c, o, ask)
           p == incrementalPrevious(c, o, ask)
<1>1. t \in Nat /\ sess[o].items \in Items /\ sess[o].last \in Items
  BY DEF SafeInv, Typed, TypeOK, SessType
<1> HIDE DEF t
<1>2. ASSUME NEW all \in Items PROVE Newest(Append(all, t)) = t
  <2>1. Append(all, t) \in Seq(Nat) /\ Len(Append(all, t)) = Len(all) + 1 /\ Append(all, t)[Len(all) + 1] = t
    BY <1>1 DEF Items
  <2> QED
    BY <2>1 DEF Newest
<1>3. CASE Continues(c, o, ask) /\ sess[o].last # NoId
  <2>1. r = Append(sess[o].items, t) /\ p = sess[o].last /\ nameless' = nameless
    BY <1>3 DEF replayRequest, incrementalPrevious, t
  <2>2. Built(r, p) = Append(sess[o].last, t)
    BY <1>1, <1>2, <1>3, <2>1 DEF Built
  <2>3. Whole(nameless, sess[o].items, sess[o].last)
    BY <1>3 DEF ContextInv, SessWhole
  <2> HIDE DEF r, p
  <2> QED
    BY <1>1, <2>1, <2>2, <2>3, WholeContinues DEF r, p
<1>4. CASE Continues(c, o, ask) /\ sess[o].last = NoId
  <2>1. r = Append(sess[o].items, t) /\ p = NoId /\ t \in nameless'
    BY <1>4 DEF replayRequest, incrementalPrevious, t
  <2>2. Built(r, p) = <<t>>
    BY <1>1, <1>2, <2>1 DEF Built
  <2> QED
    BY <1>1, <2>1, <2>2, WholeAlone
<1>5. CASE ~ Continues(c, o, ask)
  <2>1. r = <<t>> /\ p = NoId
    BY <1>5 DEF replayRequest, incrementalPrevious, t
  <2>2. <<t>> = Append(<<>>, t) /\ <<>> \in Items
    BY DEF Items
  <2>3. Built(r, p) = <<t>>
    BY <1>1, <1>2, <2>1, <2>2 DEF Built
  <2> QED
    BY <1>1, <2>1, <2>2, <2>3, WholeAlone
<1> QED
  BY <1>3, <1>4, <1>5

LEMMA BeginTurnContext ==
    ASSUME SafeInv, ContextInv, NEW c \in Clients, BeginTurn(c)
    PROVE  ContextInv'
<1>t. cli \in [Clients -> CliType] /\ cli[c] \in CliType /\ sess \in [Objs -> SessType]
  BY DEF SafeInv, Typed, TypeOK
<1> DEFINE o == cli[c].obj
<1>1. cli[c].pc = "turn" /\ o \in Objs /\ UNCHANGED <<sock, strm>>
  BY DEF BeginTurn, SafeInv, Typed, Equipped
<1>2. ASSUME NEW p \in Objs PROVE sess'[p].items = sess[p].items /\ sess'[p].last = sess[p].last
  <2>1. sess' \in {sess, [sess EXCEPT ![o].turn = c]}
    BY DEF BeginTurn
  <2> QED
    BY <1>t, <1>1, <2>1 DEF SessType
<1>3. CASE cli' = [cli EXCEPT ![c] = Refuse(c)] /\ nameless' = nameless
  <2>1. cli'[c].pc \in {"ready", "leave"}
    BY <1>t, <1>3 DEF Refuse, CliType
  <2>2. TurnWhole(nameless', cli'[c])
    BY <2>1 DEF TurnWhole, Trying
  <2>3. \A d \in Clients \ {c} : cli'[d] = cli[d]
    BY <1>t, <1>3
  <2> QED
    BY <1>1, <1>2, <1>3, <2>2, <2>3, HandlerContext
<1>4. ASSUME NEW ask, NEW native, NEW keep,
             cli' = [cli EXCEPT ![c] = [@ EXCEPT
                         !.pc = "try", !.replay = replayRequest(c, o, ask), !.native = native,
                         !.prev = incrementalPrevious(c, o, ask), !.keep = keep]],
             nameless' = IF Continues(c, o, ask) /\ sess[o].last = NoId THEN nameless \cup {turns + 1} ELSE nameless
      PROVE  ContextInv'
  <2>1. /\ cli'[c].pc = "try" /\ cli'[c].replay = replayRequest(c, o, ask)
        /\ cli'[c].prev = incrementalPrevious(c, o, ask) /\ \A d \in Clients \ {c} : cli'[d] = cli[d]
    BY <1>t, <1>4 DEF CliType
  <2>2. Whole(nameless', cli'[c].replay, Built(cli'[c].replay, cli'[c].prev))
    BY <1>1, <1>4, <2>1, AskContext
  <2>3. TurnWhole(nameless', cli'[c])
    BY <2>1, <2>2 DEF TurnWhole
  <2>4. nameless \subseteq nameless'
    BY <1>4
  <2> QED
    BY <1>1, <1>2, <2>1, <2>3, <2>4, HandlerContext
<1>5. \/ cli' = [cli EXCEPT ![c] = Refuse(c)] /\ nameless' = nameless
      \/ \E ask, native, keep :
             /\ cli' = [cli EXCEPT ![c] = [@ EXCEPT
                         !.pc = "try", !.replay = replayRequest(c, o, ask), !.native = native,
                         !.prev = incrementalPrevious(c, o, ask), !.keep = keep]]
             /\ nameless' = IF Continues(c, o, ask) /\ sess[o].last = NoId
                            THEN nameless \cup {turns + 1} ELSE nameless
  BY DEF BeginTurn
<1> QED
  BY <1>3, <1>4, <1>5

-------------------------------------------------------------------------------
(* The socket and the goroutine.                                             *)

\* One goroutine and its socket change, and no session.
LEMMA OneStream ==
    ASSUME SafeInv, ContextInv, NEW o \in Objs, UNCHANGED <<sess, nameless>>, SameRequest',
           \A p \in Objs \ {o} : strm'[p] = strm[p] /\ sock'[p] = sock[p],
           StreamWhole(nameless, strm'[o], sock'[o]),
           \A c \in Clients : TurnWhole(nameless, cli'[c]) \/ Continued(cli[c], cli'[c])
    PROVE  ContextInv'
<1>1. \A p \in Objs : \/ StreamWhole(nameless', strm'[p], sock'[p])
                      \/ /\ strm'[p].st = strm[p].st /\ strm'[p].replay = strm[p].replay
                         /\ sock'[p] \in {sock[p], Closed}
  OBVIOUS
<1> QED
  BY <1>1, ContextStep

\* A handler starts a goroutine that asks its request.
LEMMA StartContext ==
    ASSUME SafeInv, ContextInv, NEW c \in Clients, cli[c].pc \in {"lock", "dial"}, UNCHANGED <<sess, nameless>>,
           startStream(c, cli[c].obj), strm[cli[c].obj].st = "off", cli' = [cli EXCEPT ![c].pc = "body"],
           NEW k, sock' = [sock EXCEPT ![cli[c].obj] = k], AnswersWhole(nameless, k, cli[c].replay)
    PROVE  ContextInv'
<1> DEFINE o == cli[c].obj
<1>t. /\ cli \in [Clients -> CliType] /\ cli[c] \in CliType /\ strm \in [Objs -> StrmType]
      /\ sock \in [Objs -> SockType] /\ o \in Objs /\ cli[c].replay # <<>>
  <2>1. cli[c].pc \in Working
    BY DEF Working
  <2> QED
    BY <2>1, AtWork DEF SafeInv, Typed, TypeOK
<1>1. /\ strm'[o].st = "read" /\ strm'[o].replay = cli[c].replay /\ strm'[o].by = c /\ sock'[o] = k
      /\ \A p \in Objs \ {o} : strm'[p] = strm[p] /\ sock'[p] = sock[p]
  BY <1>t DEF startStream, NoStream
<1>2. StreamWhole(nameless, strm'[o], sock'[o])
  BY <1>t, <1>1 DEF StreamWhole
<1>3. \A d \in Clients : Continued(cli[d], cli'[d]) /\ cli'[d].replay = cli[d].replay
  <2> SUFFICES ASSUME NEW d \in Clients PROVE Continued(cli[d], cli'[d]) /\ cli'[d].replay = cli[d].replay
    OBVIOUS
  <2>1. cli[d] \in CliType /\ cli'[d] \in {cli[d], [cli[d] EXCEPT !.pc = "body"]}
    BY <1>t
  <2>2. CASE cli'[d] = cli[d]
    BY <2>2 DEF Continued
  <2>3. CASE d = c
    BY <1>t, <2>1, <2>3 DEF Continued, Trying, CliType
  <2> QED
    BY <1>t, <2>2, <2>3
<1>4. SameRequest'
  <2>1. \A p \in Objs : strm[p].body => /\ strm[p].st # "off" /\ strm[p].by \in Clients
                                        /\ strm[p].replay = cli[strm[p].by].replay
    BY DEF ContextInv, SameRequest, SafeInv, SocketInv, PipeRead
  <2>2. \A p \in Objs \ {o} : strm'[p].body => strm'[p].st # "off" /\ strm'[p].replay = cli'[strm'[p].by].replay
    BY <1>1, <1>3, <2>1
  <2>3. strm'[o].st # "off" /\ strm'[o].replay = cli'[strm'[o].by].replay
    BY <1>1, <1>3
  <2> QED
    BY <2>2, <2>3 DEF SameRequest
<1> QED
  BY <1>t, <1>1, <1>2, <1>3, <1>4, OneStream

LEMMA DialledContext ==
    ASSUME NEW names, NEW t, NEW all \in Items, all # <<>>
    PROVE  AnswersWhole(names, Dialled(t, all), all)
<1>1. Dialled(t, all).ctx = all /\ Dialled(t, all).reads = <<>>
  BY DEF Dialled, Closed
<1> QED
  BY <1>1, WholeItself DEF AnswersWhole

LEMMA RoundTripContext ==
    ASSUME SafeInv, ContextInv, NEW c \in Clients, RoundTrip(c)
    PROVE  ContextInv'
<1> DEFINE o == cli[c].obj
           r == Context(sock[o].known, cli[c].prev, cli[c].replay[Len(cli[c].replay)])
           k == [sock[o] EXCEPT !.asked = TRUE, !.ctx = r]
<1>1. cli[c].pc = "lock" /\ turnMuFree(o) /\ UNCHANGED <<sess, seen, turns, nameless>>
  BY DEF RoundTrip
<1>2. cli[c].pc \in Working /\ cli[c].pc \in Trying
  BY <1>1 DEF Working, Trying
<1>t. cli \in [Clients -> CliType] /\ sock \in [Objs -> SockType] /\ o \in Objs /\ cli[c] \in CliType
  BY <1>2, AtWork DEF SafeInv, Typed, TypeOK
<1>3. CASE /\ connectionReusable(o, cli[c].target)
           /\ sock' = [sock EXCEPT ![o] = k] /\ startStream(c, o) /\ cli' = [cli EXCEPT ![c].pc = "body"]
  <2>1. k.reads = <<>> /\ k.ctx = r
    BY <1>t, <1>3 DEF connectionReusable, SockType
  <2>2. r = Missing \/ Whole(nameless, cli[c].replay, r)
    BY <1>2, ContextWhole DEF ContextInv, Newest
  <2>3. AnswersWhole(nameless, k, cli[c].replay)
    <3> HIDE DEF k, r
    <3> QED
      BY <2>1, <2>2 DEF AnswersWhole
  <2>4. strm[o].st = "off"
    BY <1>1 DEF turnMuFree
  <2> HIDE DEF k
  <2> QED
    BY <1>1, <1>3, <2>3, <2>4, StartContext
<1>4. CASE sock' = closeLocked(o) /\ cli' = [cli EXCEPT ![c].pc = "dial"] /\ UNCHANGED strm
  <2>1. \A p \in Objs : sock'[p] \in {sock[p], Closed}
    BY <1>t, <1>4 DEF closeLocked
  <2>2. Continued(cli[c], cli'[c]) /\ \A d \in Clients \ {c} : cli'[d] = cli[d]
    BY <1>t, <1>2, <1>4 DEF Continued, CliType
  <2> QED
    BY <1>1, <1>4, <2>1, <2>2, HandlerContext
<1> QED
  BY <1>3, <1>4 DEF RoundTrip

LEMMA DialContext ==
    ASSUME SafeInv, ContextInv, NEW c \in Clients, Dial(c)
    PROVE  ContextInv'
<1> DEFINE o == cli[c].obj
<1>1. cli[c].pc = "dial" /\ UNCHANGED <<sess, seen, turns, nameless>>
  BY DEF Dial
<1>2. cli[c].pc \in Working /\ cli[c].pc \in Trying
  BY <1>1 DEF Working, Trying
<1>t. /\ cli \in [Clients -> CliType] /\ sock \in [Objs -> SockType] /\ o \in Objs /\ cli[c] \in CliType
      /\ cli[c].replay \in Items /\ cli[c].replay # <<>>
  BY <1>2, AtWork DEF SafeInv, Typed, TypeOK
<1>3. CASE sock' = [sock EXCEPT ![o] = Dialled(cli[c].target, cli[c].replay)] /\ startStream(c, o)
           /\ cli' = [cli EXCEPT ![c].pc = "body"]
  <2>1. strm[o].st = "off"
    BY <1>1, <1>t DEF SafeInv, SocketInv, OneOnSocket
  <2>2. AnswersWhole(nameless, Dialled(cli[c].target, cli[c].replay), cli[c].replay)
    BY <1>t, DialledContext
  <2> QED
    BY <1>1, <1>3, <2>1, <2>2, StartContext
<1>4. ASSUME NEW pc \in {"try", "http"}, cli' = [cli EXCEPT ![c].pc = pc], sock' = closeLocked(o), UNCHANGED strm
      PROVE  ContextInv'
  <2>1. \A p \in Objs : sock'[p] \in {sock[p], Closed}
    BY <1>t, <1>4 DEF closeLocked
  <2>2. Continued(cli[c], cli'[c]) /\ \A d \in Clients \ {c} : cli'[d] = cli[d]
    BY <1>t, <1>2, <1>4 DEF Continued, CliType
  <2> QED
    BY <1>1, <1>4, <2>1, <2>2, HandlerContext
<1> QED
  BY <1>3, <1>4 DEF Dial

\* Steps that cancel goroutines or close their pipes and sockets.
LEMMA CutContext ==
    ASSUME SafeInv, ContextInv, UNCHANGED <<sess, nameless>>,
           \A o \in Objs : /\ strm'[o].st = strm[o].st /\ strm'[o].replay = strm[o].replay
                           /\ strm'[o].by = strm[o].by /\ (strm'[o].body => strm[o].body)
                           /\ sock'[o] \in {sock[o], Closed},
           \A c \in Clients : cli'[c].replay = cli[c].replay,
           \A c \in Clients : TurnWhole(nameless, cli'[c]) \/ Continued(cli[c], cli'[c])
    PROVE  ContextInv'
<1>1. SameRequest'
  BY RequestKept DEF ContextInv, SameRequest
<1> QED
  BY <1>1, ContextStep

LEMMA CloseBodyContext ==
    ASSUME SafeInv, ContextInv, NEW c \in Clients, CloseBody(c)
    PROVE  ContextInv'
<1>t. cli \in [Clients -> CliType] /\ cli[c] \in CliType /\ strm \in [Objs -> StrmType] /\ sock \in [Objs -> SockType]
  BY DEF SafeInv, Typed, TypeOK
<1>1. /\ UNCHANGED <<sess, nameless>> /\ cli[c].pc = "body"
      /\ \E pc \in {"cutoff", "closing"} : cli' = [cli EXCEPT ![c].pc = pc]
      /\ sock' = closeLocked(cli[c].obj) /\ strm' = [strm EXCEPT ![cli[c].obj].body = FALSE]
  BY DEF CloseBody
<1>2. PICK pc \in {"cutoff", "closing"} : cli' = [cli EXCEPT ![c].pc = pc]
  BY <1>1
<1>3. Continued(cli[c], cli'[c]) /\ \A d \in Clients \ {c} : cli'[d] = cli[d]
  BY <1>t, <1>1, <1>2 DEF Continued, CliType, Trying
<1>4. \A d \in Clients : cli'[d].replay = cli[d].replay /\ Continued(cli[d], cli'[d])
  BY <1>3 DEF Continued
<1>5. \A o \in Objs : /\ strm'[o].st = strm[o].st /\ strm'[o].replay = strm[o].replay
                      /\ strm'[o].by = strm[o].by /\ (strm'[o].body => strm[o].body)
                      /\ sock'[o] \in {sock[o], Closed}
  BY <1>t, <1>1 DEF closeLocked, StrmType
<1> QED
  BY <1>1, <1>4, <1>5, CutContext

LEMMA CancelAttemptContext ==
    ASSUME SafeInv, ContextInv, NEW c \in Clients, CancelAttempt(c)
    PROVE  ContextInv'
<1>t. cli \in [Clients -> CliType] /\ cli[c] \in CliType /\ strm \in [Objs -> StrmType] /\ sock \in [Objs -> SockType]
  BY DEF SafeInv, Typed, TypeOK
<1>1. /\ UNCHANGED <<sess, nameless>> /\ cli[c].pc \in {"closing", "cutoff"}
      /\ strm' \in {strm, [strm EXCEPT ![cli[c].obj].live = FALSE]}
      /\ sock' \in {sock, closeLocked(cli[c].obj)}
      /\ \E pc \in {"broken", "try"} : cli' = [cli EXCEPT ![c] = Outcome(cli[c], pc, NoId)]
  BY DEF CancelAttempt
<1>2. PICK pc \in {"broken", "try"} : cli' = [cli EXCEPT ![c] = Outcome(cli[c], pc, NoId)]
  BY <1>1
<1>3. TurnWhole(nameless, Outcome(cli[c], pc, NoId)) \/ Continued(cli[c], Outcome(cli[c], pc, NoId))
  BY <1>t, <1>1, OutcomeContext DEF Trying
<1>4. Outcome(cli[c], pc, NoId).replay = cli[c].replay
  BY <1>t DEF Outcome, CliType
<1>5. \A d \in Clients : /\ cli'[d].replay = cli[d].replay
                         /\ TurnWhole(nameless, cli'[d]) \/ Continued(cli[d], cli'[d])
  <2> SUFFICES ASSUME NEW d \in Clients
               PROVE  /\ cli'[d].replay = cli[d].replay
                      /\ TurnWhole(nameless, cli'[d]) \/ Continued(cli[d], cli'[d])
    OBVIOUS
  <2>1. CASE d = c
    BY <1>t, <1>2, <1>3, <1>4, <2>1
  <2>2. CASE d # c
    BY <1>t, <1>2, <2>2 DEF Continued
  <2> QED
    BY <2>1, <2>2
<1>6. \A o \in Objs : /\ strm'[o].st = strm[o].st /\ strm'[o].replay = strm[o].replay
                      /\ strm'[o].by = strm[o].by /\ (strm'[o].body => strm[o].body)
                      /\ sock'[o] \in {sock[o], Closed}
  BY <1>t, <1>1 DEF closeLocked, StrmType
<1> QED
  BY <1>1, <1>5, <1>6, CutContext

LEMMA ClientGoneContext ==
    ASSUME SafeInv, ContextInv, NEW c \in Clients, ClientGone(c)
    PROVE  ContextInv'
<1>t. cli \in [Clients -> CliType] /\ strm \in [Objs -> StrmType] /\ sock \in [Objs -> SockType]
  BY DEF SafeInv, Typed, TypeOK
<1>1. UNCHANGED <<sess, nameless>>
  BY DEF ClientGone
<1>2. ASSUME NEW d \in Clients PROVE cli'[d].replay = cli[d].replay /\ Continued(cli[d], cli'[d])
  <2>1. \/ cli'[d] = cli[d]
        \/ cli'[d] = [cli[d] EXCEPT !.live = FALSE,
                             !.pc = IF @ \in {"ready", "turn"}
                                    THEN IF cli[d].obj = None THEN "away" ELSE "leave" ELSE @]
    BY DEF ClientGone, Gone
  <2> QED
    BY <1>t, <2>1 DEF Continued, CliType, Trying
<1>3. \A o \in Objs : /\ strm'[o].st = strm[o].st /\ strm'[o].replay = strm[o].replay
                      /\ strm'[o].by = strm[o].by /\ (strm'[o].body => strm[o].body)
                      /\ sock'[o] \in {sock[o], Closed}
  <2> SUFFICES ASSUME NEW o \in Objs
               PROVE  /\ strm'[o].st = strm[o].st /\ strm'[o].replay = strm[o].replay
                      /\ strm'[o].by = strm[o].by /\ (strm'[o].body => strm[o].body)
                      /\ sock'[o] \in {sock[o], Closed}
    OBVIOUS
  <2>1. strm'[o] \in {strm[o], [strm[o] EXCEPT !.live = FALSE]} /\ sock'[o] \in {sock[o], Closed}
    BY DEF ClientGone, Gone
  <2>2. strm[o] \in StrmType
    BY <1>t
  <2> QED
    BY <2>1, <2>2 DEF StrmType
<1> QED
  BY <1>1, <1>2, <1>3, CutContext

\* Frames are added to what was read, or it is dropped.
LEMMA ReaderContext ==
    ASSUME SafeInv, ContextInv, NEW o \in Objs,
           UpstreamFrame(o) \/ ReadFails(o) \/ detachReadFailure(o) \/ expireConnection(o)
    PROVE  ContextInv'
<1>t. sock \in [Objs -> SockType] /\ sock[o] \in SockType /\ sock[o].reads \in Seq(Frames)
  BY DEF SafeInv, Typed, TypeOK, SockType
<1>1. UNCHANGED <<sess, strm, cli, seen, turns, nameless>>
  BY DEF UpstreamFrame, ReadFails, detachReadFailure, expireConnection
<1>2. \A p \in Objs \ {o} : sock'[p] = sock[p]
  BY <1>t DEF UpstreamFrame, ReadFails, detachReadFailure, expireConnection, closeLocked
<1>3. SameRequest' /\ \A d \in Clients : Continued(cli[d], cli'[d])
  BY <1>1 DEF ContextInv, SameRequest, Continued
<1>4. ASSUME NEW all, AnswersWhole(nameless, sock[o], all) PROVE AnswersWhole(nameless, sock'[o], all)
  <2>1. ASSUME NEW f \in Frames, sock'[o].reads = Append(sock[o].reads, f),
               f.kind = "completed" => Whole(nameless, all, f.resp),
               sock'[o].asked => sock[o].asked /\ sock'[o].ctx = sock[o].ctx
        PROVE  AnswersWhole(nameless, sock'[o], all)
    <3> DEFINE s == sock[o].reads
               n == Len(s) + 1
    <3>1. \A i \in DOMAIN s : s[i].kind = "completed" => Whole(nameless, all, s[i].resp)
      BY <1>4 DEF AnswersWhole
    <3>2. /\ DOMAIN Append(s, f) = 1..n /\ DOMAIN s = 1..Len(s) /\ Len(s) \in Nat
          /\ \A i \in 1..Len(s) : Append(s, f)[i] = s[i]
          /\ Append(s, f)[n] = f
      <4> HIDE DEF Frames
      <4> QED
        BY <1>t
    <3>3. \A i \in DOMAIN sock'[o].reads :
             sock'[o].reads[i].kind = "completed" => Whole(nameless, all, sock'[o].reads[i].resp)
      <4> SUFFICES ASSUME NEW i \in 1..n, Append(s, f)[i].kind = "completed"
                   PROVE  Whole(nameless, all, Append(s, f)[i].resp)
        BY <2>1, <3>2
      <4>1. CASE i = n
        BY <2>1, <3>2, <4>1
      <4>2. CASE i \in 1..Len(s)
        BY <3>1, <3>2, <4>2
      <4>3. i = n \/ i \in 1..Len(s)
        BY <3>2
      <4> QED
        BY <4>1, <4>2, <4>3
    <3> QED
      BY <1>4, <2>1, <3>3 DEF AnswersWhole
  <2>2. ASSUME sock'[o].reads = sock[o].reads \/ sock'[o].reads = <<>>,
               sock'[o].asked => sock[o].asked /\ sock'[o].ctx = sock[o].ctx
        PROVE  AnswersWhole(nameless, sock'[o], all)
    BY <1>4, <2>2 DEF AnswersWhole
  <2>3. CASE UpstreamFrame(o)
    <3>1. sock[o].asked
      BY <2>3 DEF UpstreamFrame
    <3> DEFINE frame(kind, r) == [kind |-> kind, resp |-> r]
    <3>2. /\ frame("missing", NoId) \in Frames /\ frame("output", NoId) \in Frames /\ frame("failed", NoId) \in Frames
          /\ frame("completed", sock[o].ctx) \in Frames
      BY <1>t, Blank DEF Frames, SockType
    <3> DEFINE pushed(f, asked, known) ==
                 [sock EXCEPT ![o] = [sock[o] EXCEPT !.reads = Append(@, f), !.asked = asked, !.known = known,
                                                     !.ctx = IF asked THEN @ ELSE <<>>]]
    <3>3. \/ sock' = pushed(frame("missing", NoId), FALSE, sock[o].known)
          \/ sock' = pushed(frame("output", NoId), TRUE, sock[o].known)
          \/ /\ sock[o].ctx # Missing
             /\ sock' = pushed(frame("completed", sock[o].ctx), FALSE, sock[o].known \cup {sock[o].ctx})
          \/ sock' = pushed(frame("failed", NoId), FALSE, sock[o].known)
      BY <2>3 DEF UpstreamFrame
    <3>4. \E f \in Frames, asked \in BOOLEAN, known \in {sock[o].known, sock[o].known \cup {sock[o].ctx}} :
            /\ sock' = pushed(f, asked, known)
            /\ f.kind = "completed" => sock[o].ctx # Missing /\ f.resp = sock[o].ctx
      <4>1. /\ frame("missing", NoId).kind = "missing" /\ frame("output", NoId).kind = "output"
            /\ frame("failed", NoId).kind = "failed" /\ frame("completed", sock[o].ctx).resp = sock[o].ctx
        OBVIOUS
      <4> HIDE DEF pushed, frame
      <4> QED
        BY <3>2, <3>3, <4>1
    <3>5. PICK f \in Frames, asked \in BOOLEAN, known \in {sock[o].known, sock[o].known \cup {sock[o].ctx}} :
            /\ sock' = pushed(f, asked, known)
            /\ f.kind = "completed" => sock[o].ctx # Missing /\ f.resp = sock[o].ctx
      BY <3>4
    <3>6. /\ sock'[o].reads = Append(sock[o].reads, f) /\ sock'[o].asked = asked
          /\ asked => sock'[o].ctx = sock[o].ctx
      <4> HIDE DEF Frames
      <4> QED
        BY <1>t, <3>5 DEF SockType
    <3>7. f.kind = "completed" => Whole(nameless, all, f.resp)
      BY <1>4, <3>1, <3>5 DEF AnswersWhole
    <3> QED
      BY <2>1, <3>1, <3>5, <3>6, <3>7
  <2>4. CASE ReadFails(o)
    <3> DEFINE f == [kind |-> "err", resp |-> NoId]
    <3>1. sock'[o] = [sock[o] EXCEPT !.reads = Append(@, f)]
      BY <1>t, <2>4 DEF ReadFails
    <3>2. f \in Frames /\ f.kind # "completed"
      BY Blank DEF Frames
    <3>3. sock'[o].reads = Append(sock[o].reads, f) /\ sock'[o].asked = sock[o].asked /\ sock'[o].ctx = sock[o].ctx
      BY <1>t, <3>1 DEF SockType
    <3> HIDE DEF f
    <3> QED
      BY <2>1, <3>2, <3>3
  <2>5. CASE detachReadFailure(o)
    <3>1. sock'[o] = [Closed EXCEPT !.reads = sock[o].reads]
      BY <1>t, <2>5 DEF detachReadFailure
    <3>2. sock'[o].reads = sock[o].reads /\ ~ sock'[o].asked
      BY <3>1 DEF Closed
    <3> QED
      BY <2>2, <3>2
  <2>6. CASE expireConnection(o)
    <3>1. sock'[o] = [sock[o] EXCEPT !.aged = TRUE] \/ sock'[o] = Closed
      BY <1>t, <2>6 DEF expireConnection, closeLocked
    <3>2. /\ sock'[o].reads = sock[o].reads \/ sock'[o].reads = <<>>
          /\ sock'[o].asked => sock[o].asked /\ sock'[o].ctx = sock[o].ctx
      BY <1>t, <3>1 DEF SockType, Closed
    <3> QED
      BY <2>2, <3>2
  <2> QED
    BY <2>3, <2>4, <2>5, <2>6
<1>5. StreamWhole(nameless, strm'[o], sock'[o])
  <2>1. StreamWhole(nameless, strm[o], sock[o])
    BY DEF ContextInv
  <2> QED
    BY <1>1, <1>4, <2>1 DEF StreamWhole
<1> QED
  BY <1>1, <1>2, <1>3, <1>5, OneStream

\* What the handler at the pipe is told.
LEMMA TellContext ==
    ASSUME SafeInv, ContextInv, NEW o \in Objs, NEW pc \in {"try", "http", "broken", "done"}, NEW r, Tell(o, pc, r),
           pc = "done" => Whole(nameless, strm[o].replay, r)
    PROVE  \A c \in Clients : /\ cli'[c].replay = cli[c].replay
                              /\ TurnWhole(nameless, cli'[c]) \/ Continued(cli[c], cli'[c])
<1>t. cli \in [Clients -> CliType]
  BY DEF SafeInv, Typed, TypeOK
<1>1. CASE strm[o].body
  <2> SUFFICES ASSUME NEW c \in Clients
               PROVE  /\ cli'[c].replay = cli[c].replay
                      /\ TurnWhole(nameless, cli'[c]) \/ Continued(cli[c], cli'[c])
    OBVIOUS
  <2>1. CASE c = strm[o].by
    <3>1. cli[c].pc = "body" /\ strm[o].replay = cli[c].replay /\ cli[c] \in CliType
      BY <1>t, <1>1, <2>1 DEF ContextInv, SameRequest, SafeInv, SocketInv, PipeRead
    <3>2. cli'[c] = Outcome(cli[c], pc, r)
      BY <1>t, <1>1, <2>1 DEF Tell
    <3>3. Outcome(cli[c], pc, r).replay = cli[c].replay
      BY <3>1 DEF Outcome, CliType
    <3> QED
      BY <3>1, <3>2, <3>3, OutcomeContext DEF Trying
  <2>2. CASE c # strm[o].by
    <3>1. cli'[c] = cli[c]
      BY <1>t, <1>1, <2>2 DEF Tell
    <3> QED
      BY <3>1 DEF Continued
  <2> QED
    BY <2>1, <2>2
<1>2. CASE ~ strm[o].body
  BY <1>2 DEF Tell, Continued
<1> QED
  BY <1>1, <1>2

LEMMA FinishContext ==
    ASSUME SafeInv, ContextInv, NEW o \in Objs, NEW pc \in {"try", "http", "broken", "done"}, NEW r, Tell(o, pc, r),
           pc = "done" => Whole(nameless, strm[o].replay, r),
           NEW k, finishTurn(o, k), UNCHANGED <<sess, nameless>>
    PROVE  ContextInv'
<1>t. strm \in [Objs -> StrmType] /\ sock \in [Objs -> SockType]
  BY DEF SafeInv, Typed, TypeOK
<1>1. strm'[o] = NoStream /\ \A p \in Objs \ {o} : strm'[p] = strm[p] /\ sock'[p] = sock[p]
  BY <1>t DEF finishTurn
<1>2. strm'[o].st = "off" /\ ~ strm'[o].body
  BY <1>1 DEF NoStream
<1>3. \A c \in Clients : /\ cli'[c].replay = cli[c].replay
                         /\ TurnWhole(nameless, cli'[c]) \/ Continued(cli[c], cli'[c])
  BY TellContext
<1>4. SameRequest'
  <2>1. \A p \in Objs : strm[p].body => strm[p].st # "off"
    BY DEF ContextInv, SameRequest
  <2>2. \A p \in Objs : strm'[p].body => /\ strm[p].body /\ strm'[p].by = strm[p].by
                                         /\ strm'[p].replay = strm[p].replay /\ strm'[p].st # "off"
    BY <1>1, <1>2, <2>1
  <2> QED
    BY <1>3, <2>2, RequestKept DEF ContextInv
<1>5. StreamWhole(nameless, strm'[o], sock'[o])
  BY <1>2 DEF StreamWhole
<1> QED
  BY <1>1, <1>3, <1>4, <1>5, OneStream

\* The goroutine goes on, for the same request.
LEMMA GoesOnContext ==
    ASSUME SafeInv, ContextInv, NEW o \in Objs, UNCHANGED <<sess, cli, nameless>>,
           NEW g, strm' = [strm EXCEPT ![o] = g], NEW k, sock' = [sock EXCEPT ![o] = k],
           strm[o].st # "off", g.st # "off", g.replay = strm[o].replay, g.by = strm[o].by, g.body => strm[o].body,
           g.st = "read" => AnswersWhole(nameless, k, g.replay)
    PROVE  ContextInv'
<1>t. strm \in [Objs -> StrmType] /\ sock \in [Objs -> SockType]
  BY DEF SafeInv, Typed, TypeOK
<1>1. strm'[o] = g /\ sock'[o] = k /\ \A p \in Objs \ {o} : strm'[p] = strm[p] /\ sock'[p] = sock[p]
  BY <1>t
<1>2. StreamWhole(nameless, strm'[o], sock'[o])
  BY <1>1 DEF StreamWhole, ContextInv
<1>3. SameRequest'
  BY <1>1, RequestKept DEF ContextInv, SameRequest
<1>4. \A c \in Clients : Continued(cli[c], cli'[c])
  BY DEF Continued
<1> QED
  BY <1>1, <1>2, <1>3, <1>4, OneStream

LEMMA RetryOrFailContext ==
    ASSUME SafeInv, ContextInv, NEW o \in Objs, strm[o].st = "read", RetryOrFail(o), UNCHANGED <<sess, nameless>>
    PROVE  ContextInv'
<1>t. strm[o] \in StrmType
  BY DEF SafeInv, Typed, TypeOK
<1>1. CASE /\ strm' = [strm EXCEPT ![o] = [@ EXCEPT !.st = "redial", !.retried = TRUE]]
           /\ sock' = closeLocked(o) /\ UNCHANGED cli
  <2> DEFINE g == [strm[o] EXCEPT !.st = "redial", !.retried = TRUE]
  <2>1. strm' = [strm EXCEPT ![o] = g] /\ sock' = [sock EXCEPT ![o] = Closed]
    BY <1>1 DEF closeLocked
  <2>2. /\ g.st # "off" /\ g.st # "read" /\ strm[o].st # "off"
        /\ g.replay = strm[o].replay /\ g.by = strm[o].by /\ (g.body => strm[o].body)
    BY <1>t DEF StrmType
  <2>3. UNCHANGED <<sess, cli, nameless>>
    BY <1>1
  <2>4. g.st = "read" => AnswersWhole(nameless, Closed, g.replay)
    BY <2>2
  <2> HIDE DEF g
  <2> QED
    BY <2>1, <2>2, <2>3, <2>4, GoesOnContext
<1>2. CASE Tell(o, IF strm[o].sem THEN "broken" ELSE "try", NoId) /\ finishTurn(o, Closed)
  <2>1. PICK pc \in {"broken", "try"} : Tell(o, pc, NoId)
    BY <1>2
  <2> QED
    BY <1>2, <2>1, FinishContext
<1> QED
  BY <1>1, <1>2 DEF RetryOrFail

LEMMA StreamReadContext ==
    ASSUME SafeInv, ContextInv, NEW o \in Objs, StreamRead(o)
    PROVE  ContextInv'
<1> DEFINE f == Head(sock[o].reads)
           popped == [sock[o] EXCEPT !.reads = Tail(@)]
<1>t. strm[o] \in StrmType /\ sock[o] \in SockType /\ sock[o].reads \in Seq(Frames)
  BY DEF SafeInv, Typed, TypeOK, SockType
<1>0. strm[o].st = "read" /\ UNCHANGED <<sess, nameless>>
  BY DEF StreamRead
<1>1. AnswersWhole(nameless, sock[o], strm[o].replay)
  BY <1>0 DEF ContextInv, StreamWhole
<1>2. CASE RetryOrFail(o)
  BY <1>0, <1>2, RetryOrFailContext
<1>3. ASSUME NEW pc \in {"try", "broken"}, Tell(o, pc, NoId), finishTurn(o, Closed) PROVE ContextInv'
  BY <1>0, <1>3, FinishContext
<1>4. CASE HasRead(o) /\ f.kind = "output" /\ strm' = [strm EXCEPT ![o].sem = TRUE] /\ UNCHANGED cli
           /\ sock' = [sock EXCEPT ![o] = popped]
  <2> DEFINE g == [strm[o] EXCEPT !.sem = TRUE]
  <2>1. /\ g.st = "read" /\ g.replay = strm[o].replay /\ g.by = strm[o].by /\ g.body = strm[o].body
        /\ strm' = [strm EXCEPT ![o] = g]
    BY <1>t, <1>0, <1>4 DEF StrmType
  <2>2. popped.reads = Tail(sock[o].reads) /\ popped.asked = sock[o].asked /\ popped.ctx = sock[o].ctx
    BY <1>t DEF SockType
  <2>3. AnswersWhole(nameless, popped, strm[o].replay)
    <3>1. ASSUME NEW i \in DOMAIN Tail(sock[o].reads)
          PROVE  i + 1 \in DOMAIN sock[o].reads /\ Tail(sock[o].reads)[i] = sock[o].reads[i + 1]
      BY <1>t, <1>4 DEF HasRead
    <3> HIDE DEF popped
    <3> QED
      BY <1>1, <2>2, <3>1 DEF AnswersWhole
  <2> HIDE DEF g, popped
  <2> QED
    BY <1>0, <1>4, <2>1, <2>3, GoesOnContext
<1>5. CASE UNCHANGED cli /\ finishTurn(o, WriteFailed(o)) /\ ~ strm[o].body
  <2>1. Tell(o, "try", NoId)
    BY <1>5 DEF Tell
  <2> QED
    BY <1>0, <1>5, <2>1, FinishContext
<1>6. ASSUME NEW k, HasRead(o), f.kind = "completed", Tell(o, "done", f.resp), finishTurn(o, k) PROVE ContextInv'
  <2>1. 1 \in DOMAIN sock[o].reads /\ f = sock[o].reads[1]
    BY <1>t, <1>6 DEF HasRead
  <2>2. Whole(nameless, strm[o].replay, f.resp)
    BY <1>1, <1>6, <2>1 DEF AnswersWhole
  <2> HIDE DEF f
  <2> QED
    BY <1>0, <1>6, <2>2, FinishContext
<1>7. \/ RetryOrFail(o)
      \/ \E pc \in {"try", "broken"} : Tell(o, pc, NoId) /\ finishTurn(o, Closed)
      \/ HasRead(o) /\ f.kind = "output" /\ UNCHANGED cli
         /\ \/ strm' = [strm EXCEPT ![o].sem = TRUE] /\ sock' = [sock EXCEPT ![o] = popped]
            \/ ~ strm[o].body /\ finishTurn(o, WriteFailed(o))
      \/ HasRead(o) /\ f.kind = "completed" /\ Tell(o, "done", f.resp) /\ \E k : finishTurn(o, k)
  BY DEF StreamRead
<1> HIDE DEF f, popped
<1> QED
  BY <1>2, <1>3, <1>4, <1>5, <1>6, <1>7

LEMMA ReconnectContext ==
    ASSUME SafeInv, ContextInv, NEW o \in Objs, ReconnectWithReplay(o)
    PROVE  ContextInv'
<1>t. strm[o] \in StrmType /\ strm[o].replay \in Items
  BY DEF SafeInv, Typed, TypeOK, StrmType
<1>0. strm[o].st = "redial" /\ UNCHANGED <<sess, nameless>>
  BY DEF ReconnectWithReplay
<1>1. CASE /\ sock' = [sock EXCEPT ![o] = Dialled(strm[o].target, strm[o].replay)]
           /\ strm' = [strm EXCEPT ![o].st = "read"] /\ UNCHANGED cli
  <2> DEFINE g == [strm[o] EXCEPT !.st = "read"]
  <2>1. /\ g.st = "read" /\ g.replay = strm[o].replay /\ g.by = strm[o].by /\ g.body = strm[o].body
        /\ strm' = [strm EXCEPT ![o] = g]
    BY <1>t, <1>1 DEF StrmType
  <2>2. AnswersWhole(nameless, Dialled(strm[o].target, strm[o].replay), g.replay)
    <3>1. strm[o].replay # <<>>
      BY <1>0 DEF ContextInv, StreamWhole
    <3> QED
      BY <1>t, <2>1, <3>1, DialledContext
  <2> HIDE DEF g
  <2> QED
    BY <1>0, <1>1, <2>1, <2>2, GoesOnContext
<1>2. ASSUME NEW pc \in {"try", "http"}, Tell(o, pc, NoId), finishTurn(o, sock[o]) PROVE ContextInv'
  BY <1>0, <1>2, FinishContext
<1> QED
  BY <1>1, <1>2 DEF ReconnectWithReplay

LEMMA ContextInit ==
    ASSUME Init
    PROVE  ContextInv
<1>1. /\ \A o \in Objs : sess[o] = NoSess /\ strm[o] = NoStream
      /\ \A c \in Clients : cli[c] = Away
  BY DEF Init
<1>2. SessWhole(nameless, NoSess) /\ TurnWhole(nameless, Away)
  BY DEF SessWhole, NoSess, TurnWhole, Away, Trying
<1>3. NoStream.st = "off" /\ ~ NoStream.body
  BY DEF NoStream
<1> QED
  BY <1>1, <1>2, <1>3 DEF ContextInv, StreamWhole, SameRequest

LEMMA ContextNext ==
    ASSUME SafeInv, ContextInv, [Next]_vars
    PROVE  ContextInv'
<1>1. ASSUME NEW c \in Clients, Handler(c) \/ Connect(c) \/ Message(c) \/ HttpFails(c) PROVE ContextInv'
  BY <1>1, AcquireContext, ReleaseContext, BeginTurnContext, TurnEndsContext, ClientContext, RoundTripContext,
     DialContext, CancelAttemptContext DEF Handler
<1>2. ASSUME NEW o \in Objs, Stream(o) PROVE ContextInv'
  BY <1>2, StreamReadContext, ReconnectContext DEF Stream
<1>3. ASSUME NEW o \in Objs, UpstreamFrame(o) \/ ReadFails(o) \/ detachReadFailure(o) \/ expireConnection(o)
      PROVE  ContextInv'
  BY <1>3, ReaderContext
<1>4. ASSUME NEW c \in Clients, ClientGone(c) \/ CloseBody(c) PROVE ContextInv'
  BY <1>4, ClientGoneContext, CloseBodyContext
<1>5. CASE Cleanup \/ TimePasses
  BY <1>5, SweepContext
<1>6. CASE UNCHANGED vars
  BY <1>6 DEF vars, ContextInv, SameRequest
<1> QED
  BY <1>1, <1>2, <1>3, <1>4, <1>5, <1>6 DEF Next, Fault

\* What a session keeps, what a handler asks, what it was answered, and what the
\* goroutine of streamResponse reads for it all answer the conversation the turn
\* replays, from its start or from a turn that continued without a response id.
THEOREM SessionsContextInvariant == Spec => []ContextInv
<1>1. Init => ContextInv
  BY ContextInit
<1>2. SessionsInv /\ ContextInv /\ [Next]_vars => ContextInv'
  BY ContextNext DEF SessionsInv
<1> QED
  BY <1>1, <1>2, SessionsInvariant, PTL DEF Spec

\* The last response of a session (commit) was made from the transcript beside it,
\* over the socket or over HTTP, after reconnects, failovers and given-up answers.
THEOREM SessionsContextIntact == Spec => []ContextIntact
<1>1. ContextInv => ContextIntact
  BY DEF ContextInv, SessWhole, Whole, ContextIntact
<1> QED
  BY <1>1, SessionsContextInvariant, PTL

-------------------------------------------------------------------------------
(* The turn is never stuck.  Who works on a turn holds its session, a handler *)
(* that waits for the answer has the goroutine read for it, and the goroutine *)
(* waits only for an answer the upstream owes.                                *)

TurnHeld ==
    /\ \A c \in Clients : cli[c].pc \in Working => sess[cli[c].obj].turn = c
    /\ \A o \in Objs : sess[o].turn # None =>
           /\ sess[o].turn \in Clients
           /\ cli[sess[o].turn].obj = o /\ cli[sess[o].turn].pc \in Working

PipeServed ==
    \A c \in Clients : cli[c].pc = "body" => strm[cli[c].obj].body /\ strm[cli[c].obj].by = c

Owes(g, k) ==
    g.st = "read" /\ k.open /\ ~ k.asked => \E i \in DOMAIN k.reads : k.reads[i].kind \in Final \cup {"err"}

AnswerOwed == \A o \in Objs : Owes(strm[o], sock[o])

TurnInv == TurnHeld /\ PipeServed /\ AnswerOwed

\* The guards of the steps of a handler at work, of the goroutine and of the
\* upstream.
HandlerMay(c) ==
    \/ cli[c].pc \in Working \ {"lock", "body"}
    \/ cli[c].pc = "lock" /\ turnMuFree(cli[c].obj)
StreamMay(o) ==
    \/ strm[o].st = "redial"
    \/ strm[o].st = "read" /\ (HasRead(o) \/ nextReadFails(o))
UpstreamMay(o) == sock[o].open /\ sock[o].asked /\ ~ Dead(o)

TurnMayGoOn ==
    \A o \in Objs : sess[o].turn # None => HandlerMay(sess[o].turn) \/ StreamMay(o) \/ UpstreamMay(o)

LEMMA TurnGoesOn ==
    ASSUME SafeInv, SameRequest, TurnInv
    PROVE  TurnMayGoOn
<1> SUFFICES ASSUME NEW o \in Objs, sess[o].turn # None
             PROVE  HandlerMay(sess[o].turn) \/ StreamMay(o) \/ UpstreamMay(o)
  BY DEF TurnMayGoOn
<1>1. PICK c \in Clients : c = sess[o].turn /\ cli[c].obj = o /\ cli[c].pc \in Working
  BY DEF TurnInv, TurnHeld
<1>2. strm[o] \in StrmType /\ sock[o] \in SockType
  BY DEF SafeInv, Typed, TypeOK
\* A goroutine that reads can go on, or the upstream owes it an answer.
<1>3. strm[o].st # "off" => StreamMay(o) \/ UpstreamMay(o)
  <2>1. CASE strm[o].st = "redial"
    BY <2>1 DEF StreamMay
  <2>2. CASE strm[o].st = "read" /\ sock[o].reads = <<>> /\ sock[o].open
    <3>1. sock[o].asked
      BY <2>2 DEF TurnInv, AnswerOwed, Owes
    <3>2. ~ Dead(o)
      BY <2>2 DEF Dead
    <3> QED
      BY <2>2, <3>1, <3>2 DEF UpstreamMay
  <2>3. CASE strm[o].st = "read" /\ (sock[o].reads # <<>> \/ ~ sock[o].open)
    BY <2>3 DEF StreamMay, HasRead, nextReadFails
  <2> QED
    BY <1>2, <2>1, <2>2, <2>3 DEF StrmType
<1>4. CASE cli[c].pc \in Working \ {"lock", "body"}
  BY <1>1, <1>4 DEF HandlerMay
<1>5. CASE cli[c].pc = "lock"
  \* Who dials for the session would hold its turn, so the goroutine has turnMu.
  <2>1. ASSUME NEW d \in Clients, cli[d].obj = o, cli[d].pc = "dial" PROVE FALSE
    BY <1>1, <1>5, <2>1 DEF TurnInv, TurnHeld, Working
  <2>2. strm[o].st = "off" => turnMuFree(o)
    BY <2>1 DEF turnMuFree
  <2> QED
    BY <1>1, <1>3, <1>5, <2>2 DEF HandlerMay
<1>6. CASE cli[c].pc = "body"
  BY <1>1, <1>3, <1>6 DEF TurnInv, PipeServed, SameRequest
<1> QED
  BY <1>1, <1>4, <1>5, <1>6

\* Steps that begin and end no turn.
LEMMA HeldKept ==
    ASSUME TurnHeld, \A o \in Objs : sess'[o].turn = sess[o].turn,
           \A c \in Clients : /\ cli'[c].pc \in Working <=> cli[c].pc \in Working
                              /\ cli[c].pc \in Working => cli'[c].obj = cli[c].obj /\ cli[c].obj \in Objs
    PROVE  TurnHeld'
BY DEF TurnHeld

LEMMA ServedKept ==
    ASSUME PipeServed,
           \A c \in Clients : cli'[c].pc = "body" =>
               /\ cli[c].pc = "body" /\ cli'[c].obj = cli[c].obj
               /\ strm'[cli[c].obj].body = strm[cli[c].obj].body /\ strm'[cli[c].obj].by = strm[cli[c].obj].by
    PROVE  PipeServed'
BY DEF PipeServed

LEMMA OwedKept ==
    ASSUME AnswerOwed, \A o \in Objs : \/ Owes(strm'[o], sock'[o])
                                       \/ strm'[o].st = strm[o].st /\ sock'[o] \in {sock[o], Closed}
    PROVE  AnswerOwed'
<1>1. ~ Closed.open
  BY DEF Closed
<1> QED
  BY <1>1 DEF AnswerOwed, Owes

\* A handler that neither starts nor ends its turn, nor reads, moves.
LEMMA HandlerTurn ==
    ASSUME SafeInv, TurnInv, NEW c \in Clients, strm' = strm,
           \A o \in Objs : sock'[o] \in {sock[o], Closed}, \A o \in Objs : sess'[o].turn = sess[o].turn,
           \A d \in Clients \ {c} : cli'[d] = cli[d],
           cli[c].pc # "body", cli'[c].pc # "body", cli'[c].pc \in Working <=> cli[c].pc \in Working,
           cli[c].pc \in Working => cli'[c].obj = cli[c].obj
    PROVE  TurnInv'
<1>1. \A d \in Clients : cli[d].pc \in Working => cli[d].obj \in Objs
  BY AtWork DEF SafeInv
<1>2. TurnHeld'
  BY <1>1, HeldKept DEF TurnInv
<1>3. PipeServed'
  BY ServedKept DEF TurnInv
<1>4. AnswerOwed'
  BY OwedKept DEF TurnInv
<1> QED
  BY <1>2, <1>3, <1>4 DEF TurnInv

\* The objects that are forgotten have no turn.
LEMMA NoTurnAlone ==
    ASSUME SafeInv, TurnHeld, NEW o \in Objs, \A c \in Clients : cli[c].pc \in Working => cli[c].obj # o
    PROVE  sess[o].turn = None
BY DEF TurnHeld

LEMMA SweptTurn ==
    ASSUME SafeInv, AttachInv, TurnHeld
    PROVE  \A o \in Objs : Swept[o].turn = sess[o].turn
<1> SUFFICES ASSUME NEW o \in removeExpiredLocked PROVE Swept[o].turn = sess[o].turn
  BY SweptIs
<1>1. Swept[o] = NoSess /\ Attached(o) = {} /\ o \in Objs
  BY SweptIs
<1>2. sess[o].turn = None
  BY <1>1, NoTurnAlone DEF Attached
<1> QED
  BY <1>1, <1>2 DEF NoSess

LEMMA SweepTurn ==
    ASSUME SafeInv, AttachInv, TurnInv, Cleanup \/ TimePasses
    PROVE  TurnInv'
<1>t. sess \in [Objs -> SessType]
  BY DEF SafeInv, Typed, TypeOK
<1>1. UNCHANGED <<strm, cli>> /\ \A o \in Objs : sock'[o] \in {sock[o], Closed}
  BY ForgottenContext DEF Cleanup, TimePasses
<1>2. \A o \in Objs : sess'[o].turn = sess[o].turn
  <2> SUFFICES ASSUME NEW o \in Objs PROVE sess'[o].turn = sess[o].turn
    OBVIOUS
  <2>1. sess'[o] \in {sess[o], Swept[o], [sess[o] EXCEPT !.idle = @ + 1]}
    BY DEF Cleanup, TimePasses
  <2>2. [sess[o] EXCEPT !.idle = @ + 1].turn = sess[o].turn
    BY <1>t DEF SessType
  <2> QED
    BY <2>1, <2>2, SweptTurn DEF TurnInv
<1>3. TurnHeld'
  BY <1>1, <1>2, HeldKept, AtWork DEF TurnInv, SafeInv
<1>4. PipeServed'
  BY <1>1, ServedKept DEF TurnInv
<1>5. AnswerOwed'
  BY <1>1, OwedKept DEF TurnInv
<1> QED
  BY <1>3, <1>4, <1>5 DEF TurnInv

LEMMA AcquireTurn ==
    ASSUME SafeInv, AttachInv, TurnInv, NEW c \in Clients, Acquire(c)
    PROVE  TurnInv'
<1>t. cli \in [Clients -> CliType] /\ cli[c] \in CliType /\ sess \in [Objs -> SessType]
  BY DEF SafeInv, Typed, TypeOK
<1>1. /\ cli[c].pc = "ready" /\ sock' = SweptSockets /\ UNCHANGED <<strm, seen, turns, nameless>>
      /\ \/ Refused(c)
         \/ \E o \in Objs : Takes(c, o, sess[o])
         \/ \E o \in Objs : Takes(c, o, Fresh(c)) /\ Opens(c, o)
  BY AcquireIs
<1>2. \A d \in Clients \ {c} : cli'[d] = cli[d]
  BY <1>t, <1>1 DEF Refused, Takes
<1>3. cli'[c].pc \in {"ready", "away", "turn"}
  <2>1. CASE Refused(c)
    BY <1>t, <1>1, <2>1 DEF Refused, Away
  <2>2. ASSUME NEW o \in Objs, NEW s, Takes(c, o, s) PROVE cli'[c].pc = "turn"
    <3>1. cli'[c] = [cli[c] EXCEPT !.obj = o, !.pc = "turn"]
      BY <1>t, <2>2 DEF Takes
    <3> QED
      BY <1>t, <3>1 DEF CliType
  <2> QED
    BY <1>1, <2>1, <2>2
<1>4. ASSUME NEW p \in Objs PROVE sess'[p].turn = sess[p].turn
  <2>0. DOMAIN Swept = Objs /\ Swept[p].turn = sess[p].turn
    BY SweptTurn DEF Swept, TurnInv
  <2>1. CASE Refused(c)
    BY <2>0, <2>1 DEF Refused
  <2>2. ASSUME NEW o \in Objs, NEW s, Takes(c, o, s), s = sess[o] \/ (s = Fresh(c) /\ Opens(c, o))
        PROVE  sess'[p].turn = sess[p].turn
    <3>1. CASE p # o
      BY <2>0, <2>2, <3>1 DEF Takes
    <3>2. CASE p = o /\ s = sess[o]
      BY <1>t, <2>0, <2>2, <3>2 DEF Takes, SessType
    <3>3. CASE p = o /\ s = Fresh(c) /\ Opens(c, o)
      <4>1. sess[p].turn = None
        BY <3>3, NoTurnAlone DEF TurnInv, Opens
      <4>2. sess'[p] = [Fresh(c) EXCEPT !.active = @ + 1, !.idle = 0]
        BY <2>0, <2>2, <3>3 DEF Takes
      <4> QED
        BY <4>1, <4>2 DEF Fresh, NoSess
    <3> QED
      BY <2>2, <3>1, <3>2, <3>3
  <2> QED
    BY <1>1, <2>1, <2>2
<1>5. \A o \in Objs : sock'[o] \in {sock[o], Closed}
  BY <1>1, ForgottenContext
<1>6. cli[c].pc \notin Working /\ cli'[c].pc \notin Working
  BY <1>1, <1>3 DEF Working
<1> QED
  BY <1>1, <1>2, <1>3, <1>4, <1>5, <1>6, HandlerTurn

LEMMA ReleaseTurn ==
    ASSUME SafeInv, AttachInv, TurnInv, NEW c \in Clients, Release(c)
    PROVE  TurnInv'
<1> DEFINE o == cli[c].obj
<1>t. cli \in [Clients -> CliType] /\ sess \in [Objs -> SessType] /\ sock \in [Objs -> SockType] /\ o \in Objs
  BY DEF SafeInv, Typed, TypeOK, Equipped, Release
<1>1. /\ cli[c].pc = "leave" /\ cli'[c] = Away /\ (\A d \in Clients \ {c} : cli'[d] = cli[d]) /\ strm' = strm
  BY <1>t DEF Release
<1>2. \A p \in Objs : sock'[p] \in {sock[p], Closed}
  BY <1>t DEF Release, closeLocked
<1>3. sess[o].active = 1 => sess[o].turn = None
  <2>1. ASSUME sess[o].active = 1 PROVE Attached(o) \ {c} = {}
    <3>1. Attached(o) \in SUBSET Clients /\ c \in Attached(o) /\ Cardinality(Attached(o)) = 1
      BY <2>1, <1>t DEF Attached, AttachInv
    <3>2. Attached(o) \ {c} \in SUBSET Clients
      BY <3>1
    <3>3. Cardinality(Attached(o) \ {c}) = 0
      BY <3>1, Counting
    <3>4. Attached(o) \ {c} # {} => Cardinality(Attached(o) \ {c}) >= 1
      BY <3>2, Counting
    <3> QED
      BY <3>3, <3>4
  <2>2. cli[c].pc \notin Working
    BY <1>1 DEF Working
  <2> QED
    BY <1>t, <2>1, <2>2, NoTurnAlone DEF Attached, TurnInv
<1>4. ASSUME NEW p \in Objs PROVE sess'[p].turn = sess[p].turn
  <2>1. CASE p # o
    BY <1>t, <2>1 DEF Release
  <2>2. CASE p = o
    <3>1. sess[o] \in SessType /\ sess[o].active \in Nat
      BY <1>t DEF SessType
    <3>2. \/ sess'[o] = Forgotten(o, sess[o].active - 1)
          \/ sess'[o] = [sess[o] EXCEPT !.active = @ - 1, !.idle = 0]
      BY <1>t DEF Release
    <3>3. CASE sess'[o] = [sess[o] EXCEPT !.active = @ - 1, !.idle = 0]
      BY <2>2, <3>1, <3>3 DEF SessType
    <3>4. CASE sess'[o] = Forgotten(o, sess[o].active - 1) /\ sess[o].active = 1
      BY <1>3, <2>2, <3>4 DEF Forgotten, NoSess
    <3>5. CASE sess'[o] = Forgotten(o, sess[o].active - 1) /\ sess[o].active # 1
      <4>1. sess'[o] = [sess[o] EXCEPT !.stored = FALSE, !.active = sess[o].active - 1]
        BY <3>1, <3>5 DEF Forgotten
      <4> QED
        BY <2>2, <3>1, <4>1 DEF SessType
    <3> QED
      BY <3>2, <3>3, <3>4, <3>5
  <2> QED
    BY <2>1, <2>2
<1>5. cli'[c].pc = "away"
  BY <1>1 DEF Away
<1>6. cli[c].pc \notin Working /\ cli'[c].pc \notin Working
  BY <1>1, <1>5 DEF Working
<1> QED
  BY <1>1, <1>2, <1>4, <1>5, <1>6, HandlerTurn

Begins(c, ask, native, keep) ==
    /\ cli' = [cli EXCEPT ![c] = [cli[c] EXCEPT
                   !.pc = "try", !.replay = replayRequest(c, cli[c].obj, ask), !.native = native,
                   !.prev = incrementalPrevious(c, cli[c].obj, ask), !.keep = keep]]
    /\ sess' = [sess EXCEPT ![cli[c].obj].turn = c]

\* A turn is refused or begins.
LEMMA BeginTurnIs ==
    ASSUME NEW c \in Clients, BeginTurn(c)
    PROVE  \/ cli' = [cli EXCEPT ![c] = Refuse(c)] /\ sess' = sess
           \/ \E ask \in Asks : \E native, keep : Begins(c, ask, native, keep)
<1>1. PICK ask \in Asks :
        \/ cli' = [cli EXCEPT ![c] = Refuse(c)] /\ UNCHANGED <<sess, turns, nameless>>
        \/ Begins(c, ask, TRUE, TRUE)
        \/ Begins(c, ask, FALSE, FALSE)
        \/ Begins(c, ask, sock[cli[c].obj].open, TRUE)
  BY Zenon DEF BeginTurn, Begins
<1> QED
  BY <1>1

LEMMA BeginTurnHeld ==
    ASSUME SafeInv, TurnInv, NEW c \in Clients, BeginTurn(c)
    PROVE  TurnInv'
<1> DEFINE o == cli[c].obj
<1>t. cli \in [Clients -> CliType] /\ cli[c] \in CliType /\ sess \in [Objs -> SessType] /\ None \notin Clients
  BY SessionsAssumption DEF SafeInv, Typed, TypeOK
<1>1. cli[c].pc = "turn" /\ sess[o].turn = None /\ o \in Objs /\ UNCHANGED <<sock, strm>>
  BY DEF BeginTurn, SafeInv, Typed, Equipped
<1>0. cli[c].pc \notin Working
  BY <1>1 DEF Working
<1>2. CASE cli' = [cli EXCEPT ![c] = Refuse(c)] /\ sess' = sess
  <2>1. cli'[c].pc \in {"ready", "leave"} /\ \A d \in Clients \ {c} : cli'[d] = cli[d]
    BY <1>t, <1>2 DEF Refuse, CliType
  <2>2. cli'[c].pc \notin Working /\ cli'[c].pc # "body"
    BY <2>1 DEF Working
  <2> QED
    BY <1>0, <1>1, <1>2, <2>1, <2>2, HandlerTurn
<1>3. ASSUME NEW ask, NEW native, NEW keep, Begins(c, ask, native, keep)
      PROVE  TurnInv'
  <2>1. cli'[c].pc = "try" /\ cli'[c].obj = o /\ \A d \in Clients \ {c} : cli'[d] = cli[d]
    BY <1>t, <1>3 DEF CliType, Begins
  <2>2. sess'[o].turn = c /\ \A p \in Objs \ {o} : sess'[p].turn = sess[p].turn
    BY <1>t, <1>1, <1>3 DEF SessType, Begins
  <2>3. \A d \in Clients : cli[d].pc \in Working => cli[d].obj \in Objs
    BY AtWork DEF SafeInv
  <2>4. \A d \in Clients \ {c} : cli[d].pc \in Working => cli[d].obj # o
    BY <1>t, <1>1 DEF TurnInv, TurnHeld
  <2>5. TurnHeld'
    <3>1. \A d \in Clients : cli'[d].pc \in Working => sess'[cli'[d].obj].turn = d
      BY <2>1, <2>2, <2>3, <2>4 DEF TurnInv, TurnHeld
    <3>2. ASSUME NEW p \in Objs, sess'[p].turn # None
          PROVE  sess'[p].turn \in Clients /\ cli'[sess'[p].turn].obj = p /\ cli'[sess'[p].turn].pc \in Working
      <4>1. CASE p = o
        BY <2>1, <2>2, <4>1 DEF Working
      <4>2. CASE p # o
        <5>1. sess'[p].turn = sess[p].turn /\ sess[p].turn # c
          BY <1>0, <2>2, <3>2, <4>2 DEF TurnInv, TurnHeld
        <5> QED
          BY <2>1, <3>2, <4>2, <5>1 DEF TurnInv, TurnHeld
      <4> QED
        BY <4>1, <4>2
    <3> QED
      BY <3>1, <3>2 DEF TurnHeld
  <2>6. PipeServed'
    BY <1>1, <2>1, ServedKept DEF TurnInv
  <2>7. AnswerOwed'
    BY <1>1, OwedKept DEF TurnInv
  <2> QED
    BY <2>5, <2>6, <2>7 DEF TurnInv
<1> QED
  BY <1>2, <1>3, BeginTurnIs

LEMMA TurnEnds ==
    ASSUME SafeInv, TurnInv, NEW c \in Clients, GiveUp(c) \/ Prewarm(c) \/ Commit(c) \/ Interrupted(c)
    PROVE  TurnInv'
<1> DEFINE o == cli[c].obj
<1>t. cli \in [Clients -> CliType] /\ sess \in [Objs -> SessType] /\ Typed /\ None \notin Clients
  BY SessionsAssumption DEF SafeInv, Typed, TypeOK
<1>1. cli[c].pc \in Working /\ cli[c].pc # "body" /\ UNCHANGED <<sock, strm>>
  BY DEF GiveUp, Prewarm, Commit, Interrupted, Working
<1>2. o \in Objs /\ cli[c].replay \in Items /\ cli[c].got \in Items /\ sess[o] \in SessType
  BY <1>t, <1>1, AtWork
<1>3. \E s \in SessType : EndTurn(c, s) \/ EndTurnTo(c, s, "leave")
  <2>1. NoId \in Items
    BY Blank
  <2>2. \A r \in Items : commit(o, cli[c].replay, r) \in SessType
    BY <1>t, <1>2, CommitTyped DEF Typed
  <2> QED
    BY <1>2, <2>1, <2>2 DEF GiveUp, Prewarm, Commit, Interrupted
<1>4. PICK s \in SessType, pc \in {"ready", "leave"} : EndTurnTo(c, s, pc)
  BY <1>3 DEF EndTurn
<1>5. cli'[c].pc = pc /\ \A d \in Clients \ {c} : cli'[d] = cli[d]
  BY <1>t, <1>4 DEF EndTurnTo, Away
<1>6. sess'[o].turn = None /\ \A p \in Objs \ {o} : sess'[p] = sess[p]
  <2>1. sess'[o] = [s EXCEPT !.turn = None]
    BY <1>t, <1>2, <1>4 DEF EndTurnTo
  <2> QED
    BY <1>t, <1>4, <2>1 DEF EndTurnTo, SessType
<1>7. sess[o].turn = c /\ cli'[c].pc \notin Working /\ cli'[c].pc # "body"
  BY <1>1, <1>5 DEF TurnInv, TurnHeld, Working
<1>8. TurnHeld'
  <2>1. ASSUME NEW d \in Clients, cli'[d].pc \in Working PROVE sess'[cli'[d].obj].turn = d
    <3>1. d # c /\ cli'[d] = cli[d] /\ cli[d].pc \in Working
      BY <1>5, <1>7, <2>1
    <3>2. cli[d].obj \in Objs /\ sess[cli[d].obj].turn = d
      BY <1>t, <3>1, AtWork DEF TurnInv, TurnHeld
    <3> QED
      BY <1>6, <1>7, <3>1, <3>2
  <2>2. ASSUME NEW p \in Objs, sess'[p].turn # None
        PROVE  sess'[p].turn \in Clients /\ cli'[sess'[p].turn].obj = p /\ cli'[sess'[p].turn].pc \in Working
    <3>1. p # o /\ sess'[p] = sess[p]
      BY <1>6, <2>2
    <3>2. sess[p].turn \in Clients /\ cli[sess[p].turn].obj = p /\ cli[sess[p].turn].pc \in Working
      BY <2>2, <3>1 DEF TurnInv, TurnHeld
    <3>3. sess[p].turn # c
      BY <3>1, <3>2
    <3> QED
      BY <1>5, <3>1, <3>2, <3>3
  <2> QED
    BY <2>1, <2>2 DEF TurnHeld
<1>9. PipeServed'
  BY <1>1, <1>5, <1>7, ServedKept DEF TurnInv
<1>10. AnswerOwed'
  BY <1>1, OwedKept DEF TurnInv
<1> QED
  BY <1>8, <1>9, <1>10 DEF TurnInv

LEMMA ClientTurn ==
    ASSUME SafeInv, AttachInv, TurnInv, NEW c \in Clients,
           Connect(c) \/ Message(c) \/ Attempt(c) \/ HttpDone(c) \/ HttpFails(c)
    PROVE  TurnInv'
<1>t. cli \in [Clients -> CliType] /\ cli[c] \in CliType /\ sock \in [Objs -> SockType]
  BY DEF SafeInv, Typed, TypeOK
<1>1. UNCHANGED <<sess, strm>> /\ (\A o \in Objs : sock'[o] \in {sock[o], Closed})
      /\ cli[c].pc # "body" /\ \A d \in Clients \ {c} : cli'[d] = cli[d]
  BY <1>t DEF Connect, Message, Attempt, HttpDone, HttpFails, closeLocked
<1>2. \/ cli[c].pc \notin Working /\ cli'[c].pc \notin Working
      \/ cli[c].pc \in Working /\ cli'[c].pc \in Working \ {"body"} /\ cli'[c].obj = cli[c].obj
  <2>1. CASE Connect(c)
    <3>1. cli'[c].pc = "ready" /\ cli[c].pc = "away"
      BY <1>t, <2>1 DEF Connect, Away
    <3> QED
      BY <3>1 DEF Working
  <2>2. CASE Message(c)
    <3>1. cli'[c].pc = "turn" /\ cli[c].pc = "ready"
      BY <1>t, <2>2 DEF Message, CliType
    <3> QED
      BY <3>1 DEF Working
  <2>3. CASE Attempt(c)
    <3>1. \E pc \in {"lock", "http"} : \E t : cli'[c] = [cli[c] EXCEPT !.pc = pc, !.target = t, !.att = @ + 1]
      BY <1>t, <2>3 DEF Attempt
    <3>2. cli'[c].pc \in {"lock", "http"} /\ cli'[c].obj = cli[c].obj
      BY <1>t, <3>1 DEF CliType
    <3>3. cli[c].pc = "try"
      BY <2>3 DEF Attempt
    <3> QED
      BY <3>2, <3>3 DEF Working
  <2>4. CASE HttpDone(c) \/ HttpFails(c)
    <3>1. cli[c].pc = "http" /\ \E r : \E pc \in {"done", "try", "broken"} : cli'[c] = Outcome(cli[c], pc, r)
      BY <1>t, <2>4 DEF HttpDone, HttpFails
    <3>2. PICK r : \E pc \in {"done", "try", "broken"} : cli'[c] = Outcome(cli[c], pc, r)
      BY <3>1
    <3>3. PICK pc \in {"done", "try", "broken"} : cli'[c] = Outcome(cli[c], pc, r)
      BY <3>2
    <3>4. cli'[c].pc = pc /\ cli'[c].obj = cli[c].obj
      BY <1>t, <3>3 DEF Outcome, CliType
    <3> QED
      BY <3>1, <3>4 DEF Working
  <2> QED
    BY <2>1, <2>2, <2>3, <2>4
<1>3. cli'[c].pc # "body"
  BY <1>2 DEF Working
<1>4. \A o \in Objs : sess'[o].turn = sess[o].turn
  BY <1>1
<1> QED
  BY <1>1, <1>2, <1>3, <1>4, HandlerTurn

\* A handler goes to the goroutine it started.
LEMMA StartTurn ==
    ASSUME SafeInv, SameRequest, TurnInv, NEW c \in Clients, cli[c].pc \in {"lock", "dial"}, UNCHANGED sess,
           startStream(c, cli[c].obj), strm[cli[c].obj].st = "off", cli' = [cli EXCEPT ![c].pc = "body"],
           NEW k, sock' = [sock EXCEPT ![cli[c].obj] = k], k.asked
    PROVE  TurnInv'
<1> DEFINE o == cli[c].obj
<1>1. cli[c].pc \in Working
  BY DEF Working
<1>t. /\ cli \in [Clients -> CliType] /\ cli[c] \in CliType /\ strm \in [Objs -> StrmType]
      /\ sock \in [Objs -> SockType] /\ o \in Objs
  BY <1>1, AtWork DEF SafeInv, Typed, TypeOK
<1>2. /\ strm'[o].body /\ strm'[o].by = c /\ sock'[o] = k
      /\ \A p \in Objs \ {o} : strm'[p] = strm[p] /\ sock'[p] = sock[p]
  BY <1>t DEF startStream, NoStream
<1>3. cli'[c].pc = "body" /\ cli'[c].obj = o /\ \A d \in Clients \ {c} : cli'[d] = cli[d]
  BY <1>t DEF CliType
<1>4. \A d \in Clients : cli[d].pc \in Working => cli[d].obj \in Objs
  BY AtWork DEF SafeInv
<1>5. \A d \in Clients : /\ cli'[d].pc \in Working <=> cli[d].pc \in Working
                         /\ cli[d].pc \in Working => cli'[d].obj = cli[d].obj /\ cli[d].obj \in Objs
  BY <1>1, <1>3, <1>4 DEF Working
<1>6. TurnHeld'
  BY <1>5, HeldKept DEF TurnInv
<1>7. PipeServed'
  <2> SUFFICES ASSUME NEW d \in Clients, cli'[d].pc = "body"
               PROVE  strm'[cli'[d].obj].body /\ strm'[cli'[d].obj].by = d
    BY DEF PipeServed
  <2>1. CASE d = c
    BY <1>2, <1>3, <2>1
  <2>2. CASE d # c
    <3>1. cli'[d] = cli[d] /\ strm[cli[d].obj].body /\ strm[cli[d].obj].by = d /\ cli[d].obj \in Objs
      BY <1>3, <1>4, <2>2 DEF TurnInv, PipeServed, Working
    <3>2. cli[d].obj # o
      BY <1>t, <3>1 DEF SameRequest
    <3> QED
      BY <1>2, <3>1, <3>2
  <2> QED
    BY <2>1, <2>2
<1>8. AnswerOwed'
  <2>1. Owes(strm'[o], sock'[o])
    BY <1>2 DEF Owes
  <2> QED
    BY <1>2, <2>1, OwedKept DEF TurnInv
<1> QED
  BY <1>6, <1>7, <1>8 DEF TurnInv

LEMMA RoundTripTurn ==
    ASSUME SafeInv, SameRequest, TurnInv, NEW c \in Clients, RoundTrip(c)
    PROVE  TurnInv'
<1> DEFINE o == cli[c].obj
           k == [sock[o] EXCEPT !.asked = TRUE,
                                !.ctx = Context(sock[o].known, cli[c].prev, cli[c].replay[Len(cli[c].replay)])]
<1>1. cli[c].pc = "lock" /\ turnMuFree(o) /\ sess' = sess
  BY DEF RoundTrip
<1>2. cli[c].pc \in Working
  BY <1>1 DEF Working
<1>t. cli \in [Clients -> CliType] /\ sock \in [Objs -> SockType] /\ o \in Objs /\ cli[c] \in CliType
  BY <1>2, AtWork DEF SafeInv, Typed, TypeOK
<1>3. CASE sock' = [sock EXCEPT ![o] = k] /\ startStream(c, o) /\ cli' = [cli EXCEPT ![c].pc = "body"]
  <2>1. k.asked
    BY <1>t DEF SockType
  <2>2. strm[o].st = "off"
    BY <1>1 DEF turnMuFree
  <2> HIDE DEF k
  <2> QED
    BY <1>1, <1>3, <2>1, <2>2, StartTurn
<1>4. CASE sock' = closeLocked(o) /\ cli' = [cli EXCEPT ![c].pc = "dial"] /\ UNCHANGED strm
  <2>1. \A p \in Objs : sock'[p] \in {sock[p], Closed}
    BY <1>t, <1>4 DEF closeLocked
  <2>2. cli'[c].pc = "dial" /\ cli'[c].obj = cli[c].obj /\ \A d \in Clients \ {c} : cli'[d] = cli[d]
    BY <1>t, <1>4 DEF CliType
  <2>3. cli'[c].pc \in Working
    BY <2>2 DEF Working
  <2> QED
    BY <1>1, <1>2, <1>4, <2>1, <2>2, <2>3, HandlerTurn
<1> QED
  BY <1>3, <1>4 DEF RoundTrip

LEMMA DialTurn ==
    ASSUME SafeInv, SameRequest, TurnInv, NEW c \in Clients, Dial(c)
    PROVE  TurnInv'
<1> DEFINE o == cli[c].obj
<1>1. cli[c].pc = "dial" /\ sess' = sess
  BY DEF Dial
<1>2. cli[c].pc \in Working
  BY <1>1 DEF Working
<1>t. cli \in [Clients -> CliType] /\ sock \in [Objs -> SockType] /\ o \in Objs /\ cli[c] \in CliType
  BY <1>2, AtWork DEF SafeInv, Typed, TypeOK
<1>3. CASE sock' = [sock EXCEPT ![o] = Dialled(cli[c].target, cli[c].replay)] /\ startStream(c, o)
           /\ cli' = [cli EXCEPT ![c].pc = "body"]
  <2>1. strm[o].st = "off"
    BY <1>1, <1>t DEF SafeInv, SocketInv, OneOnSocket
  <2>2. Dialled(cli[c].target, cli[c].replay).asked
    BY DEF Dialled, Closed
  <2> QED
    BY <1>1, <1>3, <2>1, <2>2, StartTurn
<1>4. ASSUME NEW pc \in {"try", "http"}, cli' = [cli EXCEPT ![c].pc = pc], sock' = closeLocked(o), UNCHANGED strm
      PROVE  TurnInv'
  <2>1. \A p \in Objs : sock'[p] \in {sock[p], Closed}
    BY <1>t, <1>4 DEF closeLocked
  <2>2. cli'[c].pc = pc /\ cli'[c].obj = cli[c].obj /\ \A d \in Clients \ {c} : cli'[d] = cli[d]
    BY <1>t, <1>4 DEF CliType
  <2>3. cli'[c].pc \in Working /\ cli'[c].pc # "body"
    BY <2>2 DEF Working
  <2> QED
    BY <1>1, <1>2, <1>4, <2>1, <2>2, <2>3, HandlerTurn
<1> QED
  BY <1>3, <1>4 DEF Dial

\* Steps that keep sessions and turns and may close sockets.
LEMMA CutTurn ==
    ASSUME SafeInv, TurnInv, UNCHANGED sess, PipeServed',
           \A o \in Objs : strm'[o].st = strm[o].st /\ sock'[o] \in {sock[o], Closed},
           \A c \in Clients : /\ cli'[c].pc \in Working <=> cli[c].pc \in Working
                              /\ cli[c].pc \in Working => cli'[c].obj = cli[c].obj
    PROVE  TurnInv'
<1>1. TurnHeld'
  BY HeldKept, AtWork DEF TurnInv, SafeInv
<1>2. AnswerOwed'
  BY OwedKept DEF TurnInv
<1> QED
  BY <1>1, <1>2 DEF TurnInv

LEMMA CloseBodyTurn ==
    ASSUME SafeInv, TurnInv, NEW c \in Clients, CloseBody(c)
    PROVE  TurnInv'
<1> DEFINE o == cli[c].obj
<1>1. /\ cli[c].pc = "body" /\ sess' = sess /\ sock' = closeLocked(o) /\ strm' = [strm EXCEPT ![o].body = FALSE]
      /\ \E pc \in {"cutoff", "closing"} : cli' = [cli EXCEPT ![c].pc = pc]
  BY DEF CloseBody
<1>2. PICK pc \in {"cutoff", "closing"} : cli' = [cli EXCEPT ![c].pc = pc]
  BY <1>1
<1>t. /\ cli \in [Clients -> CliType] /\ cli[c] \in CliType /\ strm \in [Objs -> StrmType]
      /\ sock \in [Objs -> SockType] /\ o \in Objs /\ strm[o] \in StrmType
  BY <1>1, AtWork DEF SafeInv, Typed, TypeOK, Working
<1>3. cli'[c].pc = pc /\ cli'[c].obj = o /\ \A d \in Clients \ {c} : cli'[d] = cli[d]
  BY <1>t, <1>2 DEF CliType
<1>4. \A d \in Clients : /\ cli'[d].pc \in Working <=> cli[d].pc \in Working
                         /\ cli[d].pc \in Working => cli'[d].obj = cli[d].obj
  BY <1>1, <1>3 DEF Working
<1>5. \A p \in Objs : strm'[p].st = strm[p].st /\ sock'[p] \in {sock[p], Closed}
  BY <1>t, <1>1 DEF closeLocked, StrmType
<1>6. PipeServed'
  <2> SUFFICES ASSUME NEW d \in Clients, cli'[d].pc = "body"
               PROVE  strm'[cli'[d].obj].body /\ strm'[cli'[d].obj].by = d
    BY DEF PipeServed
  <2>1. d # c /\ cli'[d] = cli[d] /\ strm[cli[d].obj].body /\ strm[cli[d].obj].by = d
    BY <1>3 DEF TurnInv, PipeServed
  <2>2. strm[o].by = c
    BY <1>1 DEF TurnInv, PipeServed
  <2>3. cli[d].obj # o
    BY <2>1, <2>2
  <2>4. strm'[cli[d].obj] = strm[cli[d].obj]
    BY <1>1, <2>3
  <2> QED
    BY <2>1, <2>4
<1> QED
  BY <1>1, <1>4, <1>5, <1>6, CutTurn

LEMMA CancelAttemptTurn ==
    ASSUME SafeInv, TurnInv, NEW c \in Clients, CancelAttempt(c)
    PROVE  TurnInv'
<1> DEFINE o == cli[c].obj
<1>t. /\ cli \in [Clients -> CliType] /\ cli[c] \in CliType /\ strm \in [Objs -> StrmType] /\ sock \in [Objs -> SockType]
  BY DEF SafeInv, Typed, TypeOK
<1>1. /\ sess' = sess /\ cli[c].pc \in {"closing", "cutoff"}
      /\ strm' \in {strm, [strm EXCEPT ![o].live = FALSE]}
      /\ sock' \in {sock, closeLocked(o)}
      /\ \E pc \in {"broken", "try"} : cli' = [cli EXCEPT ![c] = Outcome(cli[c], pc, NoId)]
  BY DEF CancelAttempt
<1>2. PICK pc \in {"broken", "try"} : cli' = [cli EXCEPT ![c] = Outcome(cli[c], pc, NoId)]
  BY <1>1
<1>3. cli'[c].pc = pc /\ cli'[c].obj = o /\ \A d \in Clients \ {c} : cli'[d] = cli[d]
  BY <1>t, <1>2 DEF Outcome, CliType
<1>4. \A d \in Clients : /\ cli'[d].pc \in Working <=> cli[d].pc \in Working
                         /\ cli[d].pc \in Working => cli'[d].obj = cli[d].obj
  BY <1>1, <1>3 DEF Working
<1>5. \A p \in Objs : /\ strm'[p].st = strm[p].st /\ sock'[p] \in {sock[p], Closed}
                      /\ strm'[p].body = strm[p].body /\ strm'[p].by = strm[p].by
  BY <1>t, <1>1 DEF closeLocked, StrmType
<1>6. PipeServed'
  <2>1. \A d \in Clients : cli[d].pc = "body" => cli[d].obj \in Objs
    BY AtWork DEF SafeInv, Working
  <2> QED
    BY <1>3, <1>5, <2>1, ServedKept DEF TurnInv
<1> QED
  BY <1>1, <1>4, <1>5, <1>6, CutTurn

LEMMA ClientGoneTurn ==
    ASSUME SafeInv, TurnInv, NEW c \in Clients, ClientGone(c)
    PROVE  TurnInv'
<1>t. cli \in [Clients -> CliType] /\ strm \in [Objs -> StrmType] /\ sock \in [Objs -> SockType]
  BY DEF SafeInv, Typed, TypeOK
<1>1. sess' = sess
  BY DEF ClientGone
<1>2. ASSUME NEW d \in Clients
      PROVE  /\ cli'[d].obj = cli[d].obj
             /\ \/ cli'[d].pc = cli[d].pc
                \/ cli[d].pc \in {"ready", "turn"} /\ cli'[d].pc \in {"away", "leave"}
  <2>1. \/ cli'[d] = cli[d]
        \/ cli'[d] = [cli[d] EXCEPT !.live = FALSE,
                             !.pc = IF @ \in {"ready", "turn"}
                                    THEN IF cli[d].obj = None THEN "away" ELSE "leave" ELSE @]
    BY DEF ClientGone, Gone
  <2> QED
    BY <1>t, <2>1 DEF CliType
<1>3. \A d \in Clients : /\ cli'[d].pc \in Working <=> cli[d].pc \in Working
                         /\ cli'[d].pc = "body" => cli[d].pc = "body"
  BY <1>2 DEF Working
<1>4. ASSUME NEW o \in Objs
      PROVE  /\ strm'[o].st = strm[o].st /\ sock'[o] \in {sock[o], Closed}
             /\ strm'[o].body = strm[o].body /\ strm'[o].by = strm[o].by
  <2>1. strm'[o] \in {strm[o], [strm[o] EXCEPT !.live = FALSE]} /\ sock'[o] \in {sock[o], Closed}
    BY DEF ClientGone, Gone
  <2>2. strm[o] \in StrmType
    BY <1>t
  <2> QED
    BY <2>1, <2>2 DEF StrmType
<1>5. PipeServed'
  <2>1. \A d \in Clients : cli[d].pc = "body" => cli[d].obj \in Objs
    BY AtWork DEF SafeInv, Working
  <2> QED
    BY <1>2, <1>3, <1>4, <2>1, ServedKept DEF TurnInv
<1> QED
  BY <1>1, <1>2, <1>3, <1>4, <1>5, CutTurn

\* A frame that ends an answer, or the failure of the reader, is read in its place.
LEMMA ReaderTurn ==
    ASSUME SafeInv, TurnInv, NEW o \in Objs,
           UpstreamFrame(o) \/ ReadFails(o) \/ detachReadFailure(o) \/ expireConnection(o)
    PROVE  TurnInv'
<1>t. sock \in [Objs -> SockType] /\ sock[o] \in SockType /\ sock[o].reads \in Seq(Frames)
  BY DEF SafeInv, Typed, TypeOK, SockType
<1>1. UNCHANGED <<sess, strm, cli>>
  BY DEF UpstreamFrame, ReadFails, detachReadFailure, expireConnection
<1>2. \A p \in Objs \ {o} : sock'[p] = sock[p]
  BY <1>t DEF UpstreamFrame, ReadFails, detachReadFailure, expireConnection, closeLocked
<1>3. ASSUME NEW f \in Frames, f.kind \in Final \cup {"err"}, sock'[o].reads = Append(sock[o].reads, f)
      PROVE  Owes(strm'[o], sock'[o])
  <2>1. LET n == Len(sock[o].reads) + 1
        IN  n \in DOMAIN Append(sock[o].reads, f) /\ Append(sock[o].reads, f)[n] = f
    <3> HIDE DEF Frames
    <3> QED
      BY <1>t
  <2> QED
    BY <1>3, <2>1 DEF Owes
<1>4. Owes(strm'[o], sock'[o])
  <2>0. Owes(strm[o], sock[o])
    BY DEF TurnInv, AnswerOwed
  <2> DEFINE frame(kind, r) == [kind |-> kind, resp |-> r]
             pushed(f, asked, known) ==
               [sock[o] EXCEPT !.reads = Append(@, f), !.asked = asked, !.known = known,
                               !.ctx = IF asked THEN @ ELSE <<>>]
  <2>1. CASE UpstreamFrame(o)
    <3>1. \/ sock'[o] = pushed(frame("missing", NoId), FALSE, sock[o].known)
          \/ sock'[o] = pushed(frame("output", NoId), TRUE, sock[o].known)
          \/ sock'[o] = pushed(frame("completed", sock[o].ctx), FALSE, sock[o].known \cup {sock[o].ctx})
          \/ sock'[o] = pushed(frame("failed", NoId), FALSE, sock[o].known)
      BY <1>t, <2>1 DEF UpstreamFrame
    <3>2. \/ sock'[o] = pushed(frame("output", NoId), TRUE, sock[o].known)
          \/ \E f \in Frames, known \in {sock[o].known, sock[o].known \cup {sock[o].ctx}} :
                f.kind \in Final /\ sock'[o] = pushed(f, FALSE, known)
      <4>1. /\ frame("missing", NoId) \in Frames /\ frame("failed", NoId) \in Frames
            /\ frame("completed", sock[o].ctx) \in Frames
        BY <1>t, Blank DEF Frames, SockType
      <4>2. /\ frame("missing", NoId).kind = "missing" /\ frame("failed", NoId).kind = "failed"
            /\ frame("completed", sock[o].ctx).kind = "completed"
        OBVIOUS
      <4> HIDE DEF frame, pushed
      <4> QED
        BY <3>1, <4>1, <4>2 DEF Final
    <3>3. CASE sock'[o] = pushed(frame("output", NoId), TRUE, sock[o].known)
      <4>1. sock'[o].asked
        BY <1>t, <3>3 DEF SockType
      <4> QED
        BY <4>1 DEF Owes
    <3>4. ASSUME NEW f \in Frames, NEW known, f.kind \in Final, sock'[o] = pushed(f, FALSE, known)
          PROVE  Owes(strm'[o], sock'[o])
      <4>1. sock'[o].reads = Append(sock[o].reads, f)
        <5> HIDE DEF Frames
        <5> QED
          BY <1>t, <3>4 DEF SockType
      <4> QED
        BY <1>3, <3>4, <4>1
    <3> HIDE DEF frame, pushed
    <3> QED
      BY <3>2, <3>3, <3>4
  <2>2. CASE ReadFails(o)
    <3>1. sock'[o] = [sock[o] EXCEPT !.reads = Append(@, [kind |-> "err", resp |-> NoId])]
      BY <1>t, <2>2 DEF ReadFails
    <3>2. [kind |-> "err", resp |-> NoId] \in Frames
      BY Blank DEF Frames
    <3>3. sock'[o].reads = Append(sock[o].reads, [kind |-> "err", resp |-> NoId])
      BY <1>t, <3>1 DEF SockType
    <3> QED
      BY <1>3, <3>2, <3>3
  <2>3. CASE detachReadFailure(o)
    <3>1. ~ sock'[o].open
      BY <1>t, <2>3 DEF detachReadFailure, Closed
    <3> QED
      BY <3>1 DEF Owes
  <2>4. CASE expireConnection(o)
    <3>1. sock'[o] = [sock[o] EXCEPT !.aged = TRUE] \/ ~ sock'[o].open
      <4>1. sock'[o] = [sock[o] EXCEPT !.aged = TRUE] \/ sock'[o] = Closed
        BY <1>t, <2>4 DEF expireConnection, closeLocked
      <4> QED
        BY <4>1 DEF Closed
    <3>2. [sock[o] EXCEPT !.aged = TRUE].asked = sock[o].asked /\ [sock[o] EXCEPT !.aged = TRUE].open = sock[o].open
          /\ [sock[o] EXCEPT !.aged = TRUE].reads = sock[o].reads
      BY <1>t DEF SockType
    <3> QED
      BY <1>1, <2>0, <3>1, <3>2 DEF Owes
  <2> QED
    BY <2>1, <2>2, <2>3, <2>4
<1>5. TurnHeld' /\ PipeServed'
  BY <1>1 DEF TurnInv, TurnHeld, PipeServed
<1>6. AnswerOwed'
  BY <1>1, <1>2, <1>4 DEF TurnInv, AnswerOwed
<1> QED
  BY <1>5, <1>6 DEF TurnInv

\* The goroutine ends and tells the handler at its pipe.
LEMMA FinishTurnHeld ==
    ASSUME SafeInv, TurnInv, NEW o \in Objs, NEW pc \in {"try", "http", "broken", "done"}, NEW r, Tell(o, pc, r),
           NEW k, finishTurn(o, k), UNCHANGED sess
    PROVE  TurnInv'
<1>t. cli \in [Clients -> CliType] /\ strm \in [Objs -> StrmType] /\ sock \in [Objs -> SockType]
  BY DEF SafeInv, Typed, TypeOK
<1>1. strm'[o] = NoStream /\ \A p \in Objs \ {o} : strm'[p] = strm[p] /\ sock'[p] = sock[p]
  BY <1>t DEF finishTurn
<1>2. \A d \in Clients : cli[d].pc \in Working => cli[d].obj \in Objs
  BY AtWork DEF SafeInv
<1>3. ASSUME NEW d \in Clients
      PROVE  /\ cli'[d].pc \in Working <=> cli[d].pc \in Working
             /\ cli[d].pc \in Working => cli'[d].obj = cli[d].obj
             /\ cli'[d].pc = "body" => cli'[d] = cli[d] /\ ~ (strm[o].body /\ strm[o].by = d)
  <2>1. CASE strm[o].body /\ strm[o].by = d
    <3>1. cli[d].pc = "body" /\ cli'[d] = Outcome(cli[d], pc, r) /\ cli[d] \in CliType
      BY <1>t, <2>1 DEF Tell, SafeInv, SocketInv, PipeRead
    <3>2. cli'[d].pc = pc /\ cli'[d].obj = cli[d].obj
      BY <3>1 DEF Outcome, CliType
    <3> QED
      BY <3>1, <3>2 DEF Working
  <2>2. CASE ~ (strm[o].body /\ strm[o].by = d)
    <3>1. cli'[d] = cli[d]
      BY <1>t, <2>2 DEF Tell
    <3> QED
      BY <2>2, <3>1
  <2> QED
    BY <2>1, <2>2
<1>4. TurnHeld'
  BY <1>2, <1>3, HeldKept DEF TurnInv
<1>5. PipeServed'
  <2> SUFFICES ASSUME NEW d \in Clients, cli'[d].pc = "body"
               PROVE  strm'[cli'[d].obj].body /\ strm'[cli'[d].obj].by = d
    BY DEF PipeServed
  <2>1. /\ cli'[d] = cli[d] /\ ~ (strm[o].body /\ strm[o].by = d)
        /\ strm[cli[d].obj].body /\ strm[cli[d].obj].by = d /\ cli[d].obj \in Objs
    BY <1>2, <1>3 DEF TurnInv, PipeServed, Working
  <2> QED
    BY <1>1, <2>1
<1>6. AnswerOwed'
  <2>1. Owes(strm'[o], sock'[o])
    BY <1>1 DEF Owes, NoStream
  <2> QED
    BY <1>1, <2>1, OwedKept DEF TurnInv
<1> QED
  BY <1>4, <1>5, <1>6 DEF TurnInv

\* The goroutine goes on.
LEMMA GoesOnTurn ==
    ASSUME SafeInv, TurnInv, NEW o \in Objs, UNCHANGED <<sess, cli>>,
           NEW g, strm' = [strm EXCEPT ![o] = g], NEW k, sock' = [sock EXCEPT ![o] = k],
           g.by = strm[o].by, g.body = strm[o].body, Owes(g, k)
    PROVE  TurnInv'
<1>t. strm \in [Objs -> StrmType] /\ sock \in [Objs -> SockType]
  BY DEF SafeInv, Typed, TypeOK
<1>1. strm'[o] = g /\ sock'[o] = k /\ \A p \in Objs \ {o} : strm'[p] = strm[p] /\ sock'[p] = sock[p]
  BY <1>t
<1>2. TurnHeld'
  BY DEF TurnInv, TurnHeld
<1>3. PipeServed'
  <2>1. \A d \in Clients : cli[d].pc = "body" => cli[d].obj \in Objs
    BY AtWork DEF SafeInv, Working
  <2> QED
    BY <1>1, <2>1, ServedKept DEF TurnInv
<1>4. AnswerOwed'
  BY <1>1, OwedKept DEF TurnInv
<1> QED
  BY <1>2, <1>3, <1>4 DEF TurnInv

LEMMA RetryOrFailTurn ==
    ASSUME SafeInv, TurnInv, NEW o \in Objs, RetryOrFail(o), UNCHANGED sess
    PROVE  TurnInv'
<1>t. strm[o] \in StrmType
  BY DEF SafeInv, Typed, TypeOK
<1>1. CASE /\ strm' = [strm EXCEPT ![o] = [@ EXCEPT !.st = "redial", !.retried = TRUE]]
           /\ sock' = closeLocked(o) /\ UNCHANGED cli
  <2> DEFINE g == [strm[o] EXCEPT !.st = "redial", !.retried = TRUE]
  <2>1. strm' = [strm EXCEPT ![o] = g] /\ sock' = [sock EXCEPT ![o] = Closed]
    BY <1>1 DEF closeLocked
  <2>2. g.st = "redial" /\ g.by = strm[o].by /\ g.body = strm[o].body
    BY <1>t DEF StrmType
  <2>3. Owes(g, Closed)
    BY <2>2 DEF Owes
  <2>4. UNCHANGED <<sess, cli>>
    BY <1>1
  <2> HIDE DEF g
  <2> QED
    BY <2>1, <2>2, <2>3, <2>4, GoesOnTurn
<1>2. CASE Tell(o, IF strm[o].sem THEN "broken" ELSE "try", NoId) /\ finishTurn(o, Closed)
  <2>1. PICK pc \in {"broken", "try"} : Tell(o, pc, NoId)
    BY <1>2
  <2> QED
    BY <1>2, <2>1, FinishTurnHeld
<1> QED
  BY <1>1, <1>2 DEF RetryOrFail

LEMMA StreamReadTurn ==
    ASSUME SafeInv, TurnInv, NEW o \in Objs, StreamRead(o)
    PROVE  TurnInv'
<1> DEFINE f == Head(sock[o].reads)
           popped == [sock[o] EXCEPT !.reads = Tail(@)]
<1>t. strm[o] \in StrmType /\ sock[o] \in SockType /\ sock[o].reads \in Seq(Frames)
  BY DEF SafeInv, Typed, TypeOK, SockType
<1>0. strm[o].st = "read" /\ sess' = sess
  BY DEF StreamRead
<1>2. CASE RetryOrFail(o)
  BY <1>0, <1>2, RetryOrFailTurn
<1>3. ASSUME NEW pc \in {"try", "broken"}, Tell(o, pc, NoId), finishTurn(o, Closed) PROVE TurnInv'
  BY <1>0, <1>3, FinishTurnHeld
<1>4. CASE HasRead(o) /\ f.kind = "output" /\ strm' = [strm EXCEPT ![o].sem = TRUE] /\ UNCHANGED cli
           /\ sock' = [sock EXCEPT ![o] = popped]
  <2> DEFINE g == [strm[o] EXCEPT !.sem = TRUE]
  <2>1. g.by = strm[o].by /\ g.body = strm[o].body /\ strm' = [strm EXCEPT ![o] = g]
    BY <1>t, <1>4 DEF StrmType
  <2>2. popped.reads = Tail(sock[o].reads) /\ popped.asked = sock[o].asked /\ popped.open = sock[o].open
    BY <1>t DEF SockType
  <2>3. Owes(g, popped)
    <3> SUFFICES ASSUME sock[o].open, ~ sock[o].asked
                 PROVE  \E i \in DOMAIN Tail(sock[o].reads) : Tail(sock[o].reads)[i].kind \in Final \cup {"err"}
      BY <2>2 DEF Owes
    <3>1. PICK i \in DOMAIN sock[o].reads : sock[o].reads[i].kind \in Final \cup {"err"}
      BY <1>0 DEF TurnInv, AnswerOwed, Owes
    <3>2. i # 1
      <4>1. sock[o].reads[1].kind = "output"
        BY <1>t, <1>4 DEF HasRead
      <4> QED
        BY <3>1, <4>1 DEF Final
    <3>3. i - 1 \in DOMAIN Tail(sock[o].reads) /\ Tail(sock[o].reads)[i - 1] = sock[o].reads[i]
      BY <1>t, <1>4, <3>1, <3>2 DEF HasRead
    <3> QED
      BY <3>1, <3>3
  <2> HIDE DEF g, popped
  <2> QED
    BY <1>0, <1>4, <2>1, <2>3, GoesOnTurn
<1>5. CASE UNCHANGED cli /\ finishTurn(o, WriteFailed(o)) /\ ~ strm[o].body
  <2>1. Tell(o, "try", NoId)
    BY <1>5 DEF Tell
  <2> QED
    BY <1>0, <1>5, <2>1, FinishTurnHeld
<1>6. ASSUME NEW k, Tell(o, "done", f.resp), finishTurn(o, k) PROVE TurnInv'
  BY <1>0, <1>6, FinishTurnHeld
<1>7. \/ RetryOrFail(o)
      \/ \E pc \in {"try", "broken"} : Tell(o, pc, NoId) /\ finishTurn(o, Closed)
      \/ HasRead(o) /\ f.kind = "output" /\ UNCHANGED cli
         /\ \/ strm' = [strm EXCEPT ![o].sem = TRUE] /\ sock' = [sock EXCEPT ![o] = popped]
            \/ ~ strm[o].body /\ finishTurn(o, WriteFailed(o))
      \/ Tell(o, "done", f.resp) /\ \E k : finishTurn(o, k)
  BY DEF StreamRead
<1> HIDE DEF f, popped
<1> QED
  BY <1>2, <1>3, <1>4, <1>5, <1>6, <1>7

LEMMA ReconnectTurn ==
    ASSUME SafeInv, TurnInv, NEW o \in Objs, ReconnectWithReplay(o)
    PROVE  TurnInv'
<1>t. strm[o] \in StrmType
  BY DEF SafeInv, Typed, TypeOK
<1>0. sess' = sess
  BY DEF ReconnectWithReplay
<1>1. CASE /\ sock' = [sock EXCEPT ![o] = Dialled(strm[o].target, strm[o].replay)]
           /\ strm' = [strm EXCEPT ![o].st = "read"] /\ UNCHANGED cli
  <2> DEFINE g == [strm[o] EXCEPT !.st = "read"]
  <2>1. g.by = strm[o].by /\ g.body = strm[o].body /\ strm' = [strm EXCEPT ![o] = g]
    BY <1>t, <1>1 DEF StrmType
  <2>2. Owes(g, Dialled(strm[o].target, strm[o].replay))
    BY DEF Owes, Dialled, Closed
  <2> HIDE DEF g
  <2> QED
    BY <1>0, <1>1, <2>1, <2>2, GoesOnTurn
<1>2. ASSUME NEW pc \in {"try", "http"}, Tell(o, pc, NoId), finishTurn(o, sock[o]) PROVE TurnInv'
  BY <1>0, <1>2, FinishTurnHeld
<1> QED
  BY <1>1, <1>2 DEF ReconnectWithReplay

LEMMA TurnInit ==
    ASSUME Init
    PROVE  TurnInv
<1>1. /\ \A o \in Objs : sess[o] = NoSess /\ strm[o] = NoStream
      /\ \A c \in Clients : cli[c] = Away
  BY DEF Init
<1>2. NoSess.turn = None /\ NoStream.st = "off" /\ Away.pc = "away" /\ Away.pc \notin Working
  BY DEF NoSess, NoStream, Away, Working
<1> QED
  BY <1>1, <1>2 DEF TurnInv, TurnHeld, PipeServed, AnswerOwed, Owes

LEMMA TurnNext ==
    ASSUME SafeInv, AttachInv, SameRequest, TurnInv, [Next]_vars
    PROVE  TurnInv'
<1>1. ASSUME NEW c \in Clients, Handler(c) \/ Connect(c) \/ Message(c) \/ HttpFails(c) PROVE TurnInv'
  BY <1>1, AcquireTurn, ReleaseTurn, BeginTurnHeld, TurnEnds, ClientTurn, RoundTripTurn, DialTurn, CancelAttemptTurn
     DEF Handler
<1>2. ASSUME NEW o \in Objs, Stream(o) PROVE TurnInv'
  BY <1>2, StreamReadTurn, ReconnectTurn DEF Stream
<1>3. ASSUME NEW o \in Objs, UpstreamFrame(o) \/ ReadFails(o) \/ detachReadFailure(o) \/ expireConnection(o)
      PROVE  TurnInv'
  BY <1>3, ReaderTurn
<1>4. ASSUME NEW c \in Clients, ClientGone(c) \/ CloseBody(c) PROVE TurnInv'
  BY <1>4, ClientGoneTurn, CloseBodyTurn
<1>5. CASE Cleanup \/ TimePasses
  BY <1>5, SweepTurn
<1>6. CASE UNCHANGED vars
  BY <1>6 DEF vars, TurnInv, TurnHeld, PipeServed, AnswerOwed
<1> QED
  BY <1>1, <1>2, <1>3, <1>4, <1>5, <1>6 DEF Next, Fault

\* Who works on a turn holds its session (acquireTurn, releaseTurn), the handler
\* that waits for an answer is the one the goroutine reads for, and a socket with
\* no request in progress holds the end of the answer or the reader's failure.
THEOREM SessionsTurnInvariant == Spec => []TurnInv
<1>1. Init => TurnInv
  BY TurnInit
<1>2. SessionsInv /\ ContextInv /\ TurnInv /\ [Next]_vars => TurnInv'
  BY TurnNext DEF SessionsInv, ContextInv
<1> QED
  BY <1>1, <1>2, SessionsInvariant, SessionsContextInvariant, PTL DEF Spec

\* Whoever holds a session's turn finds the guard of a step open: its handler's,
\* that of the goroutine of streamResponse, or that of the upstream that still
\* owes the answer.  No cancelled request, lost socket or late reconnect leaves a
\* turn that none of them can carry on.
THEOREM SessionsTurnMayGoOn == Spec => []TurnMayGoOn
<1>1. SessionsInv /\ ContextInv /\ TurnInv => TurnMayGoOn
  BY TurnGoesOn DEF SessionsInv, ContextInv
<1> QED
  BY <1>1, SessionsInvariant, SessionsContextInvariant, SessionsTurnInvariant, PTL

-------------------------------------------------------------------------------
(* No turn's transcript is lost to another's.                                *)

Extends(old, new) == \E t \in Nat : new = Append(old, t) \/ new = <<t>>

\* What a handler at work replays extends what its session holds.
ReplayCurrent == \A c \in Clients : cli[c].pc \in Working => Extends(sess[cli[c].obj].items, cli[c].replay)

\* A step changes the transcript of a session that others are attached to only by
\* the turn it adds, or by the one that starts over.
TranscriptStep ==
    \A o \in Objs : \/ sess'[o].items = sess[o].items
                    \/ sess'[o].items = <<>> /\ \A c \in Clients : cli[c].obj = o => cli[c].pc = "leave"
                    \/ Extends(sess[o].items, sess'[o].items)
TranscriptGrows == [][TranscriptStep]_vars

\* The transcripts of the sessions somebody works on stay, and no turn begins.
LEMMA ReplayKept ==
    ASSUME ReplayCurrent,
           \A c \in Clients : cli'[c].pc \in Working =>
               /\ cli[c].pc \in Working /\ cli'[c].obj = cli[c].obj /\ cli'[c].replay = cli[c].replay
               /\ sess'[cli[c].obj].items = sess[cli[c].obj].items
    PROVE  ReplayCurrent'
BY DEF ReplayCurrent

\* One handler moves and keeps its request, or has none.
LEMMA WorkKept ==
    ASSUME SafeInv, ReplayCurrent, sess' = sess, NEW c \in Clients, NEW h, cli' = [cli EXCEPT ![c] = h],
           h.pc \in Working => cli[c].pc \in Working /\ h.obj = cli[c].obj /\ h.replay = cli[c].replay
    PROVE  ReplayCurrent' /\ TranscriptStep
<1>1. cli'[c] = h /\ \A d \in Clients \ {c} : cli'[d] = cli[d]
  BY DEF SafeInv, Typed, TypeOK
<1> QED
  BY <1>1, ReplayKept DEF TranscriptStep

LEMMA ClientReplay ==
    ASSUME SafeInv, ReplayCurrent, NEW c \in Clients,
           \/ Connect(c) \/ Message(c) \/ Attempt(c) \/ HttpDone(c) \/ HttpFails(c) \/ RoundTrip(c) \/ Dial(c)
           \/ CloseBody(c) \/ CancelAttempt(c)
    PROVE  ReplayCurrent' /\ TranscriptStep
<1>t. cli[c] \in CliType
  BY DEF SafeInv, Typed, TypeOK
<1>1. sess' = sess
  BY DEF Connect, Message, Attempt, HttpDone, HttpFails, RoundTrip, Dial, CloseBody, CancelAttempt
<1>2. ASSUME NEW h, cli' = [cli EXCEPT ![c] = h], h.pc \in {"ready", "turn"}
      PROVE  ReplayCurrent' /\ TranscriptStep
  BY <1>1, <1>2, WorkKept DEF Working
<1>3. ASSUME NEW h, cli' = [cli EXCEPT ![c] = h], cli[c].pc \in Working, h.obj = cli[c].obj, h.replay = cli[c].replay
      PROVE  ReplayCurrent' /\ TranscriptStep
  BY <1>1, <1>3, WorkKept
<1>4. CASE Connect(c)
  <2>1. PICK key : cli' = [cli EXCEPT ![c] = [Away EXCEPT !.pc = "ready", !.key = key]]
    BY <1>4 DEF Connect
  <2> DEFINE h == [Away EXCEPT !.pc = "ready", !.key = key]
  <2>2. h.pc = "ready"
    BY DEF Away
  <2> HIDE DEF h
  <2> QED
    BY <1>2, <2>1, <2>2 DEF h
<1>5. CASE Message(c)
  <2> DEFINE h == [cli[c] EXCEPT !.pc = "turn"]
  <2>1. cli' = [cli EXCEPT ![c] = h] /\ h.pc = "turn"
    BY <1>t, <1>5 DEF Message, CliType
  <2> HIDE DEF h
  <2> QED
    BY <1>2, <2>1
<1>6. CASE Attempt(c)
  <2>1. cli[c].pc \in Working /\ \E pc, t : cli' = [cli EXCEPT ![c] = [cli[c] EXCEPT !.pc = pc, !.target = t, !.att = @ + 1]]
    BY <1>6 DEF Attempt, Working
  <2>2. PICK pc, t : cli' = [cli EXCEPT ![c] = [cli[c] EXCEPT !.pc = pc, !.target = t, !.att = @ + 1]]
    BY <2>1
  <2> DEFINE h == [cli[c] EXCEPT !.pc = pc, !.target = t, !.att = @ + 1]
  <2>3. h.obj = cli[c].obj /\ h.replay = cli[c].replay
    BY <1>t DEF CliType
  <2>4. cli' = [cli EXCEPT ![c] = h]
    BY <2>2
  <2> HIDE DEF h
  <2> QED
    BY <1>3, <2>1, <2>3, <2>4
<1>7. CASE RoundTrip(c) \/ Dial(c) \/ CloseBody(c)
  <2>1. cli[c].pc \in Working /\ \E pc : cli' = [cli EXCEPT ![c].pc = pc]
    BY <1>7 DEF RoundTrip, Dial, CloseBody, Working
  <2>2. PICK pc : cli' = [cli EXCEPT ![c].pc = pc]
    BY <2>1
  <2> DEFINE h == [cli[c] EXCEPT !.pc = pc]
  <2>3. h.obj = cli[c].obj /\ h.replay = cli[c].replay
    BY <1>t DEF CliType
  <2>4. cli' = [cli EXCEPT ![c] = h]
    BY <2>2
  <2> HIDE DEF h
  <2> QED
    BY <1>3, <2>1, <2>3, <2>4
<1>8. CASE HttpDone(c) \/ HttpFails(c) \/ CancelAttempt(c)
  <2>1. cli[c].pc \in Working /\ \E pc, r : cli' = [cli EXCEPT ![c] = Outcome(cli[c], pc, r)]
    BY <1>8 DEF HttpDone, HttpFails, CancelAttempt, Working
  <2>2. PICK pc, r : cli' = [cli EXCEPT ![c] = Outcome(cli[c], pc, r)]
    BY <2>1
  <2> DEFINE h == Outcome(cli[c], pc, r)
  <2>3. h.obj = cli[c].obj /\ h.replay = cli[c].replay
    BY <1>t DEF Outcome, CliType
  <2>4. cli' = [cli EXCEPT ![c] = h]
    BY <2>2
  <2> HIDE DEF h
  <2> QED
    BY <1>3, <2>1, <2>3, <2>4
<1> QED
  BY <1>4, <1>5, <1>6, <1>7, <1>8

LEMMA ClientGoneReplay ==
    ASSUME SafeInv, ReplayCurrent, NEW c \in Clients, ClientGone(c)
    PROVE  ReplayCurrent' /\ TranscriptStep
<1>1. sess' = sess
  BY DEF ClientGone
<1>2. ASSUME NEW d \in Clients, cli'[d].pc \in Working
      PROVE  cli[d].pc \in Working /\ cli'[d].obj = cli[d].obj /\ cli'[d].replay = cli[d].replay
  <2>1. \/ cli'[d] = cli[d]
        \/ cli'[d] = [cli[d] EXCEPT !.live = FALSE,
                             !.pc = IF @ \in {"ready", "turn"}
                                    THEN IF cli[d].obj = None THEN "away" ELSE "leave" ELSE @]
    BY DEF ClientGone, Gone
  <2>2. cli[d] \in CliType
    BY DEF SafeInv, Typed, TypeOK
  <2>3. cli'[d].obj = cli[d].obj /\ cli'[d].replay = cli[d].replay
        /\ (cli'[d].pc = cli[d].pc \/ cli'[d].pc \in {"away", "leave"})
    BY <2>1, <2>2 DEF CliType
  <2> QED
    BY <1>2, <2>3 DEF Working
<1> QED
  BY <1>1, <1>2, ReplayKept DEF TranscriptStep

LEMMA SocketReplay ==
    ASSUME SafeInv, ReplayCurrent, NEW o \in Objs,
           \/ StreamRead(o) \/ ReconnectWithReplay(o) \/ UpstreamFrame(o)
           \/ ReadFails(o) \/ detachReadFailure(o) \/ expireConnection(o)
    PROVE  ReplayCurrent' /\ TranscriptStep
<1>1. sess' = sess
  BY DEF StreamRead, ReconnectWithReplay, UpstreamFrame, ReadFails, detachReadFailure, expireConnection
<1>2. CASE cli' = cli
  BY <1>1, <1>2, ReplayKept DEF TranscriptStep
<1>3. ASSUME NEW pc, NEW r, Tell(o, pc, r), strm[o].body PROVE ReplayCurrent' /\ TranscriptStep
  <2>1. PICK c \in Clients : c = strm[o].by /\ cli[c].pc = "body"
    BY <1>3 DEF SafeInv, SocketInv, PipeRead
  <2> DEFINE h == Outcome(cli[c], pc, r)
  <2>2. h.obj = cli[c].obj /\ h.replay = cli[c].replay
    BY DEF Outcome, CliType, SafeInv, Typed, TypeOK
  <2>3. cli' = [cli EXCEPT ![c] = h]
    BY <1>3, <2>1 DEF Tell
  <2>4. cli[c].pc \in Working
    BY <2>1 DEF Working
  <2> HIDE DEF h
  <2> QED
    BY <1>1, <2>2, <2>3, <2>4, WorkKept
<1>4. cli' = cli \/ (strm[o].body /\ \E pc, r : Tell(o, pc, r))
  <2>1. cli' = cli \/ \E pc, r : Tell(o, pc, r)
    BY DEF StreamRead, RetryOrFail, ReconnectWithReplay, UpstreamFrame, ReadFails, detachReadFailure, expireConnection
  <2> QED
    BY <2>1 DEF Tell
<1> QED
  BY <1>2, <1>3, <1>4

\* A handler that is not at work moves, and sessions nobody works on are forgotten.
LEMMA SessionReplay ==
    ASSUME SafeInv, ReplayCurrent, NEW c \in Clients, \A d \in Clients \ {c} : cli'[d] = cli[d],
           cli'[c].pc \notin Working,
           \A o \in Objs : \/ sess'[o].items = sess[o].items
                           \/ sess'[o].items = <<>> /\ \A d \in Clients : cli[d].obj = o => cli[d].pc = "leave"
    PROVE  ReplayCurrent' /\ TranscriptStep
<1>1. "leave" \notin Working
  BY DEF Working
<1>2. \A d \in Clients : cli[d].pc \in Working => cli[d].obj \in Objs
  BY AtWork DEF SafeInv
<1>3. ReplayCurrent'
  BY <1>1, <1>2, ReplayKept
<1>4. TranscriptStep
  BY Zenon DEF TranscriptStep
<1> QED
  BY <1>3, <1>4

\* What the sweep leaves of the transcripts.
LEMMA SweptReplay ==
    ASSUME SafeInv, AttachInv, NEW o \in Objs
    PROVE  Swept[o].items = sess[o].items \/ (Swept[o].items = <<>> /\ \A d \in Clients : cli[d].obj # o)
<1>1. CASE o \in removeExpiredLocked
  <2>1. Swept[o] = NoSess /\ Attached(o) = {}
    BY <1>1, SweptIs
  <2> QED
    BY <2>1 DEF NoSess, Attached
<1>2. CASE o \notin removeExpiredLocked
  BY <1>2, SweptIs
<1> QED
  BY <1>1, <1>2

LEMMA SweepReplay ==
    ASSUME SafeInv, AttachInv, ReplayCurrent, Cleanup \/ TimePasses
    PROVE  ReplayCurrent' /\ TranscriptStep
<1>t. sess \in [Objs -> SessType]
  BY DEF SafeInv, Typed, TypeOK
<1>1. cli' = cli
  BY DEF Cleanup, TimePasses
<1>2. ASSUME NEW o \in Objs
      PROVE  \/ sess'[o].items = sess[o].items
             \/ sess'[o].items = <<>> /\ \A d \in Clients : cli[d].obj # o
  <2>1. sess'[o] \in {sess[o], Swept[o], [sess[o] EXCEPT !.idle = @ + 1]}
    BY DEF Cleanup, TimePasses
  <2>2. [sess[o] EXCEPT !.idle = @ + 1].items = sess[o].items
    BY <1>t DEF SessType
  <2> QED
    BY <2>1, <2>2, SweptReplay
<1>3. \A d \in Clients : cli[d].pc \in Working => cli[d].obj \in Objs
  BY AtWork DEF SafeInv
<1>4. ReplayCurrent'
  BY <1>1, <1>2, <1>3, ReplayKept
<1>5. TranscriptStep
  BY <1>2, Zenon DEF TranscriptStep
<1> QED
  BY <1>4, <1>5

LEMMA AcquireReplay ==
    ASSUME SafeInv, AttachInv, ReplayCurrent, NEW c \in Clients, Acquire(c)
    PROVE  ReplayCurrent' /\ TranscriptStep
<1>t. cli \in [Clients -> CliType] /\ cli[c] \in CliType /\ sess \in [Objs -> SessType] /\ DOMAIN Swept = Objs
  BY DEF SafeInv, Typed, TypeOK, Swept
<1>1. /\ cli[c].pc = "ready"
      /\ \/ Refused(c)
         \/ \E o \in Objs : Takes(c, o, sess[o])
         \/ \E o \in Objs : Takes(c, o, Fresh(c)) /\ Opens(c, o)
  BY AcquireIs
<1>2. CASE Refused(c)
  <2>1. (\A d \in Clients \ {c} : cli'[d] = cli[d]) /\ cli'[c].pc \notin Working /\ sess' = Swept
    BY <1>t, <1>1, <1>2 DEF Refused, Away, Working
  <2> QED
    BY <2>1, SweptReplay, SessionReplay
<1>3. ASSUME NEW o \in Objs, NEW s, Takes(c, o, s), s = sess[o] \/ (s = Fresh(c) /\ Opens(c, o))
      PROVE  ReplayCurrent' /\ TranscriptStep
  <2>1. cli'[c] = [cli[c] EXCEPT !.obj = o, !.pc = "turn"] /\ \A d \in Clients \ {c} : cli'[d] = cli[d]
    BY <1>t, <1>3 DEF Takes
  <2>2. cli'[c].pc \notin Working
    BY <1>t, <2>1 DEF CliType, Working
  <2>3. sess'[o] = [s EXCEPT !.active = @ + 1, !.idle = 0] /\ \A p \in Objs \ {o} : sess'[p] = Swept[p]
    BY <1>t, <1>3 DEF Takes
  <2>4. sess'[o].items = sess[o].items \/ (sess'[o].items = <<>> /\ \A d \in Clients : cli[d].obj # o)
    <3>1. CASE s = sess[o]
      <4>1. [sess[o] EXCEPT !.active = @ + 1, !.idle = 0].items = sess[o].items
        BY <1>t DEF SessType
      <4> QED
        BY <2>3, <3>1, <4>1
    <3>2. CASE s = Fresh(c) /\ Opens(c, o)
      <4>1. [Fresh(c) EXCEPT !.active = @ + 1, !.idle = 0].items = <<>>
        BY DEF Fresh, NoSess
      <4> QED
        BY <2>3, <3>2, <4>1 DEF Opens
    <3> QED
      BY <1>3, <3>1, <3>2
  <2>5. \A p \in Objs : \/ sess'[p].items = sess[p].items
                        \/ sess'[p].items = <<>> /\ \A d \in Clients : cli[d].obj # p
    BY <2>3, <2>4, SweptReplay
  <2> QED
    BY <2>1, <2>2, <2>5, SessionReplay
<1> QED
  BY <1>1, <1>2, <1>3

LEMMA ReleaseReplay ==
    ASSUME SafeInv, AttachInv, ReplayCurrent, NEW c \in Clients, Release(c)
    PROVE  ReplayCurrent' /\ TranscriptStep
<1> DEFINE o == cli[c].obj
<1>t. cli \in [Clients -> CliType] /\ sess \in [Objs -> SessType] /\ o \in Objs /\ sess[o].active \in Nat
  BY DEF SafeInv, Typed, TypeOK, Equipped, Release, SessType
<1>1. cli[c].pc = "leave" /\ cli'[c].pc \notin Working /\ \A d \in Clients \ {c} : cli'[d] = cli[d]
  BY <1>t DEF Release, Away, Working
<1>2. ASSUME sess[o].active = 1, NEW d \in Clients, cli[d].obj = o PROVE d = c
  <2> SUFFICES ASSUME d # c PROVE FALSE
    OBVIOUS
  <2>1. Attached(o) \in SUBSET Clients /\ c \in Attached(o) /\ Cardinality(Attached(o)) = 1
    BY <1>2, <1>t DEF Attached, AttachInv
  <2>2. Attached(o) \ {c} \in SUBSET Clients /\ d \in Attached(o) \ {c}
    BY <1>2, <2>1 DEF Attached
  <2>3. Cardinality(Attached(o) \ {c}) = 0
    BY <2>1, Counting
  <2>4. Attached(o) \ {c} # {} => Cardinality(Attached(o) \ {c}) >= 1
    BY <2>2, Counting
  <2> QED
    BY <2>2, <2>3, <2>4
<1>3. ASSUME NEW p \in Objs
      PROVE  \/ sess'[p].items = sess[p].items
             \/ sess'[p].items = <<>> /\ \A d \in Clients : cli[d].obj = p => cli[d].pc = "leave"
  <2>1. CASE p # o
    BY <1>t, <2>1 DEF Release
  <2>2. CASE p = o
    <3>1. sess[o] \in SessType
      BY <1>t
    <3>2. \/ sess'[o] = Forgotten(o, sess[o].active - 1)
          \/ sess'[o] = [sess[o] EXCEPT !.active = @ - 1, !.idle = 0]
      BY <1>t DEF Release
    <3>3. CASE sess'[o] = [sess[o] EXCEPT !.active = @ - 1, !.idle = 0]
      BY <2>2, <3>1, <3>3 DEF SessType
    <3>4. CASE sess'[o] = Forgotten(o, sess[o].active - 1) /\ sess[o].active = 1
      <4>1. sess'[o].items = <<>>
        BY <3>4 DEF Forgotten, NoSess
      <4> QED
        BY <1>1, <1>2, <2>2, <3>4, <4>1
    <3>5. CASE sess'[o] = Forgotten(o, sess[o].active - 1) /\ sess[o].active # 1
      <4>1. sess'[o] = [sess[o] EXCEPT !.stored = FALSE, !.active = sess[o].active - 1]
        BY <1>t, <3>5 DEF Forgotten
      <4> QED
        BY <2>2, <3>1, <4>1 DEF SessType
    <3> QED
      BY <3>2, <3>3, <3>4, <3>5
  <2> QED
    BY <2>1, <2>2
<1> QED
  BY <1>1, <1>3, SessionReplay

\* A turn begins: its request extends the transcript of the session it holds.
LEMMA BeginTurnReplay ==
    ASSUME SafeInv, ReplayCurrent, NEW c \in Clients, BeginTurn(c)
    PROVE  ReplayCurrent' /\ TranscriptStep
<1> DEFINE o == cli[c].obj
<1>t. cli \in [Clients -> CliType] /\ cli[c] \in CliType /\ sess \in [Objs -> SessType] /\ turns \in Nat /\ o \in Objs
  BY DEF SafeInv, Typed, TypeOK, Equipped, BeginTurn
<1>1. CASE cli' = [cli EXCEPT ![c] = Refuse(c)] /\ sess' = sess
  <2>1. cli'[c].pc \in {"ready", "leave"} /\ \A d \in Clients \ {c} : cli'[d] = cli[d]
    BY <1>t, <1>1 DEF Refuse, CliType
  <2> QED
    BY <1>1, <2>1, SessionReplay DEF Working
<1>2. ASSUME NEW ask, NEW native, NEW keep, Begins(c, ask, native, keep)
      PROVE  ReplayCurrent' /\ TranscriptStep
  <2>1. /\ cli'[c].obj = o /\ cli'[c].replay = replayRequest(c, o, ask)
        /\ \A d \in Clients \ {c} : cli'[d] = cli[d]
    BY <1>t, <1>2 DEF CliType, Begins
  <2>2. \A p \in Objs : sess'[p].items = sess[p].items
    BY <1>t, <1>2 DEF SessType, Begins
  <2>3. Extends(sess[o].items, replayRequest(c, o, ask))
    BY <1>t DEF Extends, replayRequest
  <2>4. \A d \in Clients : cli[d].pc \in Working => cli[d].obj \in Objs
    BY AtWork DEF SafeInv
  <2>5. ReplayCurrent'
    BY <1>t, <2>1, <2>2, <2>3, <2>4 DEF ReplayCurrent
  <2> QED
    BY <2>2, <2>5 DEF TranscriptStep
<1> QED
  BY <1>1, <1>2, BeginTurnIs

\* A turn ends: only the transcript of the session it held changes, to what it
\* replayed, and no other handler works on that session.
LEMMA TurnEndsReplay ==
    ASSUME SafeInv, TurnInv, ReplayCurrent, NEW c \in Clients, GiveUp(c) \/ Prewarm(c) \/ Commit(c) \/ Interrupted(c)
    PROVE  ReplayCurrent' /\ TranscriptStep
<1> DEFINE o == cli[c].obj
<1>t. cli \in [Clients -> CliType] /\ sess \in [Objs -> SessType] /\ Typed
  BY DEF SafeInv, Typed, TypeOK
<1>1. cli[c].pc \in Working
  BY DEF GiveUp, Prewarm, Commit, Interrupted, Working
<1>2. o \in Objs /\ sess[o] \in SessType
  BY <1>t, <1>1, AtWork
<1>3. \E s : /\ s = sess[o] \/ \E r : s = commit(o, cli[c].replay, r)
             /\ EndTurn(c, s) \/ EndTurnTo(c, s, "leave")
  BY DEF GiveUp, Prewarm, Commit, Interrupted
<1>4. PICK s : /\ s = sess[o] \/ \E r : s = commit(o, cli[c].replay, r)
               /\ EndTurn(c, s) \/ EndTurnTo(c, s, "leave")
  BY <1>3
<1>5. PICK pc \in {"ready", "leave"} : EndTurnTo(c, s, pc)
  BY <1>4 DEF EndTurn
<1>6. cli'[c].pc = pc /\ \A d \in Clients \ {c} : cli'[d] = cli[d]
  BY <1>t, <1>5 DEF EndTurnTo, Away
<1>7. sess'[o].items \in {sess[o].items, cli[c].replay} /\ \A p \in Objs \ {o} : sess'[p] = sess[p]
  <2>1. sess'[o] = [s EXCEPT !.turn = None] /\ \A p \in Objs \ {o} : sess'[p] = sess[p]
    BY <1>t, <1>2, <1>5 DEF EndTurnTo
  <2>2. CASE s = sess[o]
    BY <1>2, <2>1, <2>2 DEF SessType
  <2>3. ASSUME NEW r, s = commit(o, cli[c].replay, r) PROVE sess'[o].items = cli[c].replay
    BY <1>2, <2>1, <2>3 DEF commit, SessType
  <2> QED
    BY <1>4, <2>1, <2>2, <2>3
<1>8. \A d \in Clients \ {c} : cli[d].pc \in Working => cli[d].obj \in Objs \ {o}
  BY <1>t, <1>1, AtWork DEF TurnInv, TurnHeld
<1>9. cli'[c].pc \notin Working
  BY <1>6 DEF Working
<1>10. ReplayCurrent'
  BY <1>6, <1>7, <1>8, <1>9, ReplayKept
<1>11. TranscriptStep
  <2>1. Extends(sess[o].items, cli[c].replay)
    BY <1>1 DEF ReplayCurrent
  <2> QED
    BY <1>7, <2>1 DEF TranscriptStep
<1> QED
  BY <1>10, <1>11

LEMMA ReplayInit ==
    ASSUME Init
    PROVE  ReplayCurrent
<1>1. \A c \in Clients : cli[c].pc = "away"
  BY DEF Init, Away
<1> QED
  BY <1>1 DEF ReplayCurrent, Working

LEMMA ReplayNext ==
    ASSUME SafeInv, AttachInv, TurnInv, ReplayCurrent, [Next]_vars
    PROVE  ReplayCurrent' /\ TranscriptStep
<1>1. ASSUME NEW c \in Clients, Handler(c) \/ Connect(c) \/ Message(c) \/ HttpFails(c) \/ CloseBody(c)
      PROVE  ReplayCurrent' /\ TranscriptStep
  BY <1>1, AcquireReplay, ReleaseReplay, BeginTurnReplay, TurnEndsReplay, ClientReplay DEF Handler
<1>2. ASSUME NEW c \in Clients, ClientGone(c) PROVE ReplayCurrent' /\ TranscriptStep
  BY <1>2, ClientGoneReplay
<1>3. ASSUME NEW o \in Objs, \/ Stream(o) \/ UpstreamFrame(o) \/ ReadFails(o)
                             \/ detachReadFailure(o) \/ expireConnection(o)
      PROVE  ReplayCurrent' /\ TranscriptStep
  BY <1>3, SocketReplay DEF Stream
<1>4. CASE Cleanup \/ TimePasses
  BY <1>4, SweepReplay
<1>5. CASE UNCHANGED vars
  BY <1>5 DEF vars, ReplayCurrent, TranscriptStep
<1> QED
  BY <1>1, <1>2, <1>3, <1>4, <1>5 DEF Next, Fault

\* While a handler works on a turn, what it replays and will commit is the
\* session's transcript and its own turn, or its turn alone: no other handler
\* commits, and cleanup forgets nothing, in between.
THEOREM SessionsReplayCurrent == Spec => []ReplayCurrent
<1>1. Init => ReplayCurrent
  BY ReplayInit
<1>2. SessionsInv /\ TurnInv /\ ReplayCurrent /\ [Next]_vars => ReplayCurrent'
  BY ReplayNext DEF SessionsInv
<1> QED
  BY <1>1, <1>2, SessionsInvariant, SessionsTurnInvariant, PTL DEF Spec

\* No turn's transcript is lost: a step leaves a session's transcript as it is,
\* adds one turn to it or starts it over with one turn, and forgets it only when
\* nobody is attached to it any more but the handler that releases it.
THEOREM SessionsTranscriptGrows == Spec => TranscriptGrows
<1>1. SessionsInv /\ TurnInv /\ ReplayCurrent /\ [Next]_vars => TranscriptStep
  BY ReplayNext DEF SessionsInv
<1> QED
  BY <1>1, SessionsInvariant, SessionsTurnInvariant, SessionsReplayCurrent, PTL DEF Spec, TranscriptGrows

===============================================================================
