---------------------------- MODULE UpstreamProofs ----------------------------
(***************************************************************************)
(* What is proved of the two sides of an upstream request: the limits it     *)
(* has to pass and the translation of the answer it gets.  The two modules   *)
(* share no variable; the part on the limits comes first.                   *)
(*                                                                         *)
(* The two limiters of UpstreamLimits are correct for every finite set of  *)
(* requests, every set of channels, every limit, window and delay.  The    *)
(* inductive invariant of the slots is SlotInv: the slot count of a        *)
(* channel is the number of outstanding release funcs, stays within the    *)
(* limit, and nobody is parked on a channel that has room.  RateInv adds   *)
(* that recent admissions still have their reservation in the slice.       *)
(*                                                                         *)
(* A streamed answer is translated faithfully on the routes ProvedRoutes,   *)
(* whatever the tools of the client and the bounds of the answer.  There is *)
(* an inductive invariant for each client protocol: GeminiClaude relates     *)
(* the upstream, the translator and the block an Anthropic client has open;  *)
(* CodexGemini relates what an upstream of the Responses protocol has sent    *)
(* to what a Gemini client has heard.                                       *)
(***************************************************************************)
EXTENDS UpstreamLimits, Translation, FiniteSetTheorems, TLAPS

\* acquire hands out at most MaxConcurrency slots (none are counted for a
\* channel without a limit).
SlotsWithinLimit == \A c \in Channels : active[c] <= MaxConcurrency[c]

SlotInv == SlotTypeOK /\ SlotAccounting /\ SlotsWithinLimit /\ NoLostWakeup

Owing == {"clock", "reserve", "sending", "body"}

\* A subset of the finite set of requests is finite and has a natural
\* number of members.
LEMMA FiniteRequests ==
    ASSUME NEW S \in SUBSET Requests
    PROVE  IsFiniteSet(S) /\ Cardinality(S) \in Nat
BY LimitsAssumption, FS_Subset, FS_CardinalityType

\* Adding a new holder adds one to its channel's holders, removing one
\* subtracts one.
LEMMA CountStep ==
    ASSUME NEW S \in SUBSET Requests, NEW r \in Requests
    PROVE  /\ r \notin S => Cardinality(S \cup {r}) = Cardinality(S) + 1
           /\ r \in S => Cardinality(S \ {r}) = Cardinality(S) - 1
BY FiniteRequests, FS_AddElement, FS_RemoveElement

\* No slot is held initially.
LEMMA SlotInit == Init => SlotInv
<1> SUFFICES ASSUME Init PROVE SlotInv
  OBVIOUS
<1>1. SlotTypeOK
  BY DEF Init, SlotTypeOK, PCs, Idle
<1>2. SlotAccounting
  <2>1. \A c \in Channels : Holders(c) = {}
    BY DEF Init, Holders
  <2>2. Cardinality({}) = 0
    BY FS_EmptySet
  <2> QED
    BY <2>1, <2>2 DEF Init, SlotAccounting, InFlight
<1>3. SlotsWithinLimit /\ NoLostWakeup
  BY LimitsAssumption DEF Init, SlotsWithinLimit, NoLostWakeup
<1> QED
  BY <1>1, <1>2, <1>3 DEF SlotInv

\* A step that leaves the limiter alone and moves no request in or out of
\* the states that owe a release keeps the invariant.
LEMMA MoveKeeps ==
    ASSUME SlotInv, UNCHANGED slotVars, pc' \in [Requests -> PCs],
           \A q \in Requests : pc[q] \in Owing <=> pc'[q] \in Owing,
           \A q \in Requests : pc'[q] = "parked" => SlotFull(chan[q])
    PROVE  SlotInv'
<1> USE DEF slotVars
<1>1. SlotTypeOK'
  BY DEF SlotInv, SlotTypeOK
<1>2. SlotAccounting'
  <2>1. \A c \in Channels : Holders(c)' = Holders(c)
    BY DEF Holders
  <2> QED
    BY <2>1 DEF SlotInv, SlotAccounting, Owing, InFlight
<1>3. SlotsWithinLimit' /\ NoLostWakeup'
  BY DEF SlotInv, SlotsWithinLimit, NoLostWakeup, SlotFull
<1> QED
  BY <1>1, <1>2, <1>3 DEF SlotInv

\* Taking a slot keeps the invariant.
LEMMA AcquireKeeps ==
    ASSUME SlotInv, NEW r \in Requests, Acquire(r)
    PROVE  SlotInv'
<1> DEFINE c == chan[r]
<1>0. /\ pc[r] = "slot" /\ pc' = [pc EXCEPT ![r] = "clock"] /\ TakeSlot(r)
      /\ UNCHANGED <<chan, waits>> /\ c \in Channels /\ r \notin held
      /\ pc \in [Requests -> PCs]
  BY DEF Acquire, Goto, SlotInv, SlotTypeOK, SlotAccounting, InFlight
<1>1. SlotTypeOK'
  BY <1>0 DEF SlotInv, SlotTypeOK, TakeSlot, PCs, Waiting
<1>2. SlotAccounting'
  <2>1. CASE MaxConcurrency[c] = 0
    <3>1. UNCHANGED <<active, held>>
      BY <1>0, <2>1, LimitsAssumption DEF TakeSlot
    <3>2. \A d \in Channels : Holders(d)' = Holders(d)
      BY <1>0, <3>1 DEF Holders
    <3> QED
      BY <1>0, <2>1, <3>1, <3>2, LimitsAssumption DEF SlotInv, SlotAccounting, SlotTypeOK, InFlight
  <2>2. CASE MaxConcurrency[c] > 0
    <3>1. active' = [active EXCEPT ![c] = @ + 1] /\ held' = held \cup {r}
      BY <1>0, <2>2, LimitsAssumption DEF TakeSlot
    <3>2. Holders(c)' = Holders(c) \cup {r} /\ r \notin Holders(c) /\ Holders(c) \in SUBSET Requests
      BY <1>0, <3>1 DEF Holders, SlotInv, SlotTypeOK
    <3>3. Cardinality(Holders(c)') = Cardinality(Holders(c)) + 1
      BY <3>2, CountStep
    <3>4. \A d \in Channels \ {c} : Holders(d)' = Holders(d)
      BY <1>0, <3>1 DEF Holders
    <3>5. \A d \in Channels : active'[d] = Cardinality(Holders(d)')
      BY <1>0, <3>1, <3>3, <3>4 DEF SlotInv, SlotAccounting, SlotTypeOK
    <3>6. \A q \in Requests : (q \in held') <=>
             MaxConcurrency[chan'[q]] > 0 /\ pc'[q] \in {"clock", "reserve"} \cup InFlight
      BY <1>0, <3>1, <2>2 DEF SlotInv, SlotAccounting, SlotTypeOK, InFlight
    <3> QED
      BY <3>5, <3>6 DEF SlotAccounting
  <2> QED
    BY <1>0, <2>1, <2>2, LimitsAssumption
<1>3. SlotsWithinLimit' /\ NoLostWakeup'
  BY <1>0, LimitsAssumption DEF SlotInv, SlotTypeOK, SlotsWithinLimit, NoLostWakeup, SlotFull, TakeSlot
<1> QED
  BY <1>1, <1>2, <1>3 DEF SlotInv

\* Running a release func keeps the invariant, whether or not it was spent.
LEMMA ReleaseKeeps ==
    ASSUME SlotInv, NEW r \in Requests, NEW to \in Settled \cup {"timer"},
           Release(r, to), UNCHANGED <<chan, waits>>
    PROVE  SlotInv'
<1> DEFINE c == chan[r]
<1>0. /\ c \in Channels /\ pc \in [Requests -> PCs] /\ to \in PCs /\ to \notin Owing
      /\ to # "parked" /\ held \in SUBSET Requests /\ active \in [Channels -> Nat]
      /\ chan \in [Requests -> Channels]
  BY DEF SlotInv, SlotTypeOK, PCs, Settled, Waiting, Owing
<1>1. CASE r \notin held
  <2>1. pc' = [pc EXCEPT ![r] = to] /\ UNCHANGED <<active, held>>
    BY <1>1 DEF Release
  <2>2. SlotTypeOK'
    BY <1>0, <2>1 DEF SlotInv, SlotTypeOK
  <2>3. \A d \in Channels : Holders(d)' = Holders(d)
    BY <2>1 DEF Holders
  <2>4. SlotAccounting'
    BY <1>0, <1>1, <2>1, <2>3 DEF SlotInv, SlotAccounting, Owing, InFlight
  <2>5. SlotsWithinLimit' /\ NoLostWakeup'
    BY <1>0, <2>1 DEF SlotInv, SlotsWithinLimit, NoLostWakeup, SlotFull
  <2> QED
    BY <2>2, <2>4, <2>5 DEF SlotInv
<1>2. CASE r \in held
  <2>1. /\ active' = [active EXCEPT ![c] = IF @ <= 1 THEN 0 ELSE @ - 1]
        /\ held' = held \ {r}
        /\ pc' = [q \in Requests |->
                     CASE q = r -> to
                       [] q # r /\ pc[q] = "parked" /\ chan[q] = c -> "slot"
                       [] OTHER -> pc[q]]
    BY <1>2 DEF Release
  <2>2. SlotTypeOK'
    BY <1>0, <2>1 DEF SlotInv, SlotTypeOK, PCs, Waiting
  <2>3. Holders(c)' = Holders(c) \ {r} /\ r \in Holders(c) /\ Holders(c) \in SUBSET Requests
    BY <1>0, <1>2, <2>1 DEF Holders
  <2>4. /\ Cardinality(Holders(c)') = Cardinality(Holders(c)) - 1
        /\ Cardinality(Holders(c)') \in Nat /\ Cardinality(Holders(c)) \in Nat
    <3>1. Holders(c)' \in SUBSET Requests
      BY <2>3
    <3> QED
      BY <2>3, <3>1, CountStep, FiniteRequests
  <2>5. active[c] = Cardinality(Holders(c))
    BY <1>0 DEF SlotInv, SlotAccounting
  <2>6. active'[c] = active[c] - 1
    BY <1>0, <2>1, <2>4, <2>5
  <2>7. \A d \in Channels \ {c} : Holders(d)' = Holders(d) /\ active'[d] = active[d]
    BY <1>0, <2>1 DEF Holders
  <2>8. \A d \in Channels : active'[d] = Cardinality(Holders(d)')
    BY <2>4, <2>5, <2>6, <2>7 DEF SlotInv, SlotAccounting
  <2>9. \A q \in Requests : (q \in held') <=>
             MaxConcurrency[chan'[q]] > 0 /\ pc'[q] \in {"clock", "reserve"} \cup InFlight
    <3> TAKE q \in Requests
    <3>1. CASE q = r
      BY <1>0, <2>1, <3>1 DEF Owing, InFlight
    <3>2. CASE q # r
      BY <1>0, <2>1, <3>2 DEF SlotInv, SlotAccounting, InFlight
    <3> QED
      BY <3>1, <3>2
  <2>10. SlotsWithinLimit'
    BY <1>0, <2>6, <2>7, LimitsAssumption DEF SlotInv, SlotsWithinLimit
  <2>11. NoLostWakeup'
    <3> SUFFICES ASSUME NEW q \in Requests, pc'[q] = "parked"
                 PROVE  SlotFull(chan[q])'
      BY DEF NoLostWakeup
    <3>1. q # r /\ pc[q] = "parked" /\ chan[q] # c
      BY <1>0, <2>1
    <3>2. chan[q] \in Channels \ {c} /\ active'[chan[q]] = active[chan[q]]
      BY <1>0, <2>7, <3>1
    <3> QED
      BY <3>1, <3>2 DEF SlotInv, NoLostWakeup, SlotFull
  <2> QED
    BY <2>2, <2>8, <2>9, <2>10, <2>11 DEF SlotInv, SlotAccounting
<1> QED
  BY <1>1, <1>2

\* Every step of the specification keeps SlotInv.
LEMMA SlotNext == SlotInv /\ [Next]_vars => SlotInv'
<1> SUFFICES ASSUME SlotInv, [Next]_vars PROVE SlotInv'
  OBVIOUS
<1> USE DEF PCs, Idle, Waiting, InFlight, Settled, Owing
<1>0. pc \in [Requests -> PCs] /\ NoLostWakeup
  BY DEF SlotInv, SlotTypeOK
<1>1. ASSUME NEW r \in Requests, Step(r) PROVE SlotInv'
  <2>1. CASE Start(r)
    BY <1>0, <2>1, MoveKeeps DEF Start, Goto, NoLostWakeup, slotVars
  <2>2. CASE Acquire(r)
    BY <2>2, AcquireKeeps
  <2>3. CASE RefuseSlot(r)
    BY <1>0, <2>3, MoveKeeps DEF RefuseSlot, Goto, NoLostWakeup, slotVars
  <2>4. CASE Park(r)
    BY <1>0, <2>4, MoveKeeps DEF Park, Goto, NoLostWakeup, slotVars
  <2>5. CASE Cancel(r)
    BY <1>0, <2>5, MoveKeeps DEF Cancel, NoLostWakeup, slotVars
  <2>6. CASE ReadClock(r)
    BY <1>0, <2>6, MoveKeeps DEF ReadClock, Goto, NoLostWakeup, slotVars
  <2>7. CASE Reserve(r)
    BY <1>0, <2>7, MoveKeeps DEF Reserve, Admit, NoLostWakeup, slotVars
  <2>8. CASE RefuseRate(r)
    BY <2>8, ReleaseKeeps DEF RefuseRate
  <2>9. CASE TimerFires(r)
    BY <1>0, <2>9, MoveKeeps DEF TimerFires, Goto, NoLostWakeup, slotVars
  <2>10. CASE SendFails(r)
    BY <2>10, ReleaseKeeps DEF SendFails
  <2>11. CASE Respond(r)
    BY <1>0, <2>11, MoveKeeps DEF Respond, Goto, NoLostWakeup, slotVars
  <2>12. CASE CloseBody(r)
    BY <2>12, ReleaseKeeps DEF CloseBody
  <2> QED
    BY <1>1, <2>1, <2>2, <2>3, <2>4, <2>5, <2>6, <2>7, <2>8, <2>9, <2>10, <2>11, <2>12 DEF Step
<1>2. CASE UNCHANGED <<pc, slotVars>>
  BY <1>0, <1>2, MoveKeeps DEF NoLostWakeup, slotVars
<1>3. CASE \E c \in Channels : Prune(c) \/ RemoveChannel(c)
  BY <1>2, <1>3 DEF Prune, RemoveChannel
<1>4. CASE Tick
  BY <1>2, <1>4 DEF Tick
<1>5. CASE UNCHANGED vars
  BY <1>2, <1>5 DEF vars, slotVars
<1> QED
  BY <1>1, <1>3, <1>4, <1>5 DEF Next

\* SlotInv is an invariant of the limiter.
THEOREM SlotInvariant == Spec => []SlotInv
BY SlotInit, SlotNext, PTL DEF Spec

\* Every acquired slot is released exactly once on every path: the count of
\* channelConcurrencyLimiter is the number of unspent release funcs.
THEOREM SlotsAccounted == Spec => []SlotAccounting
<1>1. SlotInv => SlotAccounting
  BY DEF SlotInv
<1> QED
  BY <1>1, SlotInvariant, PTL

\* A request parked in acquireContext never misses the release that makes
\* room for it.
THEOREM NoWakeupLost == Spec => []NoLostWakeup
<1>1. SlotInv => NoLostWakeup
  BY DEF SlotInv
<1> QED
  BY <1>1, SlotInvariant, PTL

\* max_concurrency bounds the upstream requests of a channel from acquire to
\* the close of the response body.
THEOREM ConcurrencyBounded == Spec => []ConcurrencyBound
<1>1. SlotInv => ConcurrencyBound
  <2> SUFFICES ASSUME SlotInv, NEW c \in Channels, MaxConcurrency[c] > 0
               PROVE  Cardinality({r \in Requests : chan[r] = c /\ pc[r] \in InFlight})
                        <= MaxConcurrency[c]
    BY DEF ConcurrencyBound
  <2> DEFINE F == {r \in Requests : chan[r] = c /\ pc[r] \in InFlight}
  <2>1. F \subseteq Holders(c) /\ Holders(c) \in SUBSET Requests
    BY DEF SlotInv, SlotAccounting, SlotTypeOK, Holders
  <2>2. Cardinality(F) <= Cardinality(Holders(c))
    BY <2>1, FiniteRequests, FS_Subset
  <2>3. Cardinality(Holders(c)) <= MaxConcurrency[c]
    BY DEF SlotInv, SlotAccounting, SlotsWithinLimit
  <2>4. Cardinality(F) \in Nat /\ Cardinality(Holders(c)) \in Nat /\ MaxConcurrency[c] \in Nat
    BY <2>1, FiniteRequests, LimitsAssumption
  <2> QED
    BY <2>2, <2>3, <2>4
<1> QED
  BY <1>1, SlotInvariant, PTL

-------------------------------------------------------------------------------
(* The sliding window.  A reservation's time stamp is at most MaxSkew older  *)
(* than its admission, so an admission of the last Window - MaxSkew ticks    *)
(* still has its reservation in the limiter, which keeps RPMLimit at most.   *)

Passed == InFlight \cup {"failed", "closed"}

StampsClose ==
    \A r \in Requests :
        /\ Remembered(r) => pc[r] \in Passed /\ stamp[r] <= locked[r] + MaxSkew
        /\ ~ Remembered(r) => locked[r] = 0
        /\ pc[r] = "reserve" => stamp[r] <= MaxSkew

RecentKept ==
    \A c \in Channels : RPMLimit[c] > 0 =>
        /\ Cardinality(events[c]) <= RPMLimit[c]
        /\ \A q \in admits[c] : locked[q] < Window - MaxSkew => q \in events[c]

RateInv == SlotInv /\ RateTypeOK /\ StampsClose /\ RecentKept

LEMMA RateInit == Init => RateInv
<1> SUFFICES ASSUME Init PROVE RateInv
  OBVIOUS
<1>1. RateTypeOK
  BY LimitsAssumption DEF Init, RateTypeOK, MaxAge
<1>2. \A r \in Requests : ~ Remembered(r)
  BY DEF Init, Remembered
<1>3. StampsClose
  BY <1>2 DEF Init, StampsClose
<1>4. RecentKept
  BY FS_EmptySet, LimitsAssumption DEF Init, RecentKept
<1> QED
  BY <1>1, <1>3, <1>4, SlotInit DEF RateInv

\* A request that moves on, but not past the window, leaves it alone.
LEMMA MovesOn ==
    ASSUME RateInv, UNCHANGED <<rateVars, chan>>,
           \A r \in Requests : /\ pc[r] \in Passed => pc'[r] \in Passed
                               /\ pc'[r] = "reserve" => pc[r] = "reserve"
    PROVE  RateTypeOK' /\ StampsClose' /\ RecentKept'
<1> USE DEF rateVars
<1>1. RateTypeOK'
  BY DEF RateInv, RateTypeOK
<1>2. \A r \in Requests : Remembered(r)' = Remembered(r)
  BY DEF Remembered
<1>3. StampsClose'
  BY <1>2 DEF RateInv, StampsClose
<1>4. RecentKept'
  BY DEF RateInv, RecentKept
<1> QED
  BY <1>1, <1>3, <1>4

\* Running a release func moves its request, and wakes the parked ones.
LEMMA ReleaseMoves ==
    ASSUME SlotInv, NEW r \in Requests, NEW to, Release(r, to)
    PROVE  /\ pc'[r] = to
           /\ \A q \in Requests \ {r} : pc'[q] = pc[q] \/ (pc[q] = "parked" /\ pc'[q] = "slot")
<1>1. pc \in [Requests -> PCs]
  BY DEF SlotInv, SlotTypeOK
<1>2. CASE r \in held
  BY <1>2 DEF Release
<1>3. CASE r \notin held
  BY <1>1, <1>3 DEF Release
<1> QED
  BY <1>2, <1>3

\* What the limiter still remembers keeps its ages, the rest is 0.
LEMMA SameAges ==
    ASSUME RateInv, Ages(Same), events' \in [Channels -> SUBSET Requests],
           admits' \in [Channels -> SUBSET Requests], timer' \in [Requests -> 0..MaxAge]
    PROVE  /\ RateTypeOK'
           /\ \A r \in Requests : /\ Remembered(r)' => stamp'[r] = stamp[r] /\ locked'[r] = locked[r]
                                  /\ ~ Remembered(r)' => locked'[r] = 0
                                  /\ pc'[r] = "reserve" => stamp'[r] = stamp[r]
<1>1. \A r \in Requests : stamp[r] \in 0..MaxAge /\ locked[r] \in 0..MaxAge
  BY DEF RateInv, RateTypeOK
<1>2. MaxAge \in Nat
  BY LimitsAssumption DEF MaxAge
<1>3. /\ stamp' = [r \in Requests |-> IF pc'[r] = "reserve" \/ Remembered(r)' THEN stamp[r] ELSE 0]
      /\ locked' = [r \in Requests |-> IF Remembered(r)' THEN locked[r] ELSE 0]
  BY DEF Ages, Same
<1>4. stamp' \in [Requests -> 0..MaxAge] /\ locked' \in [Requests -> 0..MaxAge]
  BY <1>1, <1>2, <1>3
<1> QED
  BY <1>3, <1>4 DEF RateTypeOK

\* A step that only drops reservations outside the window, and admissions.
LEMMA DropsKeep ==
    ASSUME RateInv, Ages(Same), UNCHANGED chan,
           events' \in [Channels -> SUBSET Requests], admits' \in [Channels -> SUBSET Requests],
           timer' \in [Requests -> 0..MaxAge],
           \A c \in Channels :
              /\ events'[c] \subseteq events[c] /\ admits'[c] \subseteq admits[c]
              /\ \A q \in events[c] \ events'[c] : q \in admits'[c] => stamp[q] >= Window,
           \A r \in Requests : /\ pc[r] \in Passed => pc'[r] \in Passed
                               /\ pc'[r] = "reserve" => pc[r] = "reserve"
    PROVE  RateTypeOK' /\ StampsClose' /\ RecentKept'
<1>1. /\ RateTypeOK'
      /\ \A r \in Requests : /\ Remembered(r)' => stamp'[r] = stamp[r] /\ locked'[r] = locked[r]
                             /\ ~ Remembered(r)' => locked'[r] = 0
                             /\ pc'[r] = "reserve" => stamp'[r] = stamp[r]
  BY SameAges
<1>2. \A r \in Requests : Remembered(r)' => Remembered(r)
  BY DEF Remembered
<1>3. StampsClose'
  BY <1>1, <1>2 DEF RateInv, StampsClose
<1>4. RecentKept'
  <2> SUFFICES ASSUME NEW c \in Channels, RPMLimit[c] > 0
               PROVE  /\ Cardinality(events'[c]) <= RPMLimit[c]
                      /\ \A q \in admits'[c] : locked'[q] < Window - MaxSkew => q \in events'[c]
    BY DEF RecentKept
  <2>1. Cardinality(events'[c]) <= Cardinality(events[c])
    BY FiniteRequests, FS_Subset DEF RateInv, RateTypeOK
  <2>2. /\ Cardinality(events'[c]) \in Nat /\ Cardinality(events[c]) \in Nat /\ RPMLimit[c] \in Nat
        /\ Cardinality(events[c]) <= RPMLimit[c]
    BY FiniteRequests, LimitsAssumption DEF RateInv, RateTypeOK, RecentKept
  <2>3. ASSUME NEW q \in admits'[c], locked'[q] < Window - MaxSkew PROVE q \in events'[c]
    <3>1. q \in Requests /\ Remembered(q)' /\ Remembered(q) /\ q \in admits[c]
      BY <1>2 DEF Remembered
    <3>2. locked'[q] = locked[q] /\ stamp[q] <= locked[q] + MaxSkew
      BY <1>1, <3>1 DEF RateInv, StampsClose
    <3>3. locked[q] \in Nat /\ stamp[q] \in Nat /\ MaxSkew \in Nat /\ Window \in Nat
      BY <3>1, LimitsAssumption DEF RateInv, RateTypeOK
    <3>4. stamp[q] < Window /\ q \in events[c]
      BY <2>3, <3>1, <3>2, <3>3 DEF RateInv, RecentKept
    <3> QED
      BY <2>3, <3>3, <3>4
  <2> QED
    BY <2>1, <2>2, <2>3
<1> QED
  BY <1>1, <1>3, <1>4

\* An admission: what is left of the slice has room for one more.
LEMMA ReserveKeeps ==
    ASSUME RateInv, NEW r \in Requests, Reserve(r)
    PROVE  RateTypeOK' /\ StampsClose' /\ RecentKept'
<1> DEFINE c == chan[r]
<1> DEFINE kept == Kept(c, stamp[r])
<1>0. /\ c \in Channels /\ pc[r] = "reserve" /\ pc' = [pc EXCEPT ![r] = "sending"] /\ pc \in [Requests -> PCs]
      /\ RPMLimit[c] = 0 \/ Cardinality(kept) < RPMLimit[c]
      /\ events' = IF RPMLimit[c] = 0 THEN events ELSE [events EXCEPT ![c] = kept \cup {r}]
      /\ admits' = [admits EXCEPT ![c] = @ \cup {r}]
      /\ Ages(Same) /\ timer' = timer
      /\ kept = {q \in events[c] : stamp[q] < Window + stamp[r]}
  BY DEF Reserve, Admit, Kept, RateInv, SlotInv, SlotTypeOK
<1>h. ~ Remembered(r) /\ locked[r] = 0 /\ stamp[r] <= MaxSkew
  BY <1>0 DEF RateInv, StampsClose, Passed, InFlight
<1>k. kept \subseteq events[c] /\ kept \in SUBSET Requests /\ r \notin kept
  BY <1>0, <1>h DEF RateInv, RateTypeOK, Remembered
<1> HIDE DEF c, kept
<1>1. /\ events' \in [Channels -> SUBSET Requests] /\ admits' \in [Channels -> SUBSET Requests]
      /\ timer' \in [Requests -> 0..MaxAge]
  BY <1>0, <1>k DEF RateInv, RateTypeOK
<1>2. /\ RateTypeOK'
      /\ \A q \in Requests : /\ Remembered(q)' => stamp'[q] = stamp[q] /\ locked'[q] = locked[q]
                             /\ ~ Remembered(q)' => locked'[q] = 0
                             /\ pc'[q] = "reserve" => stamp'[q] = stamp[q]
  BY <1>0, <1>1, SameAges
<1>3. \A d \in Channels : events'[d] \subseteq events[d] \cup {r} /\ admits'[d] \subseteq admits[d] \cup {r}
  BY <1>0, <1>k DEF RateInv, RateTypeOK
<1>4. /\ \A q \in Requests \ {r} : Remembered(q)' => Remembered(q)
      /\ Remembered(r)'
  BY <1>0, <1>3 DEF Remembered, RateInv, RateTypeOK
<1>5. StampsClose'
  <2>1. /\ stamp'[r] = stamp[r] /\ locked'[r] = locked[r] /\ stamp[r] <= locked[r] + MaxSkew
        /\ pc'[r] = "sending"
    BY <1>0, <1>2, <1>4, <1>h, LimitsAssumption
  <2>2. \A q \in Requests \ {r} : pc'[q] = pc[q]
    BY <1>0
  <2> QED
    BY <1>2, <1>4, <2>1, <2>2 DEF RateInv, StampsClose, Passed, InFlight
<1>6. RecentKept'
  <2> SUFFICES ASSUME NEW d \in Channels, RPMLimit[d] > 0
               PROVE  /\ Cardinality(events'[d]) <= RPMLimit[d]
                      /\ \A q \in admits'[d] : locked'[q] < Window - MaxSkew => q \in events'[d]
    BY DEF RecentKept
  <2>0. \A q \in admits'[d] : q \in Requests /\ locked'[q] = locked[q]
    BY <1>1, <1>2 DEF Remembered
  <2>1. CASE d # c
    <3>1. events'[d] = events[d] /\ admits'[d] = admits[d]
      BY <1>0, <2>1 DEF RateInv, RateTypeOK
    <3> QED
      BY <2>0, <3>1 DEF RateInv, RecentKept
  <2>2. CASE d = c
    <3>1. /\ events'[c] = kept \cup {r} /\ Cardinality(kept) < RPMLimit[c]
          /\ admits'[c] = admits[c] \cup {r} /\ RPMLimit[c] \in Nat
      <4>1. RPMLimit[c] \in Nat /\ RPMLimit[c] # 0
        BY <1>0, <2>2, LimitsAssumption
      <4> QED
        BY <1>0, <4>1 DEF RateInv, RateTypeOK
    <3>2. Cardinality(kept \cup {r}) = Cardinality(kept) + 1 /\ Cardinality(kept) \in Nat
      BY <1>k, CountStep, FiniteRequests
    <3>3. ASSUME NEW q \in admits[c], q # r, locked[q] < Window - MaxSkew PROVE q \in kept
      <4>1. q \in Requests /\ Remembered(q)
        BY <1>0 DEF Remembered, RateInv, RateTypeOK
      <4>2. stamp[q] <= locked[q] + MaxSkew /\ q \in events[c]
        BY <2>2, <3>3, <4>1 DEF RateInv, StampsClose, RecentKept
      <4>3. /\ locked[q] \in Nat /\ stamp[q] \in Nat /\ stamp[r] \in Nat
            /\ MaxSkew \in Nat /\ Window \in Nat
        BY <4>1, LimitsAssumption DEF RateInv, RateTypeOK
      <4>4. stamp[q] < Window + stamp[r]
        BY <3>3, <4>2, <4>3
      <4> QED
        BY <1>0, <4>2, <4>4
    <3>4. Cardinality(events'[c]) <= RPMLimit[c]
      BY <3>1, <3>2
    <3> QED
      BY <2>0, <2>2, <3>1, <3>3, <3>4
  <2> QED
    BY <2>1, <2>2
<1> QED
  BY <1>2, <1>5, <1>6

LEMMA MaxPair ==
    ASSUME NEW a \in Int, NEW b \in Int
    PROVE  Max({a, b}) = IF a >= b THEN a ELSE b
BY DEF Max

\* A refusal drops what left the window, and the caller may wait for the first.
LEMMA RefuseKeeps ==
    ASSUME RateInv, NEW r \in Requests, RefuseRate(r)
    PROVE  RateTypeOK' /\ StampsClose' /\ RecentKept'
<1> DEFINE c == chan[r]
<1> DEFINE kept == Kept(c, stamp[r])
<1> DEFINE to == IF waits[r] THEN "timer" ELSE "refused"
<1>0. /\ c \in Channels /\ pc[r] = "reserve" /\ events' = [events EXCEPT ![c] = kept]
      /\ Release(r, to) /\ UNCHANGED <<chan, admits>> /\ Ages(Same)
      /\ kept = {q \in events[c] : stamp[q] < Window + stamp[r]}
  BY DEF RefuseRate, Kept, RateInv, SlotInv, SlotTypeOK
<1>n. stamp[r] \in Nat /\ Window \in Nat /\ MaxSkew \in Nat
  BY LimitsAssumption DEF RateInv, RateTypeOK
<1>1. /\ events' \in [Channels -> SUBSET Requests] /\ admits' \in [Channels -> SUBSET Requests]
      /\ \A d \in Channels :
           /\ events'[d] \subseteq events[d] /\ admits'[d] \subseteq admits[d]
           /\ \A q \in events[d] \ events'[d] : stamp[q] >= Window
  <2>1. ASSUME NEW q \in events[c], q \notin kept PROVE stamp[q] >= Window
    <3>1. stamp[q] \in Nat /\ ~ (stamp[q] < Window + stamp[r])
      BY <1>0, <2>1 DEF RateInv, RateTypeOK
    <3> QED
      BY <3>1, <1>n
  <2> QED
    BY <1>0, <2>1 DEF RateInv, RateTypeOK
<1>2. timer' \in [Requests -> 0..MaxAge]
  <2> PICK q \in Foremost(kept) :
        timer' = [timer EXCEPT ![r] = IF waits[r] THEN Max({Window + stamp[r] - stamp[q], 0}) ELSE 0]
    BY DEF RefuseRate
  <2>1. q \in Requests /\ stamp[q] \in Nat
    BY <1>0 DEF Foremost, RateInv, RateTypeOK
  <2>2. stamp[r] <= MaxSkew
    BY <1>0 DEF RateInv, StampsClose
  <2>3. Max({Window + stamp[r] - stamp[q], 0}) \in 0..MaxAge
    <3>1. PICK n \in Int : n = Window + stamp[r] - stamp[q]
      BY <2>1, <1>n
    <3>2. n <= MaxAge /\ 0 \in 0..MaxAge
      BY <2>1, <2>2, <3>1, <1>n DEF MaxAge
    <3>3. Max({n, 0}) = IF n >= 0 THEN n ELSE 0
      BY MaxPair
    <3>4. Max({n, 0}) \in 0..MaxAge
      BY <3>2, <3>3, <1>n DEF MaxAge
    <3> QED
      BY <3>1, <3>4
  <2>4. 0 \in 0..MaxAge
    BY <1>n DEF MaxAge
  <2> QED
    BY <2>3, <2>4 DEF RateInv, RateTypeOK
<1>3. \A q \in Requests : /\ pc[q] \in Passed => pc'[q] \in Passed
                          /\ pc'[q] = "reserve" => pc[q] = "reserve"
  BY <1>0, ReleaseMoves DEF RateInv, Passed, InFlight
<1> HIDE DEF c, kept, to
<1> QED
  BY <1>0, <1>1, <1>2, <1>3, DropsKeep

LEMMA TickKeeps ==
    ASSUME RateInv, Tick
    PROVE  RateTypeOK' /\ StampsClose' /\ RecentKept'
<1>0. /\ UNCHANGED <<pc, chan, events>>
      /\ admits' = [c \in Channels |-> {r \in admits[c] : locked[r] + 1 < Window}]
      /\ timer' = [r \in Requests |-> IF timer[r] > 0 THEN timer[r] - 1 ELSE 0]
      /\ stamp' = [r \in Requests |-> IF pc'[r] = "reserve" \/ Remembered(r)' THEN Older(stamp[r]) ELSE 0]
      /\ locked' = [r \in Requests |-> IF Remembered(r)' THEN Older(locked[r]) ELSE 0]
      /\ \A r \in Requests : pc[r] = "reserve" => stamp[r] < MaxSkew
  BY DEF Tick, Ages, slotVars
<1>n. MaxSkew \in Nat /\ Window \in Nat /\ MaxAge \in Nat /\ MaxAge = Window + MaxSkew
  BY LimitsAssumption DEF MaxAge
<1>1. \A a \in 0..MaxAge : Older(a) \in 0..MaxAge /\ Older(a) >= a /\ Older(a) <= a + 1
                           /\ (a < MaxAge => Older(a) = a + 1)
  BY <1>n DEF Older
<1>t. \A r \in Requests : stamp[r] \in 0..MaxAge /\ locked[r] \in 0..MaxAge /\ timer[r] \in 0..MaxAge
  BY DEF RateInv, RateTypeOK
<1>2. RateTypeOK'
  <2>1. stamp' \in [Requests -> 0..MaxAge] /\ locked' \in [Requests -> 0..MaxAge]
    BY <1>0, <1>1, <1>n, <1>t
  <2>2. timer' \in [Requests -> 0..MaxAge]
    BY <1>0, <1>n, <1>t
  <2>3. admits' \in [Channels -> SUBSET Requests]
    BY <1>0 DEF RateInv, RateTypeOK
  <2> QED
    BY <1>0, <2>1, <2>2, <2>3 DEF RateInv, RateTypeOK
<1>3. \A r \in Requests : Remembered(r)' => Remembered(r)
  BY <1>0 DEF Remembered
<1>4. StampsClose'
  <2> SUFFICES ASSUME NEW r \in Requests
               PROVE  /\ Remembered(r)' => pc'[r] \in Passed /\ stamp'[r] <= locked'[r] + MaxSkew
                      /\ ~ Remembered(r)' => locked'[r] = 0
                      /\ pc'[r] = "reserve" => stamp'[r] <= MaxSkew
    BY DEF StampsClose
  <2>1. ASSUME Remembered(r)' PROVE pc'[r] \in Passed /\ stamp'[r] <= locked'[r] + MaxSkew
    <3>1. pc[r] \in Passed /\ stamp[r] <= locked[r] + MaxSkew
      BY <1>3, <2>1 DEF RateInv, StampsClose
    <3>2. stamp'[r] = Older(stamp[r]) /\ locked'[r] = Older(locked[r])
      BY <1>0, <2>1
    <3>3. Older(stamp[r]) <= Older(locked[r]) + MaxSkew
      <4>1. CASE locked[r] < MaxAge
        BY <1>1, <1>n, <1>t, <3>1, <4>1
      <4>2. CASE locked[r] = MaxAge
        BY <1>1, <1>n, <1>t, <4>2
      <4> QED
        BY <1>t, <1>n, <4>1, <4>2
    <3> QED
      BY <1>0, <3>1, <3>2, <3>3
  <2>2. ASSUME pc'[r] = "reserve" PROVE stamp'[r] <= MaxSkew
    <3>1. stamp'[r] = Older(stamp[r]) /\ stamp[r] < MaxSkew
      BY <1>0, <2>2
    <3> QED
      BY <3>1, <1>1, <1>n, <1>t
  <2> QED
    BY <1>0, <2>1, <2>2
<1>5. RecentKept'
  <2> SUFFICES ASSUME NEW c \in Channels, RPMLimit[c] > 0
               PROVE  /\ Cardinality(events'[c]) <= RPMLimit[c]
                      /\ \A q \in admits'[c] : locked'[q] < Window - MaxSkew => q \in events'[c]
    BY DEF RecentKept
  <2>1. ASSUME NEW q \in admits'[c], locked'[q] < Window - MaxSkew PROVE q \in events'[c]
    <3>1. q \in admits[c] /\ q \in Requests /\ Remembered(q)'
      BY <1>0 DEF Remembered, RateInv, RateTypeOK
    <3>2. locked[q] <= locked'[q] /\ locked[q] \in Nat /\ locked'[q] \in Nat
      BY <1>0, <1>1, <1>t, <1>n, <3>1
    <3>3. locked[q] < Window - MaxSkew
      BY <2>1, <3>2, <1>n
    <3> QED
      BY <1>0, <3>1, <3>3 DEF RateInv, RecentKept
  <2> QED
    BY <1>0, <2>1 DEF RateInv, RecentKept
<1> QED
  BY <1>2, <1>4, <1>5

LEMMA RateNext == RateInv /\ [Next]_vars => RateInv'
<1> SUFFICES ASSUME RateInv, [Next]_vars PROVE RateInv'
  OBVIOUS
<1> USE DEF PCs, Idle, Waiting, InFlight, Settled, Passed
<1>t. pc \in [Requests -> PCs] /\ SlotInv /\ stamp \in [Requests -> 0..MaxAge] /\ 0 \in 0..MaxAge
  BY LimitsAssumption DEF RateInv, RateTypeOK, SlotInv, SlotTypeOK, MaxAge
<1>0. SlotInv'
  BY SlotNext DEF RateInv
<1>1. ASSUME NEW r \in Requests, Step(r) PROVE RateTypeOK' /\ StampsClose' /\ RecentKept'
  <2>1. CASE Start(r) \/ Acquire(r) \/ RefuseSlot(r) \/ Park(r) \/ TimerFires(r) \/ Respond(r)
    BY <1>t, <2>1, MovesOn DEF Start, Acquire, RefuseSlot, Park, TimerFires, Respond, Goto, slotVars
  <2>2. CASE Cancel(r)
    BY <1>t, <2>2, MovesOn DEF Cancel, slotVars
  <2>3. CASE SendFails(r)
    <3>1. pc[r] = "sending" /\ pc'[r] = "failed" /\ UNCHANGED <<chan, rateVars>>
      BY <1>t, <2>3, ReleaseMoves DEF SendFails
    <3>2. \A q \in Requests \ {r} : pc'[q] = pc[q] \/ (pc[q] = "parked" /\ pc'[q] = "slot")
      BY <1>t, <2>3, ReleaseMoves DEF SendFails
    <3> QED
      BY <3>1, <3>2, MovesOn
  <2>4. CASE CloseBody(r)
    <3>1. pc[r] \in {"body", "closed"} /\ pc'[r] = "closed" /\ UNCHANGED <<chan, rateVars>>
      BY <1>t, <2>4, ReleaseMoves DEF CloseBody
    <3>2. \A q \in Requests \ {r} : pc'[q] = pc[q] \/ (pc[q] = "parked" /\ pc'[q] = "slot")
      BY <1>t, <2>4, ReleaseMoves DEF CloseBody
    <3> QED
      BY <3>1, <3>2, MovesOn
  <2>5. CASE ReadClock(r)
    <3>1. /\ pc[r] = "clock" /\ pc' = [pc EXCEPT ![r] = "reserve"] /\ stamp' = [stamp EXCEPT ![r] = 0]
          /\ UNCHANGED <<events, locked, timer, admits>>
      BY <2>5 DEF ReadClock, Goto
    <3>2. \A q \in Requests : Remembered(q)' = Remembered(q)
      BY <3>1 DEF Remembered
    <3>3. ~ Remembered(r)
      BY <3>1 DEF RateInv, StampsClose
    <3>4. RateTypeOK'
      BY <1>t, <3>1 DEF RateInv, RateTypeOK
    <3>5. StampsClose'
      BY <1>t, <3>1, <3>2, <3>3, LimitsAssumption DEF RateInv, StampsClose
    <3>6. RecentKept'
      BY <3>1 DEF RateInv, RecentKept
    <3> QED
      BY <3>4, <3>5, <3>6
  <2> QED
    BY <1>1, <2>1, <2>2, <2>3, <2>4, <2>5, ReserveKeeps, RefuseKeeps DEF Step
<1>2. ASSUME NEW c \in Channels, Prune(c) PROVE RateTypeOK' /\ StampsClose' /\ RecentKept'
  <2>1. PICK k \in 0..MaxSkew : events' = [events EXCEPT ![c] = {q \in events[c] : stamp[q] < Window + k}]
    BY <1>2 DEF Prune, Kept
  <2>2. \A q \in events[c] : stamp[q] \in Nat /\ (~ (stamp[q] < Window + k) => stamp[q] >= Window)
    BY LimitsAssumption DEF RateInv, RateTypeOK
  <2>3. UNCHANGED <<pc, chan, timer, admits>> /\ Ages(Same)
    BY <1>2 DEF Prune, slotVars
  <2> QED
    BY <2>1, <2>2, <2>3, DropsKeep DEF RateInv, RateTypeOK
<1>3. ASSUME NEW c \in Channels, RemoveChannel(c) PROVE RateTypeOK' /\ StampsClose' /\ RecentKept'
  <2>1. /\ events' = [events EXCEPT ![c] = {}] /\ admits' = [admits EXCEPT ![c] = {}]
        /\ UNCHANGED <<pc, chan, timer>> /\ Ages(Same)
    BY <1>3 DEF RemoveChannel, slotVars
  <2> QED
    BY <2>1, DropsKeep DEF RateInv, RateTypeOK
<1>4. ASSUME UNCHANGED vars PROVE RateTypeOK' /\ StampsClose' /\ RecentKept'
  BY <1>4, MovesOn DEF vars, rateVars
<1> QED
  BY <1>0, <1>1, <1>2, <1>3, <1>4, TickKeeps DEF RateInv, Next

\* Every variable keeps to its type.
THEOREM LimitsTypeInvariant == Spec => []TypeOK
<1>1. RateInv => TypeOK
  BY DEF RateInv, SlotInv, TypeOK
<1> QED
  BY <1>1, RateInit, RateNext, PTL DEF Spec

\* rpm_limit caps the admissions of every minute less the delay between reading
\* the clock and locking the limiter (reserve in channel_rpm_limiter.go).
THEOREM WindowCapped == Spec => []HardRPMCap
<1>1. RateInv => HardRPMCap
  <2> SUFFICES ASSUME RateInv, NEW c \in Channels, RPMLimit[c] > 0
               PROVE  Cardinality({q \in admits[c] : locked[q] < Window - MaxSkew}) <= RPMLimit[c]
    BY DEF HardRPMCap
  <2> DEFINE R == {q \in admits[c] : locked[q] < Window - MaxSkew}
  <2>1. R \subseteq events[c] /\ events[c] \in SUBSET Requests
    BY DEF RateInv, RecentKept, RateTypeOK
  <2>2. Cardinality(R) <= Cardinality(events[c])
    BY <2>1, FiniteRequests, FS_Subset
  <2>3. Cardinality(R) \in Nat /\ Cardinality(events[c]) \in Nat /\ RPMLimit[c] \in Nat
    BY <2>1, FiniteRequests, LimitsAssumption
  <2> QED
    BY <2>2, <2>3 DEF RateInv, RecentKept
<1> QED
  BY <1>1, RateInit, RateNext, PTL DEF Spec

-------------------------------------------------------------------------------
(* What the upstream has sent.                                             *)

Places ==
    Tools \cup {"", "chunk", "text", "thinking", "search", "result", "redacted", "between", "reasoning", "message"}

Oddities == Lanes \cup {"signed text", "text after a call", "calls together", "cut short"}

Upstreams ==
    [sent : [Lanes -> Nat], begun : SUBSET Tools, closed : SUBSET Tools, at : Places, part : {"", "part", "parts"},
     sig : {"", "early", "final"}, items : Nat, since : Nat, finish : BOOLEAN,
     ended : {"", "end", "error", "failed"}, odd : SUBSET Oddities]

\* A call is none of the words that name something else.
LEMMA ToolsAreCalls ==
    /\ Tools = {Calls[k] : k \in 1..Len(Calls)}
    /\ Len(Calls) \in Nat
    /\ Tools \cap Words = {}
    /\ MixedTools \subseteq Tools
    /\ Tools \subseteq Lanes
<1>1. Len(Calls) \in Nat /\ DOMAIN Calls = 1..Len(Calls)
  BY StreamAssumption
<1>2. Tools = {Calls[k] : k \in 1..Len(Calls)}
  BY <1>1 DEF Tools, ToSet
<1>3. \A k \in 1..Len(Calls) : Calls[k] \notin Words
  BY StreamAssumption
<1>4. MaxCalls \in 1..Len(Calls)
  BY StreamAssumption
<1>5. Tools \cap Words = {}
  BY <1>2, <1>3
<1>6. MixedTools \subseteq Tools
  <2>1. 1..MaxCalls \subseteq 1..Len(Calls)
    BY <1>1, <1>4
  <2> QED
    BY <2>1, <1>2 DEF MixedTools
<1>7. Tools \subseteq Lanes
  BY DEF Lanes
<1> QED
  BY <1>1, <1>2, <1>5, <1>6, <1>7

LEMMA SilentTyped == Silent \in Upstreams
<1>1. [ch \in Lanes |-> 0] \in [Lanes -> Nat]
  OBVIOUS
<1> QED
  BY <1>1 DEF Silent, Upstreams, Places

\* The calls begun are the first of them, where they come in their order.
Firsts(k) == {Calls[j] : j \in 1..k}

InTurn(u, max) ==
    \E k \in 0..max : u.begun = Firsts(k) /\ Cardinality(u.begun) = k /\ IsFiniteSet(u.begun)

LEMMA NextCallIsNew ==
    ASSUME NEW u, NEW max \in 0..Len(Calls), InTurn(u, max), NEW t \in NextCall(u, max)
    PROVE  /\ t \in Tools \ u.begun
           /\ \A v : v.begun = u.begun \cup {t} => InTurn(v, max)
<1>1. PICK k \in 0..max : u.begun = Firsts(k) /\ Cardinality(u.begun) = k /\ IsFiniteSet(u.begun)
  BY DEF InTurn
<1>2. k # max /\ t = Calls[k + 1]
  BY <1>1 DEF NextCall
<1>3. Len(Calls) \in Nat /\ k + 1 \in 1..Len(Calls) /\ 1..k \subseteq 1..Len(Calls) /\ k + 1 \notin 1..k
  BY <1>1, <1>2, ToolsAreCalls
<1>4. t \in Tools
  BY <1>2, <1>3, ToolsAreCalls
<1>5. t \notin Firsts(k)
  BY <1>2, <1>3, StreamAssumption DEF Firsts
<1>6. Firsts(k + 1) = Firsts(k) \cup {t}
  <2>1. 1..(k + 1) = 1..k \cup {k + 1}
    BY <1>1
  <2> QED
    BY <2>1, <1>2 DEF Firsts
<1>7. Cardinality(u.begun \cup {t}) = k + 1 /\ IsFiniteSet(u.begun \cup {t})
  BY <1>1, <1>5, FS_AddElement
<1>8. k + 1 \in 0..max
  BY <1>1, <1>2
<1> QED
  BY <1>1, <1>4, <1>5, <1>6, <1>7, <1>8 DEF InTurn

LEMMA SilentInTurn ==
    ASSUME NEW max \in Nat
    PROVE  InTurn(Silent, max)
<1>1. Silent.begun = {} /\ Firsts(0) = {}
  BY DEF Silent, Firsts
<1> QED
  BY <1>1, FS_EmptySet DEF InTurn

-------------------------------------------------------------------------------
(* A client of the Anthropic protocol.                                     *)

ClaudeClients ==
    [phase : {"none", "open", "delta", "stop", "error"}, next : Nat, open : SUBSET (Nat \X (Lanes \cup {"result"})),
     announced : SUBSET (Lanes \cup {"result"}), reason : {"", "tool_use", "max_tokens", "end_turn"},
     fault : BOOLEAN, torn : BOOLEAN, got : [Lanes -> Nat]]

LEMMA ClaudeClientTyped == ClaudeClient \in ClaudeClients
<1>1. [ch \in Lanes |-> 0] \in [Lanes -> Nat]
  OBVIOUS
<1> QED
  BY <1>1 DEF ClaudeClient, ClaudeClients

\* What the events of the protocol do to a client.
LEMMA ClaudeBegin ==
    ASSUME NEW c \in ClaudeClients
    PROVE  LET after == message_start(c)
           IN  /\ after \in ClaudeClients /\ after.phase = "open" /\ (after.fault <=> (c.fault \/ c.phase # "none"))
               /\ after.next = c.next /\ after.open = c.open /\ after.announced = c.announced
               /\ after.got = c.got /\ after.torn = c.torn /\ after.reason = c.reason
BY DEF message_start, ClaudeClients

LEMMA ClaudeStart ==
    ASSUME NEW c \in ClaudeClients, NEW i \in Nat, NEW ch \in Lanes \cup {"result"}
    PROVE  LET after == content_block_start(c, i, ch)
           IN  /\ after \in ClaudeClients /\ after.phase = c.phase
               /\ after.next = c.next + 1 /\ after.open = c.open \cup {<<i, ch>>} /\ after.announced = c.announced \cup {ch}
               /\ (after.fault <=> (c.fault \/ c.phase # "open" \/ i # c.next \/ (ch \in Tools \cap c.announced)))
               /\ after.got = c.got /\ after.torn = c.torn /\ after.reason = c.reason
<1> DEFINE d == content_block_start(c, i, ch)
           f == c.fault \/ c.phase # "open" \/ i # c.next \/ (ch \in Tools \cap c.announced)
<1>0. c.open \in SUBSET (Nat \X (Lanes \cup {"result"})) /\ c.next \in Nat /\ c.announced \subseteq Lanes \cup {"result"}
  BY DEF ClaudeClients
<1>1. c.open \cup {<<i, ch>>} \in SUBSET (Nat \X (Lanes \cup {"result"}))
  BY <1>0
<1>2. c.announced \cup {ch} \in SUBSET (Lanes \cup {"result"}) /\ c.next + 1 \in Nat /\ f \in BOOLEAN
  BY <1>0
<1>3. d = [c EXCEPT !.next = c.next + 1, !.open = c.open \cup {<<i, ch>>}, !.announced = c.announced \cup {ch}, !.fault = f]
  BY DEF content_block_start, ClaudeClients
<1> HIDE DEF d, f
<1>4. /\ d \in ClaudeClients /\ d.phase = c.phase
      /\ d.next = c.next + 1 /\ d.open = c.open \cup {<<i, ch>>} /\ d.announced = c.announced \cup {ch}
      /\ (d.fault <=> f) /\ d.got = c.got /\ d.torn = c.torn /\ d.reason = c.reason
  BY <1>1, <1>2, <1>3 DEF ClaudeClients
<1> QED
  BY <1>4 DEF d, f

LEMMA ClaudeDelta ==
    ASSUME NEW c \in ClaudeClients, NEW i \in Nat, NEW ch \in Lanes, NEW from \in Nat, NEW to \in Nat
    PROVE  LET after == content_block_delta(c, i, ch, from, to)
           IN  /\ after \in ClaudeClients /\ after.phase = c.phase
               /\ after.next = c.next /\ after.open = c.open /\ after.announced = c.announced /\ after.reason = c.reason
               /\ after.got = [c.got EXCEPT ![ch] = to] /\ (after.torn <=> (c.torn \/ from # c.got[ch] + 1))
               /\ (after.fault <=> (c.fault \/ <<i, IF ch = "signature" THEN "thinking" ELSE ch>> \notin c.open))
BY DEF content_block_delta, ClaudeClients

\* The number of the piece a client waits for.
Awaited(c, ch) == c.got[ch] + 1

\* A piece goes to an open block of its lane.
Listens(c, i, ch) ==
    c \in ClaudeClients /\ i \in Nat /\ ch \in Lanes \ {"signature"} /\ ~c.fault /\ <<i, ch>> \in c.open

\* d is what c is when it has heard a piece, as far as it is no matter which.
Heeds(c, d) ==
    /\ d \in ClaudeClients /\ d.phase = c.phase /\ ~d.fault
    /\ d.next = c.next /\ d.open = c.open /\ d.announced = c.announced

HeardPiece(c, d, ch, no) ==
    Heeds(c, d) /\ d.got = [c.got EXCEPT ![ch] = no] /\ (no = Awaited(c, ch) => d.torn = c.torn)

LEMMA ClaudePiece ==
    ASSUME NEW c, NEW i, NEW ch, NEW no \in Nat, Listens(c, i, ch)
    PROVE  HeardPiece(c, content_block_delta(c, i, ch, no, no), ch, no)
<1>1. c \in ClaudeClients /\ i \in Nat /\ ch \in Lanes \ {"signature"} /\ ~c.fault /\ <<i, ch>> \in c.open
  BY DEF Listens
<1> QED
  BY <1>1 DEF content_block_delta, ClaudeClients, Awaited, HeardPiece, Heeds

LEMMA ClaudeSignature ==
    ASSUME NEW c \in ClaudeClients, NEW i \in Nat, ~c.fault, <<i, "thinking">> \in c.open
    PROVE  LET after == content_block_delta(c, i, "signature", c.got["signature"] + 1, c.got["signature"] + 1)
           IN  /\ after \in ClaudeClients /\ after.phase = c.phase /\ ~after.fault
               /\ after.next = c.next /\ after.open = c.open /\ after.announced = c.announced
               /\ after.got = [c.got EXCEPT !["signature"] = @ + 1] /\ after.torn = c.torn
<1>1. "signature" \in Lanes /\ c.got \in [Lanes -> Nat]
  BY DEF Lanes, ClaudeClients
<1>2. PICK no \in Nat : no = c.got["signature"] + 1
  BY <1>1
<1>3. PICK d : d = content_block_delta(c, i, "signature", no, no)
  OBVIOUS
<1>4. /\ d \in ClaudeClients /\ d.phase = c.phase
      /\ d.next = c.next /\ d.open = c.open /\ d.announced = c.announced
      /\ d.got = [c.got EXCEPT !["signature"] = no] /\ (d.torn <=> (c.torn \/ no # c.got["signature"] + 1))
      /\ (d.fault <=> (c.fault \/ <<i, "thinking">> \notin c.open))
  BY <1>1, <1>2, <1>3, ClaudeDelta
<1>5. d.torn = c.torn
  BY <1>2, <1>4 DEF ClaudeClients
<1> QED
  BY <1>2, <1>3, <1>4, <1>5

LEMMA ClaudeStop ==
    ASSUME NEW c \in ClaudeClients, NEW i \in Nat
    PROVE  LET after == content_block_stop(c, i)
           IN  /\ after \in ClaudeClients /\ after.phase = c.phase
               /\ after.next = c.next /\ after.open = {b \in c.open : b[1] # i} /\ after.announced = c.announced
               /\ (after.fault <=> (c.fault \/ ~ \E b \in c.open : b[1] = i))
               /\ after.got = c.got /\ after.torn = c.torn /\ after.reason = c.reason
BY DEF content_block_stop, ClaudeClients

LEMMA ClaudeConclude ==
    ASSUME NEW c \in ClaudeClients, NEW reason \in {"tool_use", "max_tokens", "end_turn"}
    PROVE  LET after == message_stop(message_delta(c, reason))
           IN  /\ after \in ClaudeClients /\ after.phase = "stop" /\ after.reason = reason
               /\ (after.fault <=> (c.fault \/ c.phase # "open" \/ c.open # {}))
               /\ after.announced = c.announced /\ after.got = c.got /\ after.torn = c.torn
BY DEF message_stop, message_delta, ClaudeClients

-------------------------------------------------------------------------------
(* From Gemini to Anthropic.                                               *)

GeminiParamsSet ==
    [first : BOOLEAN, type : Lanes \cup {""}, index : Nat, content : BOOLEAN, saw : BOOLEAN, final : BOOLEAN]

\* There is at most one block, and the translator knows which.
OneBlock(s) ==
    /\ s = [p |-> s.p, c |-> s.c] /\ s.p \in GeminiParamsSet /\ s.c \in ClaudeClients
    /\ s.c.phase = "open" /\ ~s.c.fault /\ s.p.first /\ ~s.p.final
    /\ s.p.content <=> s.p.type # ""
    /\ s.p.type = "" <=> s.c.announced = {}
    /\ s.p.type # "" => s.p.type \in s.c.announced
    /\ s.p.type = "" => s.c.open = {} /\ s.c.next = 0 /\ s.p.index = 0
    /\ s.p.type # "" => s.c.open = {<<s.p.index, s.p.type>>} /\ s.c.next = s.p.index + 1

\* Parts of a Gemini stream for an Anthropic client.
LEMMA GeminiClaudeOffers ==
    ASSUME NEW u \in Upstreams, NEW e \in GeminiOffers(u, "claude")
    PROVE  \/ /\ u.ended = ""
              /\ \/ \E ch \in {"text", "thinking"}, sig \in Nat :
                      /\ e = Part("text", ch, u.sent[ch] + 1, sig, "", FALSE)
                      /\ sig > 0 => sig = u.sent["signature"] + 1 /\ u.odd = {}
                 \/ /\ e = Part("signature", "signature", 0, u.sent["signature"] + 1, "", FALSE)
                    /\ u.odd = {}
                 \/ \E t \in NextCall(u, MaxCalls), no \in {0, 1} : e = Part("call", t, no, 0, "", FALSE)
                 \/ \E t \in Tools : u.at = t /\ e = Part("more", t, u.sent[t] + 1, 0, "", FALSE)
                 \/ \E usage \in BOOLEAN : e = Part("none", "", 0, 0, "", usage)
                 \/ \E reason \in {"STOP", "MAX_TOKENS"} : e = Part("none", "", 0, 0, reason, TRUE)
           \/ u.ended = "end" /\ e = [type |-> "[DONE]"]
<1>1. u.sent["signature"] \in Nat /\ MaxPieces \in Nat
  BY StreamAssumption DEF Upstreams, Lanes
<1>2. \A sig \in Signatures(u) : sig \in Nat /\ (sig > u.sent["signature"] => sig = u.sent["signature"] + 1)
  BY <1>1 DEF Signatures
<1>3. CASE u.ended = "end" /\ ~u.finish
  BY <1>3 DEF GeminiOffers
<1>4. CASE u.ended = ""
  <2>1. e \in GeminiContent(u, "claude") \cup {Part("none", "", 0, 0, reason, TRUE) : reason \in {"STOP", "MAX_TOKENS"}}
    BY <1>4 DEF GeminiOffers
  <2>2. CASE e \in GeminiContent(u, "claude")
    <3>1. e \in GeminiParts(u, MaxCalls) /\ (e.sig > 0 => e.sig > u.sent["signature"] /\ e.part # "call" /\ u.odd = {})
      BY <2>2 DEF GeminiContent
    <3>2. CASE \E ch \in {"text", "thinking"}, sig \in Signatures(u) : e = Part("text", ch, u.sent[ch] + 1, sig, "", FALSE)
      <4>1. PICK ch \in {"text", "thinking"}, sig \in Signatures(u) : e = Part("text", ch, u.sent[ch] + 1, sig, "", FALSE)
        BY <3>2
      <4>2. e.sig = sig
        BY <4>1 DEF Part
      <4> QED
        BY <1>2, <1>4, <3>1, <4>1, <4>2
    <3>3. CASE \E sig \in Signatures(u) \ {0} : e = Part("signature", "signature", 0, sig, "", FALSE)
      <4>1. PICK sig \in Signatures(u) \ {0} : e = Part("signature", "signature", 0, sig, "", FALSE)
        BY <3>3
      <4>2. e.sig = sig
        BY <4>1 DEF Part
      <4>3. sig > 0
        BY <1>2
      <4> QED
        BY <1>2, <1>4, <3>1, <4>1, <4>2, <4>3
    <3>4. CASE \E t \in NextCall(u, MaxCalls), args \in BOOLEAN, sig \in Signatures(u) :
                 e = Part("call", t, IF args THEN 1 ELSE 0, sig, "", FALSE)
      <4>1. PICK t \in NextCall(u, MaxCalls), args \in BOOLEAN, sig \in Signatures(u) :
                 e = Part("call", t, IF args THEN 1 ELSE 0, sig, "", FALSE)
        BY <3>4
      <4>2. e.sig = sig /\ e.part = "call"
        BY <4>1 DEF Part
      <4>3. sig = 0
        BY <1>2, <3>1, <4>2
      <4>4. (IF args THEN 1 ELSE 0) \in {0, 1}
        OBVIOUS
      <4> QED
        BY <1>4, <4>1, <4>3, <4>4
    <3>5. CASE \E t \in Tools : u.at = t /\ e = Part("more", t, u.sent[t] + 1, 0, "", FALSE)
      BY <1>4, <3>5
    <3>6. CASE \E usage \in BOOLEAN : e = Part("none", "", 0, 0, "", usage)
      BY <1>4, <3>6
    <3> DEFINE Text(ch, sig) == Part("text", ch, u.sent[ch] + 1, sig, "", FALSE)
               Call(t, args, sig) == Part("call", t, IF args THEN 1 ELSE 0, sig, "", FALSE)
               texts == {Text(ch, sig) : ch \in {c \in {"text", "thinking"} : More(u, c)}, sig \in Signatures(u)}
               signs == {Part("signature", "signature", 0, sig, "", FALSE) : sig \in Signatures(u) \ {0}}
               calls == {Call(t, args, sig) : t \in NextCall(u, MaxCalls), args \in BOOLEAN, sig \in Signatures(u)}
               mores == {Part("more", t, u.sent[t] + 1, 0, "", FALSE) : t \in {c \in Tools : u.at = c /\ More(u, c)}}
               nones == {Part("none", "", 0, 0, "", usage) : usage \in BOOLEAN}
    <3>7. GeminiParts(u, MaxCalls) = texts \cup signs \cup calls \cup mores \cup nones
      BY DEF GeminiParts
    <3>8. CASE e \in texts
      <4> HIDE DEF Text
      <4>1. \E ch \in {"text", "thinking"}, sig \in Signatures(u) : e = Text(ch, sig)
        BY <3>8
      <4> QED
        BY <3>2, <4>1 DEF Text
    <3>9. CASE e \in mores
      BY <3>5, <3>9
    <3>10. CASE e \in signs
      BY <3>3, <3>10
    <3>11. CASE e \in calls
      <4> HIDE DEF Call
      <4>1. \E t \in NextCall(u, MaxCalls), args \in BOOLEAN, sig \in Signatures(u) : e = Call(t, args, sig)
        BY <3>11
      <4> QED
        BY <3>4, <4>1 DEF Call
    <3>12. CASE e \in nones
      BY <3>6, <3>12
    <3> HIDE DEF texts, signs, calls, mores, nones
    <3>13. e \in texts \cup signs \cup calls \cup mores \cup nones
      BY <3>1, <3>7
    <3> QED
      BY <3>8, <3>9, <3>10, <3>11, <3>12, <3>13
  <2>3. CASE e \in {Part("none", "", 0, 0, reason, TRUE) : reason \in {"STOP", "MAX_TOKENS"}}
    BY <1>4, <2>3
  <2> QED
    BY <2>1, <2>2, <2>3
<1> QED
  BY <1>3, <1>4 DEF GeminiOffers

\* The next block, i, once the one before is closed and d is left.
Between(s, i, d) ==
    /\ i \in Nat /\ d \in ClaudeClients /\ d.phase = "open" /\ d.open = {} /\ ~d.fault /\ d.next = i
    /\ d.announced = s.c.announced /\ d.got = s.c.got /\ d.torn = s.c.torn

Opened(s, ch, i, d) ==
    [p |-> [s.p EXCEPT !.type = ch, !.index = i, !.content = TRUE], c |-> content_block_start(d, i, ch)]

\* s has no open block, or its block was closed; r has one, of lane ch.
NextBlock(s, ch, r) ==
    /\ OneBlock(r)
    /\ r.p.type = ch /\ r.p.saw = s.p.saw
    /\ r.c.got = s.c.got /\ r.c.torn = s.c.torn /\ r.c.announced = s.c.announced \cup {ch}

LEMMA BlockOpened ==
    ASSUME NEW s, OneBlock(s), NEW ch \in {"text", "thinking"} \cup Tools, ch \notin Tools \cap s.c.announced,
           NEW i, NEW d, Between(s, i, d)
    PROVE  NextBlock(s, ch, Opened(s, ch, i, d))
<1> DEFINE r == Opened(s, ch, i, d)
<1>a. r = [p |-> [s.p EXCEPT !.type = ch, !.index = i, !.content = TRUE], c |-> content_block_start(d, i, ch)]
  BY DEF Opened
<1>b. i \in Nat /\ d \in ClaudeClients /\ d.phase = "open" /\ d.open = {} /\ ~d.fault /\ d.next = i
      /\ d.announced = s.c.announced /\ d.got = s.c.got /\ d.torn = s.c.torn
  BY DEF Between
<1> HIDE DEF r
<1>0. ch \in Lanes /\ ch # ""
  BY ToolsAreCalls DEF Lanes, Words
<1>1. /\ r.c \in ClaudeClients /\ r.c.phase = "open" /\ r.c.open = {<<i, ch>>} /\ ~r.c.fault /\ r.c.next = i + 1
      /\ r.c.announced = s.c.announced \cup {ch} /\ r.c.got = s.c.got /\ r.c.torn = s.c.torn
  <2>1. r.c = content_block_start(d, i, ch)
    BY <1>a
  <2>2. ch \in Lanes \cup {"result"} /\ ch \notin Tools \cap d.announced
    BY <1>0, <1>b
  <2>3. /\ r.c \in ClaudeClients /\ r.c.phase = "open" /\ r.c.open = d.open \cup {<<i, ch>>} /\ r.c.next = i + 1
        /\ r.c.announced = d.announced \cup {ch} /\ r.c.got = d.got /\ r.c.torn = d.torn
        /\ (r.c.fault <=> (d.fault \/ d.phase # "open" \/ i # d.next \/ (ch \in Tools \cap d.announced)))
    <3>1. d \in ClaudeClients /\ i \in Nat
      BY <1>b
    <3>2. /\ r.c \in ClaudeClients /\ r.c.phase = d.phase /\ r.c.open = d.open \cup {<<i, ch>>}
          /\ r.c.next = d.next + 1 /\ r.c.announced = d.announced \cup {ch}
      BY <2>1, <2>2, <3>1, ClaudeStart
    <3>3. r.c.got = d.got /\ r.c.torn = d.torn
      BY <2>1, <2>2, <3>1, ClaudeStart
    <3>4. r.c.fault <=> (d.fault \/ d.phase # "open" \/ i # d.next \/ (ch \in Tools \cap d.announced))
      BY <2>1, <2>2, <3>1, ClaudeStart
    <3> QED
      BY <1>b, <3>2, <3>3, <3>4
  <2>4. ~r.c.fault
    BY <1>b, <2>2, <2>3
  <2> QED
    BY <1>b, <2>3, <2>4
<1>2. s.p \in GeminiParamsSet /\ s.p.first /\ ~s.p.final
  BY DEF OneBlock
<1>3. /\ r.p \in GeminiParamsSet /\ r.p.type = ch /\ r.p.index = i /\ r.p.content /\ r.p.saw = s.p.saw
      /\ r.p.first /\ ~r.p.final
  BY <1>0, <1>2, <1>a, <1>b DEF GeminiParamsSet
<1>4. r = [p |-> r.p, c |-> r.c]
  BY <1>a
<1>5. OneBlock(r)
  BY <1>0, <1>1, <1>3, <1>4 DEF OneBlock
<1> QED
  BY <1>1, <1>3, <1>5 DEF NextBlock, r

LEMMA OpenBlockKeeps ==
    ASSUME NEW s, OneBlock(s), NEW ch \in {"text", "thinking"} \cup Tools, ch \notin Tools \cap s.c.announced
    PROVE  NextBlock(s, ch, openBlock(s, ch))
<1>1. s.p \in GeminiParamsSet /\ s.c \in ClaudeClients
  BY DEF OneBlock
<1>2. s.p.index \in Nat
  BY <1>1 DEF GeminiParamsSet
<1>3. CASE s.p.type = ""
  <2>1. openBlock(s, ch) = Opened(s, ch, s.p.index, s.c)
    BY <1>3 DEF openBlock, Opened
  <2>2. Between(s, s.p.index, s.c)
    BY <1>1, <1>2, <1>3 DEF OneBlock, Between
  <2> QED
    BY <2>1, <2>2, BlockOpened
<1>4. CASE s.p.type # ""
  <2>1. s.c.open = {<<s.p.index, s.p.type>>} /\ s.c.next = s.p.index + 1 /\ s.c.phase = "open" /\ ~s.c.fault
    BY <1>4 DEF OneBlock
  <2>2. PICK d : d = content_block_stop(s.c, s.p.index)
    OBVIOUS
  <2>3. {b \in s.c.open : b[1] # s.p.index} = {}
    BY <2>1
  <2>4. \E b \in s.c.open : b[1] = s.p.index
    BY <2>1
  <2>5. Between(s, s.p.index + 1, d)
    <3>1. PICK i \in Nat : i = s.p.index
      BY <1>2
    <3>2. /\ d \in ClaudeClients /\ d.phase = s.c.phase /\ d.next = s.c.next
          /\ d.open = {b \in s.c.open : b[1] # i} /\ d.announced = s.c.announced
          /\ (d.fault <=> (s.c.fault \/ ~ \E b \in s.c.open : b[1] = i))
          /\ d.got = s.c.got /\ d.torn = s.c.torn
      BY <1>1, <2>2, <3>1, ClaudeStop
    <3>3. s.p.index + 1 \in Nat
      BY <3>1
    <3> QED
      BY <2>1, <2>3, <2>4, <3>1, <3>2, <3>3 DEF Between
  <2>6. openBlock(s, ch) = Opened(s, ch, s.p.index + 1, d)
    BY <1>4, <2>2 DEF openBlock, Opened
  <2> QED
    BY <2>5, <2>6, BlockOpened
<1> QED
  BY <1>3, <1>4

\* r is s after a piece of lane ch, if there is one.
PieceKept(s, r, ch, no) ==
    /\ OneBlock(r) /\ r.p = s.p /\ r.c.announced = s.c.announced
    /\ no = 0 => r.c.got = s.c.got
    /\ no # 0 => r.c.got = [s.c.got EXCEPT ![ch] = no]
    /\ no = 0 \/ no = Awaited(s.c, ch) => r.c.torn = s.c.torn

LEMMA PartDeltaKeeps ==
    ASSUME NEW s, OneBlock(s), NEW ch \in {"text", "thinking"} \cup Tools, <<s.p.index, ch>> \in s.c.open, NEW no \in Nat
    PROVE  PieceKept(s, PartDelta(s, ch, no), ch, no)
<1>0. ch \in Lanes \ {"signature"} /\ ch # ""
  BY ToolsAreCalls DEF Lanes, Words
<1>1. CASE no = 0
  BY <1>1 DEF PartDelta, PieceKept
<1>2. CASE no # 0
  <2>1. /\ <<s.p.index, ch>> \in s.c.open /\ s.c \in ClaudeClients /\ s.p \in GeminiParamsSet /\ ~s.c.fault
        /\ s = [p |-> s.p, c |-> s.c]
    BY DEF OneBlock
  <2>2. s.p.index \in Nat
    BY <2>1 DEF GeminiParamsSet
  <2>3. PICK d : d = content_block_delta(s.c, s.p.index, ch, no, no)
    OBVIOUS
  <2>4. PartDelta(s, ch, no) = [p |-> s.p, c |-> d]
    BY <1>2, <2>1, <2>3 DEF PartDelta
  <2>5. /\ d \in ClaudeClients /\ d.phase = s.c.phase /\ ~d.fault
        /\ d.next = s.c.next /\ d.open = s.c.open /\ d.announced = s.c.announced
        /\ d.got = [s.c.got EXCEPT ![ch] = no] /\ (no = Awaited(s.c, ch) => d.torn = s.c.torn)
    <3>1. Listens(s.c, s.p.index, ch)
      BY <1>0, <2>1, <2>2 DEF Listens
    <3>2. HeardPiece(s.c, d, ch, no)
      BY <2>3, <3>1, ClaudePiece
    <3> QED
      BY <3>2 DEF HeardPiece, Heeds
  <2>6. OneBlock([p |-> s.p, c |-> d])
    BY <2>5 DEF OneBlock
  <2> QED
    BY <1>2, <2>4, <2>5, <2>6 DEF PieceKept
<1> QED
  BY <1>1, <1>2

LEMMA SignatureDeltaKeeps ==
    ASSUME NEW s, OneBlock(s)
    PROVE  LET r == appendSignatureDelta(s)
           IN  /\ OneBlock(r) /\ r.p = s.p /\ r.c.announced = s.c.announced /\ r.c.torn = s.c.torn
               /\ s.p.type = "thinking" => r.c.got = [s.c.got EXCEPT !["signature"] = @ + 1]
               /\ s.p.type # "thinking" => r.c.got = s.c.got
<1>1. CASE s.p.type # "thinking"
  BY <1>1 DEF appendSignatureDelta
<1>2. CASE s.p.type = "thinking"
  <2>1. /\ <<s.p.index, "thinking">> \in s.c.open /\ s.c \in ClaudeClients /\ s.p \in GeminiParamsSet /\ ~s.c.fault
        /\ s = [p |-> s.p, c |-> s.c] /\ s.p.content
    BY <1>2 DEF OneBlock
  <2>2. s.p.index \in Nat /\ [s.p EXCEPT !.content = TRUE] = s.p
    BY <2>1 DEF GeminiParamsSet
  <2>3. PICK d : d = content_block_delta(s.c, s.p.index, "signature", s.c.got["signature"] + 1, s.c.got["signature"] + 1)
    OBVIOUS
  <2>4. appendSignatureDelta(s) = [p |-> s.p, c |-> d]
    BY <1>2, <2>2, <2>3 DEF appendSignatureDelta
  <2>5. /\ d \in ClaudeClients /\ d.phase = s.c.phase /\ ~d.fault
        /\ d.next = s.c.next /\ d.open = s.c.open /\ d.announced = s.c.announced
        /\ d.got = [s.c.got EXCEPT !["signature"] = @ + 1] /\ d.torn = s.c.torn
    BY <2>1, <2>2, <2>3, ClaudeSignature
  <2>6. OneBlock([p |-> s.p, c |-> d])
    BY <2>5 DEF OneBlock
  <2> QED
    BY <1>2, <2>4, <2>5, <2>6
<1> QED
  BY <1>1, <1>2

LEMMA SameBlock ==
    ASSUME NEW s, OneBlock(s), s.p.type # ""
    PROVE  NextBlock(s, s.p.type, s)
BY DEF OneBlock, NextBlock

\* What the translator and the client know of an answer that is under way.
GeminiClaudeFollows(u, s) ==
    /\ OneBlock(s)
    /\ s.p.type \in {"", "text", "thinking"} \cup Tools
    /\ s.c.announced \subseteq {"text", "thinking"} \cup Tools
    /\ u.begun = s.c.announced \cap Tools
    /\ s.p.saw <=> u.begun # {}
    /\ InTurn(u, MaxCalls)
    /\ \A t \in Tools \ u.begun : u.sent[t] = 0
    /\ u.odd \subseteq {"signed text"}
    /\ u.at = s.p.type \/ (u.odd # {} /\ u.at = "text" /\ s.p.type = "thinking")
    /\ u.odd = {} => ~s.c.torn /\ s.c.got = u.sent
    /\ u.ended = ""

\* What it comes to in the end.
GeminiClaudeOver(u, s) ==
    /\ u.ended = "end"
    /\ s.p \in GeminiParamsSet /\ s.c \in ClaudeClients
    /\ s.p.first /\ (s.p.final \/ ~s.p.content)
    /\ ~s.c.fault
    /\ s.c.phase = "stop" \/ (s.c.announced = {} /\ s.c.phase = "open")
    /\ s.c.phase = "stop" => (s.c.reason = "tool_use" <=> s.c.announced \cap Tools # {})
    /\ u.begun \subseteq s.c.announced
    /\ u.odd \subseteq {"signed text"}
    /\ u.odd = {} => ~s.c.torn /\ s.c.got = u.sent

\* The number after a number is one.
LEMMA OneMore == \A n \in Nat : n + 1 \in Nat /\ (n > 0 <=> n # 0)
OBVIOUS

\* One part more, as far as an Anthropic client is concerned.
Signs(u, part, ch, sig) ==
    /\ sig > u.sent["signature"]
    /\ (part = "text" /\ ch = "thinking") \/ (part # "text" /\ u.at = "thinking")

SentBy(u, v, ch, no, signs) ==
    \A x \in Lanes :
      /\ x = ch /\ no # 0 => v.sent[x] = no
      /\ ~(x = ch /\ no # 0) /\ x = "signature" /\ signs => v.sent[x] = u.sent[x] + 1
      /\ ~(x = ch /\ no # 0) /\ ~(x = "signature" /\ signs) => v.sent[x] = u.sent[x]

Taken(u, v, part, ch, no, sig, finish) ==
    /\ v \in Upstreams
    /\ SentBy(u, v, ch, no, Signs(u, part, ch, sig))
    /\ part = "call" => v.begun = u.begun \cup {ch}
    /\ part # "call" => v.begun = u.begun
    /\ part \in {"none", "signature"} => v.at = u.at
    /\ part \notin {"none", "signature"} => v.at = ch
    /\ sig # 0 /\ ch = "text" => v.odd = u.odd \cup {"signed text"}
    /\ ~(sig # 0 /\ ch = "text") => v.odd = u.odd
    /\ finish # "" => v.ended = "end"
    /\ finish = "" => v.ended = ""

LEMMA AfterPartClaude ==
    ASSUME NEW u \in Upstreams, NEW part, NEW ch \in Lanes \cup {""}, NEW no \in Nat, NEW sig \in Nat,
           NEW finish, NEW usage, part = "call" => ch \in Tools, part \notin {"none", "signature"} => ch \in Places
    PROVE  Taken(u, AfterPart(u, Part(part, ch, no, sig, finish, usage), "claude"), part, ch, no, sig, finish)
<1>0. PICK v : v = AfterPart(u, Part(part, ch, no, sig, finish, usage), "claude")
  OBVIOUS
<1> DEFINE e == Part(part, ch, no, sig, finish, usage)
           signs == /\ sig > u.sent["signature"]
                    /\ ((part = "text" /\ ch = "thinking") \/ (part # "text" /\ u.at = "thinking"))
           sent == [x \in Lanes |-> IF x = ch /\ no > 0 THEN no
                                       ELSE IF x = "signature" /\ signs THEN u.sent[x] + 1 ELSE u.sent[x]]
           begun == IF part = "call" THEN u.begun \cup {ch} ELSE u.begun
           at == IF part \in {"none", "signature"} THEN u.at ELSE ch
           odd == IF sig > 0 /\ ch = "text" THEN u.odd \cup {"signed text"} ELSE u.odd
           ended == IF finish # "" THEN "end" ELSE ""
<1>1. e.part = part /\ e.ch = ch /\ e.no = no /\ e.sig = sig /\ e.finish = finish
  BY DEF Part
<1>2. v = [u EXCEPT !.sent = sent, !.begun = begun, !.at = at, !.odd = odd, !.ended = ended]
  <2> DEFINE signs2 == /\ e.sig > u.sent["signature"]
                       /\ "claude" = "claude" => "thinking" = IF e.part = "text" THEN e.ch ELSE u.at
             sent2 == [x \in Lanes |-> IF x = e.ch /\ e.no > 0 THEN e.no
                                          ELSE IF x = "signature" /\ signs2 THEN u.sent[x] + 1 ELSE u.sent[x]]
  <2>1. v = [u EXCEPT !.sent = sent2, !.begun = IF e.part = "call" THEN u.begun \cup {e.ch} ELSE u.begun,
                      !.at = IF e.part \in {"none", "signature"} THEN u.at ELSE e.ch,
                      !.odd = IF e.sig > 0 /\ e.ch = "text" THEN u.odd \cup {"signed text"} ELSE u.odd,
                      !.ended = IF e.finish # "" THEN "end" ELSE ""]
    BY <1>0 DEF AfterPart, Upstreams
  <2>2. signs2 <=> signs
    <3>1. e.sig > u.sent["signature"] <=> sig > u.sent["signature"]
      BY <1>1
    <3>2. CASE part = "text"
      <4>1. e.part = "text" /\ e.ch = ch
        BY <1>1, <3>2
      <4>2. (IF e.part = "text" THEN e.ch ELSE u.at) = ch
        BY <4>1
      <4>3. signs <=> sig > u.sent["signature"] /\ ch = "thinking"
        BY <3>2, Zenon
      <4> HIDE DEF e, signs
      <4>4. signs2 <=> e.sig > u.sent["signature"] /\ "thinking" = ch
        BY <4>2, Zenon
      <4> QED
        BY <3>1, <4>3, <4>4, Zenon
    <3>3. CASE part # "text"
      <4>1. e.part # "text"
        BY <1>1, <3>3
      <4>2. (IF e.part = "text" THEN e.ch ELSE u.at) = u.at
        BY <4>1
      <4>3. signs <=> sig > u.sent["signature"] /\ u.at = "thinking"
        BY <3>3
      <4> HIDE DEF e, signs
      <4>4. signs2 <=> e.sig > u.sent["signature"] /\ "thinking" = u.at
        BY <4>2, Zenon
      <4> QED
        BY <3>1, <4>3, <4>4, Zenon
    <3> QED
      BY <3>2, <3>3
  <2>3. sent2 = sent
    <3> HIDE DEF signs, signs2
    <3> QED
      BY <1>1, <2>2
  <2> HIDE DEF sent, sent2, e
  <2> QED
    BY <1>1, <2>1, <2>3
<1>3. u.sent \in [Lanes -> Nat] /\ u.begun \subseteq Tools /\ u.at \in Places /\ u.odd \subseteq Oddities
  BY DEF Upstreams
<1>4. sent \in [Lanes -> Nat]
  <2> HIDE DEF signs
  <2>1. ASSUME NEW x \in Lanes
        PROVE  (IF x = ch /\ no > 0 THEN no ELSE IF x = "signature" /\ signs THEN u.sent[x] + 1 ELSE u.sent[x]) \in Nat
    <3>1. u.sent[x] \in Nat /\ u.sent[x] + 1 \in Nat
      <4>1. u.sent \in [Lanes -> Nat]
        BY <1>3
      <4>2. PICK n \in Nat : n = u.sent[x]
        BY <4>1
      <4>3. n + 1 \in Nat
        BY <4>2, OneMore
      <4> QED
        BY <4>2, <4>3
    <3>2. CASE x = ch /\ no > 0
      BY <3>2
    <3>3. CASE ~(x = ch /\ no > 0) /\ x = "signature" /\ signs
      BY <3>1, <3>3
    <3>4. CASE ~(x = ch /\ no > 0) /\ ~(x = "signature" /\ signs)
      BY <3>1, <3>4
    <3> QED
      BY <3>2, <3>3, <3>4
  <2> QED
    BY <2>1
<1>5. begun \subseteq Tools /\ at \in Places /\ odd \subseteq Oddities /\ ended \in {"", "end"}
  <2>1. begun \subseteq Tools
    BY <1>3
  <2>2. at \in Places
    BY <1>3
  <2>3. odd \subseteq Oddities
    BY <1>3 DEF Oddities
  <2> QED
    BY <2>1, <2>2, <2>3
<1>6. v.sent = sent /\ v.begun = begun /\ v.at = at /\ v.odd = odd /\ v.ended = ended /\ v \in Upstreams
  <2> HIDE DEF sent, begun, at, odd, ended
  <2> QED
    BY <1>2, <1>4, <1>5 DEF Upstreams
<1>7. signs <=> Signs(u, part, ch, sig)
  BY DEF Signs
<1>8. SentBy(u, v, ch, no, signs)
  <2>1. v.sent = sent
    BY <1>6
  <2> HIDE DEF signs
  <2>2. \A x \in Lanes : v.sent[x] = IF x = ch /\ no > 0 THEN no ELSE IF x = "signature" /\ signs THEN u.sent[x] + 1 ELSE u.sent[x]
    BY <2>1
  <2>3. no > 0 <=> no # 0
    BY OneMore
  <2> HIDE DEF sent
  <2> QED
    BY <2>2, <2>3 DEF SentBy
<1>9. SentBy(u, v, ch, no, Signs(u, part, ch, sig))
  <2> HIDE DEF signs
  <2> QED
    BY <1>7, <1>8, Zenon DEF SentBy
<1> HIDE DEF sent, signs
<1>10. sig > 0 <=> sig # 0
  BY OneMore
<1> QED
  BY <1>0, <1>6, <1>9, <1>10 DEF Taken

\* The calls begun are in their turn as long as they are the same.
LEMMA InTurnStill ==
    ASSUME NEW u, NEW v, NEW max, InTurn(u, max), v.begun = u.begun
    PROVE  InTurn(v, max)
BY DEF InTurn

\* What another part of text or thinking has to come to.
Blocked(s, r, c2) ==
    /\ OneBlock(r) /\ r.p.type = c2 /\ r.p.saw = s.p.saw /\ r.c.announced = s.c.announced \cup {c2}

GoesOn(u, v, c2) ==
    /\ v.ended = "" /\ v.begun = u.begun /\ \A t \in Tools : v.sent[t] = u.sent[t]
    /\ v.odd \subseteq {"signed text"}
    /\ v.at = c2 \/ (v.odd # {} /\ v.at = "text" /\ c2 = "thinking")

Told(v, r) == v.odd = {} => ~r.c.torn /\ r.c.got = v.sent

LEMMA FollowsBlock ==
    ASSUME NEW u, NEW s, GeminiClaudeFollows(u, s), NEW v, NEW r, NEW c2 \in {"text", "thinking"},
           Blocked(s, r, c2), GoesOn(u, v, c2), Told(v, r)
    PROVE  GeminiClaudeFollows(v, r)
<1>0. /\ OneBlock(r) /\ r.p.type = c2 /\ r.p.saw = s.p.saw /\ r.c.announced = s.c.announced \cup {c2}
      /\ v.ended = "" /\ v.begun = u.begun /\ \A t \in Tools : v.sent[t] = u.sent[t]
      /\ v.odd \subseteq {"signed text"}
      /\ v.at = c2 \/ (v.odd # {} /\ v.at = "text" /\ c2 = "thinking")
      /\ v.odd = {} => ~r.c.torn /\ r.c.got = v.sent
  BY DEF Blocked, GoesOn, Told
<1>1. c2 \notin Tools
  BY ToolsAreCalls DEF Words
<1>2. r.c.announced \cap Tools = s.c.announced \cap Tools
  BY <1>0, <1>1
<1>3. InTurn(v, MaxCalls)
  BY <1>0, InTurnStill DEF GeminiClaudeFollows
<1>4. s.c.announced \subseteq {"text", "thinking"} \cup Tools
  BY DEF GeminiClaudeFollows
<1>5. r.c.announced \subseteq {"text", "thinking"} \cup Tools
  BY <1>0, <1>4
<1>6. u.begun = s.c.announced \cap Tools /\ (s.p.saw <=> u.begun # {}) /\ \A t \in Tools \ u.begun : u.sent[t] = 0
  BY DEF GeminiClaudeFollows
<1> QED
  BY <1>0, <1>2, <1>3, <1>5, <1>6 DEF GeminiClaudeFollows

LEMMA SameSent ==
    ASSUME NEW f \in [Lanes -> Nat], NEW g \in [Lanes -> Nat], \A x \in Lanes : g[x] = f[x]
    PROVE  g = f
OBVIOUS

LEMMA PieceSent ==
    ASSUME NEW f \in [Lanes -> Nat], NEW g \in [Lanes -> Nat], NEW ch \in Lanes, NEW no,
           \A x \in Lanes : g[x] = IF x = ch THEN no ELSE f[x]
    PROVE  g = [f EXCEPT ![ch] = no]
OBVIOUS

-------------------------------------------------------------------------------
(* The upstream after a part, lane by lane.                              *)

IsPiece(no) == no \in Nat \ {0}

\* no is the number of the piece that comes next.
Following(u, ch, no) == IsPiece(no) /\ no = u.sent[ch] + 1

NewSignature(u, sig) == Following(u, "signature", sig)

LEMMA FollowingTyped ==
    ASSUME NEW u \in Upstreams, NEW ch \in Lanes
    PROVE  Following(u, ch, u.sent[ch] + 1)
<1>1. PICK n \in Nat : n = u.sent[ch]
  BY DEF Upstreams
<1> QED
  BY <1>1 DEF Following, IsPiece

LEMMA SentSame ==
    ASSUME NEW u \in Upstreams, NEW v, NEW part, NEW ch, NEW finish, Taken(u, v, part, ch, 0, 0, finish)
    PROVE  v \in Upstreams /\ v.sent = u.sent
<1>1. v \in Upstreams /\ u.sent \in [Lanes -> Nat] /\ v.sent \in [Lanes -> Nat]
  BY DEF Taken, Upstreams
<1>2. ~Signs(u, part, ch, 0)
  <2>1. PICK n \in Nat : n = u.sent["signature"]
    BY <1>1 DEF Lanes
  <2> QED
    BY <2>1 DEF Signs
<1>3. \A x \in Lanes : v.sent[x] = u.sent[x]
  BY <1>2 DEF Taken, SentBy
<1> QED
  BY <1>1, <1>3

\* The one piece is what is new.
SentOn(u, v, ch, no) == v.sent = [u.sent EXCEPT ![ch] = no]

LEMMA SentPiece ==
    ASSUME NEW u \in Upstreams, NEW v, NEW part, NEW ch \in Lanes, NEW finish, NEW no, IsPiece(no),
           Taken(u, v, part, ch, no, 0, finish)
    PROVE  SentOn(u, v, ch, no)
<1>1. v \in Upstreams /\ u.sent \in [Lanes -> Nat] /\ v.sent \in [Lanes -> Nat]
  BY DEF Taken, Upstreams
<1>2. ~Signs(u, part, ch, 0)
  <2>1. PICK n \in Nat : n = u.sent["signature"]
    BY <1>1 DEF Lanes
  <2> QED
    BY <2>1 DEF Signs
<1>0. no # 0
  BY DEF IsPiece
<1>3. \A x \in Lanes : v.sent[x] = IF x = ch THEN no ELSE u.sent[x]
  BY <1>0, <1>2 DEF Taken, SentBy
<1> QED
  BY <1>1, <1>3, PieceSent DEF SentOn

LEMMA NewSignatureSigns ==
    ASSUME NEW u \in Upstreams, NEW part, NEW ch, NEW sig, NewSignature(u, sig)
    PROVE  Signs(u, part, ch, sig) <=> (part = "text" /\ ch = "thinking") \/ (part # "text" /\ u.at = "thinking")
<1>1. PICK n \in Nat : n = u.sent["signature"]
  BY DEF Lanes, Upstreams
<1>2. sig > u.sent["signature"]
  BY <1>1 DEF NewSignature, Following
<1> QED
  BY <1>2 DEF Signs

LEMMA SentThought ==
    ASSUME NEW u \in Upstreams, NEW v, NEW no, IsPiece(no), NEW sig, NewSignature(u, sig),
           Taken(u, v, "text", "thinking", no, sig, "")
    PROVE  v.sent = [[u.sent EXCEPT !["thinking"] = no] EXCEPT !["signature"] = @ + 1]
<1>1. u.sent \in [Lanes -> Nat] /\ v.sent \in [Lanes -> Nat] /\ "signature" \in Lanes
  BY DEF Taken, Upstreams, Lanes
<1>2. Signs(u, "text", "thinking", sig)
  BY NewSignatureSigns
<1>0. no # 0
  BY DEF IsPiece
<1>3. \A x \in Lanes : v.sent[x] = IF x = "thinking" THEN no ELSE IF x = "signature" THEN u.sent[x] + 1 ELSE u.sent[x]
  BY <1>0, <1>2 DEF Taken, SentBy
<1> QED
  BY <1>1, <1>3

LEMMA SentSignature ==
    ASSUME NEW u \in Upstreams, NEW v, NEW sig, NewSignature(u, sig),
           Taken(u, v, "signature", "signature", 0, sig, "")
    PROVE  /\ u.at = "thinking" => v.sent = [u.sent EXCEPT !["signature"] = @ + 1]
           /\ u.at # "thinking" => v.sent = u.sent
<1>1. u.sent \in [Lanes -> Nat] /\ v.sent \in [Lanes -> Nat] /\ "signature" \in Lanes
  BY DEF Taken, Upstreams, Lanes
<1>2. Signs(u, "signature", "signature", sig) <=> u.at = "thinking"
  BY NewSignatureSigns
<1>3. \A x \in Lanes : v.sent[x] = IF x = "signature" /\ u.at = "thinking" THEN u.sent[x] + 1 ELSE u.sent[x]
  BY <1>2 DEF Taken, SentBy
<1>4. CASE u.at = "thinking"
  BY <1>1, <1>3, <1>4
<1>5. CASE u.at # "thinking"
  <2>1. \A x \in Lanes : v.sent[x] = u.sent[x]
    BY <1>3, <1>5
  <2>2. v.sent = u.sent
    BY <1>1, <2>1, SameSent
  <2> QED
    BY <1>5, <2>2
<1> QED
  BY <1>4, <1>5

\* The calls' arguments are what they were, whatever is signed.
LEMMA SentToCalls ==
    ASSUME NEW u \in Upstreams, NEW v, NEW ch \in {"text", "thinking", "signature", ""}, NEW part, NEW no, NEW sig, NEW finish,
           Taken(u, v, part, ch, no, sig, finish)
    PROVE  \A t \in Tools : v.sent[t] = u.sent[t]
<1>1. \A t \in Tools : t # ch /\ t # "signature" /\ t \in Lanes
  BY ToolsAreCalls DEF Words
<1> QED
  BY <1>1 DEF Taken, SentBy

\* A piece of text or thinking, in the block that is open or a new one.
InBlock(s, ch) == IF s.p.type = ch THEN s ELSE openBlock(s, ch)

PieceIn(s, d, ch, no) ==
    /\ OneBlock(d) /\ d.p.type = ch /\ d.p.saw = s.p.saw /\ d.c.announced = s.c.announced \cup {ch}
    /\ d.c.got = [s.c.got EXCEPT ![ch] = no] /\ (no = Awaited(s.c, ch) => d.c.torn = s.c.torn)

LEMMA InBlockKeeps ==
    ASSUME NEW s, OneBlock(s), NEW ch \in {"text", "thinking"}, NEW no, IsPiece(no)
    PROVE  PieceIn(s, PartDelta(InBlock(s, ch), ch, no), ch, no)
<1>1. ch \notin Tools /\ ch # ""
  BY ToolsAreCalls DEF Words
<1>2. PICK o : o = InBlock(s, ch)
  OBVIOUS
<1>3. NextBlock(s, ch, o)
  <2>1. CASE s.p.type = ch
    <3>1. NextBlock(s, s.p.type, s)
      BY <1>1, <2>1, SameBlock
    <3> QED
      BY <1>2, <2>1, <3>1 DEF InBlock
  <2>2. CASE s.p.type # ch
    <3>1. NextBlock(s, ch, openBlock(s, ch))
      BY <1>1, OpenBlockKeeps
    <3> QED
      BY <1>2, <2>2, <3>1 DEF InBlock
  <2> QED
    BY <2>1, <2>2
<1>4. /\ OneBlock(o) /\ o.p.type = ch /\ o.p.saw = s.p.saw
      /\ o.c.got = s.c.got /\ o.c.torn = s.c.torn /\ o.c.announced = s.c.announced \cup {ch}
  BY <1>3 DEF NextBlock
<1>5. <<o.p.index, ch>> \in o.c.open
  BY <1>1, <1>4 DEF OneBlock
<1>6. PieceKept(o, PartDelta(o, ch, no), ch, no)
  <2>1. no \in Nat
    BY DEF IsPiece
  <2> QED
    BY <1>4, <1>5, <2>1, PartDeltaKeeps
<1>7. no # 0
  BY DEF IsPiece
<1> QED
  BY <1>2, <1>4, <1>6, <1>7 DEF PieceKept, PieceIn, Awaited

-------------------------------------------------------------------------------
(* Part by part.                                                           *)

LEMMA PlainTextFollows ==
    ASSUME NEW u \in Upstreams, NEW s, GeminiClaudeFollows(u, s), NEW ch \in {"text", "thinking"},
           NEW v, NEW no, Following(u, ch, no), Taken(u, v, "text", ch, no, 0, "")
    PROVE  GeminiClaudeFollows(v, PartDelta(InBlock(s, ch), ch, no))
<1>1. PICK d : d = PartDelta(InBlock(s, ch), ch, no)
  OBVIOUS
<1>2. PieceIn(s, d, ch, no)
  <2>1. OneBlock(s)
    BY DEF GeminiClaudeFollows
  <2>2. IsPiece(no)
    BY DEF Following
  <2>3. PieceIn(s, PartDelta(InBlock(s, ch), ch, no), ch, no)
    BY <2>1, <2>2, InBlockKeeps
  <2> QED
    BY <1>1, <2>3
<1>3. ch \in Lanes
  BY DEF Lanes
<1>4. v.sent = [u.sent EXCEPT ![ch] = no] /\ \A t \in Tools : v.sent[t] = u.sent[t]
  <2>1. v.sent = [u.sent EXCEPT ![ch] = no]
    <3>1. IsPiece(no)
      BY DEF Following
    <3>2. SentOn(u, v, ch, no)
      BY <1>3, <3>1, SentPiece
    <3> QED
      BY <3>2 DEF SentOn
  <2>2. ch \in {"text", "thinking", "signature", ""}
    OBVIOUS
  <2>3. \A t \in Tools : v.sent[t] = u.sent[t]
    BY <2>2, SentToCalls
  <2> QED
    BY <2>1, <2>3
<1>5. v.begun = u.begun /\ v.at = ch /\ v.odd = u.odd /\ v.ended = ""
  <2>1. v.begun = u.begun
    BY DEF Taken
  <2>2. v.at = ch
    BY DEF Taken
  <2>3. v.odd = u.odd
    BY DEF Taken
  <2>4. v.ended = ""
    BY DEF Taken
  <2> QED
    BY <2>1, <2>2, <2>3, <2>4
<1>6. ASSUME u.odd = {}
      PROVE  ~d.c.torn /\ d.c.got = v.sent
  <2>1. ~s.c.torn /\ s.c.got = u.sent
    BY <1>6 DEF GeminiClaudeFollows
  <2>2. no = Awaited(s.c, ch)
    BY <2>1 DEF Awaited, Following
  <2> QED
    BY <1>2, <1>4, <2>1, <2>2 DEF PieceIn
<1>7. u.odd \subseteq {"signed text"}
  BY DEF GeminiClaudeFollows
<1>8. Blocked(s, d, ch)
  BY <1>2 DEF PieceIn, Blocked
<1>9. GoesOn(u, v, ch)
  BY <1>4, <1>5, <1>7 DEF GoesOn
<1>10. Told(v, d)
  BY <1>5, <1>6 DEF Told
<1> QED
  BY <1>1, <1>8, <1>9, <1>10, FollowsBlock

LEMMA SignedTextFollows ==
    ASSUME NEW u \in Upstreams, NEW s, GeminiClaudeFollows(u, s), NEW ch \in {"text", "thinking"}, u.odd = {},
           NEW v, NEW no, Following(u, ch, no), NEW sig, NewSignature(u, sig), Taken(u, v, "text", ch, no, sig, "")
    PROVE  GeminiClaudeFollows(v, appendSignatureDelta(PartDelta(InBlock(s, "thinking"), "thinking", no)))
<1>1. PICK d : d = PartDelta(InBlock(s, "thinking"), "thinking", no)
  OBVIOUS
<1>2. PieceIn(s, d, "thinking", no)
  <2>1. OneBlock(s)
    BY DEF GeminiClaudeFollows
  <2>2. IsPiece(no)
    BY DEF Following
  <2>3. PieceIn(s, PartDelta(InBlock(s, "thinking"), "thinking", no), "thinking", no)
    BY <2>1, <2>2, InBlockKeeps
  <2> QED
    BY <1>1, <2>3
<1>3. OneBlock(d) /\ d.p.type = "thinking" /\ d.p.saw = s.p.saw /\ d.c.announced = s.c.announced \cup {"thinking"}
  BY <1>2 DEF PieceIn
<1>4. PICK r : r = appendSignatureDelta(d)
  OBVIOUS
<1>5. /\ OneBlock(r) /\ r.p = d.p /\ r.c.announced = d.c.announced /\ r.c.torn = d.c.torn
      /\ r.c.got = [d.c.got EXCEPT !["signature"] = @ + 1]
  BY <1>3, <1>4, SignatureDeltaKeeps
<1>6. \A t \in Tools : v.sent[t] = u.sent[t]
  <2>1. ch \in {"text", "thinking", "signature", ""}
    OBVIOUS
  <2> QED
    BY <2>1, SentToCalls
<1>7. v.begun = u.begun /\ v.at = ch /\ v.ended = ""
  BY DEF Taken
<1>8. sig # 0
  BY DEF NewSignature, Following, IsPiece
<1>11. Blocked(s, r, "thinking")
  BY <1>3, <1>5 DEF Blocked
<1>9. CASE ch = "text"
  <2>1. v.odd = {"signed text"}
    BY <1>8, <1>9 DEF Taken
  <2>2. GoesOn(u, v, "thinking")
    BY <1>6, <1>7, <1>9, <2>1 DEF GoesOn
  <2>3. Told(v, r)
    BY <2>1 DEF Told
  <2> QED
    BY <1>1, <1>4, <1>11, <2>2, <2>3, FollowsBlock
<1>10. CASE ch = "thinking"
  <2>1. v.odd = {}
    BY <1>10 DEF Taken
  <2>2. ~s.c.torn /\ s.c.got = u.sent
    BY DEF GeminiClaudeFollows
  <2>3. no = Awaited(s.c, "thinking")
    BY <1>10, <2>2 DEF Awaited, Following
  <2>4. ~r.c.torn /\ r.c.got = [[u.sent EXCEPT !["thinking"] = no] EXCEPT !["signature"] = @ + 1]
    BY <1>2, <1>5, <2>2, <2>3 DEF PieceIn
  <2>5. r.c.got = v.sent
    <3>1. Taken(u, v, "text", "thinking", no, sig, "") /\ IsPiece(no)
      BY <1>10 DEF Following
    <3>2. v.sent = [[u.sent EXCEPT !["thinking"] = no] EXCEPT !["signature"] = @ + 1]
      BY <3>1, SentThought
    <3> QED
      BY <2>4, <3>2
  <2>6. GoesOn(u, v, "thinking")
    BY <1>6, <1>7, <1>10, <2>1 DEF GoesOn
  <2>7. Told(v, r)
    BY <2>4, <2>5 DEF Told
  <2> QED
    BY <1>1, <1>4, <1>11, <2>6, <2>7, FollowsBlock
<1> QED
  BY <1>9, <1>10

LEMMA SignatureFollows ==
    ASSUME NEW u \in Upstreams, NEW s, GeminiClaudeFollows(u, s), u.odd = {},
           NEW v, NEW sig, NewSignature(u, sig), Taken(u, v, "signature", "signature", 0, sig, "")
    PROVE  GeminiClaudeFollows(v, appendSignatureDelta(s))
<1>1. PICK r : r = appendSignatureDelta(s)
  OBVIOUS
<1>2. OneBlock(s) /\ ~s.c.torn /\ s.c.got = u.sent /\ u.at = s.p.type
  BY DEF GeminiClaudeFollows
<1>3. /\ OneBlock(r) /\ r.p = s.p /\ r.c.announced = s.c.announced /\ r.c.torn = s.c.torn
      /\ s.p.type = "thinking" => r.c.got = [s.c.got EXCEPT !["signature"] = @ + 1]
      /\ s.p.type # "thinking" => r.c.got = s.c.got
  BY <1>1, <1>2, SignatureDeltaKeeps
<1>4. r.c.got = v.sent
  <2>1. /\ u.at = "thinking" => v.sent = [u.sent EXCEPT !["signature"] = @ + 1]
        /\ u.at # "thinking" => v.sent = u.sent
    BY SentSignature
  <2>2. CASE s.p.type = "thinking"
    BY <1>2, <1>3, <2>1, <2>2
  <2>3. CASE s.p.type # "thinking"
    BY <1>2, <1>3, <2>1, <2>3
  <2> QED
    BY <2>2, <2>3
<1>5. \A t \in Tools : v.sent[t] = u.sent[t]
  BY SentToCalls
<1>6. v.begun = u.begun /\ v.at = u.at /\ v.ended = "" /\ v.odd = u.odd
  BY DEF Taken
<1>7. InTurn(v, MaxCalls)
  BY <1>6, InTurnStill DEF GeminiClaudeFollows
<1>8. /\ s.p.type \in {"", "text", "thinking"} \cup Tools
      /\ s.c.announced \subseteq {"text", "thinking"} \cup Tools
      /\ u.begun = s.c.announced \cap Tools
      /\ s.p.saw <=> u.begun # {}
      /\ \A t \in Tools \ u.begun : u.sent[t] = 0
  BY DEF GeminiClaudeFollows
<1>9. ~r.c.torn /\ v.odd = {} /\ v.at = r.p.type /\ v.ended = "" /\ OneBlock(r)
  BY <1>2, <1>3, <1>6
<1>10. \A t \in Tools \ v.begun : v.sent[t] = 0
  BY <1>5, <1>6, <1>8
<1>11. r.p.type = s.p.type /\ r.c.announced = s.c.announced /\ r.p.saw = s.p.saw /\ v.begun = u.begun
  BY <1>3, <1>6
<1>12. GeminiClaudeFollows(v, r)
  BY <1>4, <1>7, <1>8, <1>9, <1>10, <1>11 DEF GeminiClaudeFollows
<1> QED
  BY <1>1, <1>12

LEMMA SawKeeps ==
    ASSUME NEW s, OneBlock(s)
    PROVE  LET r == [s EXCEPT !.p.saw = TRUE] IN OneBlock(r) /\ r.c = s.c /\ r.p.index = s.p.index /\ r.p.type = s.p.type /\ r.p.saw
<1>1. PICK p : p = [s.p EXCEPT !.saw = TRUE]
  OBVIOUS
<1>2. s.p \in GeminiParamsSet /\ s = [p |-> s.p, c |-> s.c]
  BY DEF OneBlock
<1>3. [s EXCEPT !.p.saw = TRUE] = [p |-> p, c |-> s.c]
  <2>1. s \in [p : GeminiParamsSet, c : ClaudeClients]
    BY <1>2 DEF OneBlock
  <2>2. [s EXCEPT !.p.saw = TRUE] = [s EXCEPT !.p = p]
    BY <1>1, <2>1
  <2>3. [s EXCEPT !.p = p] = [p |-> p, c |-> s.c]
    BY <2>1
  <2> QED
    BY <2>2, <2>3
<1>4. /\ p \in GeminiParamsSet /\ p.saw
      /\ p.first = s.p.first /\ p.type = s.p.type /\ p.index = s.p.index /\ p.content = s.p.content /\ p.final = s.p.final
  BY <1>1, <1>2 DEF GeminiParamsSet
<1>5. OneBlock([p |-> p, c |-> s.c])
  BY <1>4 DEF OneBlock
<1> QED
  BY <1>3, <1>4, <1>5

\* What a part of a call has to come to.
CallBlocked(s, r, t) ==
    /\ OneBlock(r) /\ r.p.type = t /\ r.p.saw /\ r.c.announced = s.c.announced \cup {t}

CallGoesOn(u, v, t) ==
    /\ v.ended = "" /\ v.begun = u.begun \cup {t} /\ InTurn(v, MaxCalls)
    /\ \A x \in Tools \ {t} : v.sent[x] = u.sent[x]
    /\ v.odd = u.odd /\ v.at = t

LEMMA FollowsCall ==
    ASSUME NEW u, NEW s, GeminiClaudeFollows(u, s), NEW v, NEW r, NEW t \in Tools,
           CallBlocked(s, r, t), CallGoesOn(u, v, t), Told(v, r)
    PROVE  GeminiClaudeFollows(v, r)
<1>0. /\ OneBlock(r) /\ r.p.type = t /\ r.p.saw /\ r.c.announced = s.c.announced \cup {t}
      /\ v.ended = "" /\ v.begun = u.begun \cup {t} /\ InTurn(v, MaxCalls)
      /\ \A x \in Tools \ {t} : v.sent[x] = u.sent[x]
      /\ v.odd = u.odd /\ v.at = t
      /\ v.odd = {} => ~r.c.torn /\ r.c.got = v.sent
  BY DEF CallBlocked, CallGoesOn, Told
<1>1. /\ s.c.announced \subseteq {"text", "thinking"} \cup Tools
      /\ u.begun = s.c.announced \cap Tools
      /\ \A x \in Tools \ u.begun : u.sent[x] = 0
      /\ u.odd \subseteq {"signed text"}
  BY DEF GeminiClaudeFollows
<1>2. v.begun = r.c.announced \cap Tools /\ v.begun # {}
  <2>1. (s.c.announced \cup {t}) \cap Tools = (s.c.announced \cap Tools) \cup {t}
    OBVIOUS
  <2>2. v.begun = (s.c.announced \cap Tools) \cup {t}
    BY <1>0, <1>1
  <2>3. r.c.announced \cap Tools = (s.c.announced \cup {t}) \cap Tools
    BY <1>0
  <2>4. t \in v.begun
    BY <2>2
  <2> QED
    BY <2>1, <2>2, <2>3, <2>4
<1>3. r.c.announced \subseteq {"text", "thinking"} \cup Tools
  BY <1>0, <1>1
<1>4. \A x \in Tools \ v.begun : v.sent[x] = 0
  BY <1>0, <1>1
<1> QED
  BY <1>0, <1>1, <1>2, <1>3, <1>4 DEF GeminiClaudeFollows

\* The other calls' arguments are what they were.
SentOnlyTo(u, v, t) == \A x \in Tools \ {t} : v.sent[x] = u.sent[x]

LEMMA SentToOthers ==
    ASSUME NEW u, NEW v, NEW t, NEW part, NEW no, NEW finish, Taken(u, v, part, t, no, 0, finish)
    PROVE  SentOnlyTo(u, v, t)
<1>1. \A x \in Tools \ {t} : x # t /\ x # "signature" /\ x \in Lanes
  BY ToolsAreCalls DEF Words
<1> QED
  BY <1>1 DEF Taken, SentBy, SentOnlyTo

LEMMA ZeroOrOne == \A n \in {0, 1} : n \in Nat /\ (n # 0 => n = 1 /\ IsPiece(n))
BY DEF IsPiece

LEMMA EnoughCalls == MaxCalls \in 0..Len(Calls)
BY StreamAssumption, ToolsAreCalls

LEMMA FirstAwaited ==
    ASSUME NEW c, NEW t, c.got[t] = 0
    PROVE  Awaited(c, t) = 1
BY DEF Awaited

LEMMA CallFollows ==
    ASSUME NEW u \in Upstreams, NEW s, GeminiClaudeFollows(u, s), NEW t \in NextCall(u, MaxCalls), NEW no \in {0, 1},
           NEW v, Taken(u, v, "call", t, no, 0, "")
    PROVE  GeminiClaudeFollows(v, PartDelta(openBlock([s EXCEPT !.p.saw = TRUE], t), t, no))
<1>1. OneBlock(s) /\ InTurn(u, MaxCalls) /\ u.begun = s.c.announced \cap Tools
  BY DEF GeminiClaudeFollows
<1>2. t \in Tools \ u.begun /\ \A w : w.begun = u.begun \cup {t} => InTurn(w, MaxCalls)
  <2>1. MaxCalls \in 0..Len(Calls)
    BY EnoughCalls
  <2> QED
    BY <1>1, <2>1, NextCallIsNew
<1>3. t \in Lanes /\ t # "signature" /\ t # ""
  BY <1>2, ToolsAreCalls DEF Words
<1>4. PICK q : q = [s EXCEPT !.p.saw = TRUE]
  OBVIOUS
<1>5. OneBlock(q) /\ q.c = s.c /\ q.p.saw
  BY <1>1, <1>4, SawKeeps
<1>6. PICK o : o = openBlock(q, t)
  OBVIOUS
<1>7. NextBlock(q, t, o)
  <2>1. t \notin Tools \cap q.c.announced
    BY <1>1, <1>2, <1>5
  <2>2. t \in {"text", "thinking"} \cup Tools
    BY <1>2
  <2> QED
    BY <1>5, <1>6, <2>1, <2>2, OpenBlockKeeps
<1>8. /\ OneBlock(o) /\ o.p.type = t /\ o.p.saw
      /\ o.c.got = s.c.got /\ o.c.torn = s.c.torn /\ o.c.announced = s.c.announced \cup {t}
  BY <1>5, <1>7 DEF NextBlock
<1>9. PICK d : d = PartDelta(o, t, no)
  OBVIOUS
<1>10. PieceKept(o, d, t, no)
  <2>1. <<o.p.index, t>> \in o.c.open
    BY <1>3, <1>8 DEF OneBlock
  <2>2. no \in Nat /\ t \in {"text", "thinking"} \cup Tools
    BY <1>2, ZeroOrOne
  <2> QED
    BY <1>8, <1>9, <2>1, <2>2, PartDeltaKeeps
<1>11. CallBlocked(s, d, t)
  BY <1>8, <1>10 DEF PieceKept, CallBlocked
<1>12. v.begun = u.begun \cup {t} /\ v.at = t /\ v.odd = u.odd /\ v.ended = ""
  BY DEF Taken
<1>13. SentOnlyTo(u, v, t)
  BY SentToOthers
<1>14. CallGoesOn(u, v, t)
  BY <1>2, <1>12, <1>13 DEF CallGoesOn, SentOnlyTo
<1>15. ASSUME u.odd = {}
       PROVE  ~d.c.torn /\ d.c.got = v.sent
  <2>1. ~s.c.torn /\ s.c.got = u.sent /\ u.sent[t] = 0
    BY <1>2, <1>15 DEF GeminiClaudeFollows
  <2>2. CASE no = 0
    <3>1. Taken(u, v, "call", t, 0, 0, "")
      BY <2>2
    <3>2. v.sent = u.sent
      BY <3>1, SentSame
    <3> QED
      BY <1>8, <1>10, <2>1, <2>2, <3>2 DEF PieceKept
  <2>3. CASE no # 0
    <3>1. IsPiece(no) /\ no # 0
      BY <2>3, ZeroOrOne
    <3>2. SentOn(u, v, t, no)
      BY <1>3, <3>1, SentPiece
    <3>3. no = Awaited(o.c, t)
      <4>1. o.c.got[t] = 0
        BY <1>8, <2>1
      <4>2. no = 1
        BY <2>3, ZeroOrOne
      <4> QED
        <5>1. Awaited(o.c, t) = 1
          BY <4>1, FirstAwaited
        <5> QED
          BY <4>2, <5>1
    <3>4. d.c.got = [o.c.got EXCEPT ![t] = no]
      BY <1>10, <3>1 DEF PieceKept
    <3>5. d.c.torn = o.c.torn
      BY <1>10, <3>3 DEF PieceKept
    <3>6. ~s.c.torn /\ s.c.got = u.sent
      BY <2>1
    <3>7. v.sent = [u.sent EXCEPT ![t] = no]
      BY <3>2 DEF SentOn
    <3>8. o.c.got = s.c.got /\ o.c.torn = s.c.torn
      BY <1>8
    <3> QED
      BY <3>4, <3>5, <3>6, <3>7, <3>8
  <2> QED
    BY <2>2, <2>3
<1>16. Told(v, d)
  BY <1>12, <1>15 DEF Told
<1> QED
  BY <1>2, <1>4, <1>6, <1>9, <1>11, <1>14, <1>16, FollowsCall

LEMMA MoreFollows ==
    ASSUME NEW u \in Upstreams, NEW s, GeminiClaudeFollows(u, s), NEW t \in Tools, u.at = t,
           NEW v, NEW no, Following(u, t, no), Taken(u, v, "more", t, no, 0, "")
    PROVE  GeminiClaudeFollows(v, PartDelta([s EXCEPT !.p.saw = TRUE], t, no))
<1>1. OneBlock(s) /\ InTurn(u, MaxCalls) /\ u.begun = s.c.announced \cap Tools
  BY DEF GeminiClaudeFollows
<1>2. t \in Lanes /\ t # "signature" /\ t # "" /\ t # "text"
  BY ToolsAreCalls DEF Words
<1>3. s.p.type = t
  BY <1>2 DEF GeminiClaudeFollows
<1>4. t \in s.c.announced
  BY <1>1, <1>2, <1>3 DEF OneBlock
<1>5. PICK o : o = [s EXCEPT !.p.saw = TRUE]
  OBVIOUS
<1>6. OneBlock(o) /\ o.c = s.c /\ o.p.saw /\ o.p.type = t
  BY <1>1, <1>3, <1>5, SawKeeps
<1>7. PICK d : d = PartDelta(o, t, no)
  OBVIOUS
<1>8. IsPiece(no)
  BY DEF Following
<1>9. no \in Nat /\ no # 0
  BY <1>8 DEF IsPiece
<1>10. PieceKept(o, d, t, no)
  <2>1. <<o.p.index, t>> \in o.c.open
    BY <1>2, <1>6 DEF OneBlock
  <2>2. t \in {"text", "thinking"} \cup Tools
    OBVIOUS
  <2> QED
    BY <1>6, <1>7, <1>9, <2>1, <2>2, PartDeltaKeeps
<1>11. CallBlocked(s, d, t)
  BY <1>4, <1>6, <1>10 DEF PieceKept, CallBlocked
<1>12. v.begun = u.begun /\ v.at = t /\ v.odd = u.odd /\ v.ended = ""
  BY DEF Taken
<1>13. SentOnlyTo(u, v, t)
  BY SentToOthers
<1>14. CallGoesOn(u, v, t)
  <2>1. v.begun = u.begun \cup {t}
    BY <1>1, <1>4, <1>12
  <2>2. InTurn(v, MaxCalls)
    BY <1>1, <1>12, InTurnStill
  <2> QED
    BY <1>12, <1>13, <2>1, <2>2 DEF CallGoesOn, SentOnlyTo, SentOnlyTo
<1>15. ASSUME u.odd = {}
       PROVE  ~d.c.torn /\ d.c.got = v.sent
  <2>1. ~s.c.torn /\ s.c.got = u.sent
    BY <1>15 DEF GeminiClaudeFollows
  <2>2. SentOn(u, v, t, no)
    BY <1>2, <1>8, SentPiece
  <2>3. no = Awaited(o.c, t)
    BY <1>6, <2>1 DEF Awaited, Following
  <2> QED
    BY <1>6, <1>9, <1>10, <2>1, <2>2, <2>3 DEF PieceKept, SentOn
<1>16. Told(v, d)
  BY <1>12, <1>15 DEF Told
<1> QED
  BY <1>5, <1>7, <1>11, <1>14, <1>16, FollowsCall

-------------------------------------------------------------------------------
(* The beginning and the end.                                              *)

GeminiStart == [p |-> GeminiParams, c |-> ClaudeClient]

GeminiBegun(s) == IF s.p.first THEN s ELSE [p |-> [s.p EXCEPT !.first = TRUE], c |-> message_start(s.c)]

LEMMA GeminiClaudeBegins == GeminiClaudeFollows(Silent, GeminiBegun(GeminiStart))
<1> DEFINE s == GeminiBegun(GeminiStart)
<1>1. GeminiStart.p = GeminiParams /\ GeminiStart.c = ClaudeClient /\ ~GeminiParams.first
  BY DEF GeminiStart, GeminiParams
<1>2. s = [p |-> [GeminiParams EXCEPT !.first = TRUE], c |-> message_start(ClaudeClient)]
  BY <1>1 DEF GeminiBegun
<1>3. s.p = [GeminiParams EXCEPT !.first = TRUE] /\ s.c = message_start(ClaudeClient) /\ s = [p |-> s.p, c |-> s.c]
  BY <1>2
<1> HIDE DEF s
<1>4. /\ s.p \in GeminiParamsSet /\ s.p.first /\ s.p.type = "" /\ s.p.index = 0
      /\ ~s.p.content /\ ~s.p.saw /\ ~s.p.final
  <2>1. s.p = [first |-> TRUE, type |-> "", index |-> 0, content |-> FALSE, saw |-> FALSE, final |-> FALSE]
    BY <1>3 DEF GeminiParams
  <2>2. s.p \in GeminiParamsSet
    <3>1. "" \in Lanes \cup {""} /\ 0 \in Nat /\ TRUE \in BOOLEAN /\ FALSE \in BOOLEAN
      OBVIOUS
    <3>2. [first |-> TRUE, type |-> "", index |-> 0, content |-> FALSE, saw |-> FALSE, final |-> FALSE] \in GeminiParamsSet
      BY <3>1 DEF GeminiParamsSet
    <3> QED
      BY <2>1, <3>2
  <2>3. s.p.first /\ s.p.type = "" /\ s.p.index = 0 /\ ~s.p.content /\ ~s.p.saw /\ ~s.p.final
    <3> DEFINE q == [first |-> TRUE, type |-> "", index |-> 0, content |-> FALSE, saw |-> FALSE, final |-> FALSE]
    <3>1. q.first /\ q.type = "" /\ q.index = 0 /\ ~q.content /\ ~q.saw /\ ~q.final
      OBVIOUS
    <3> HIDE DEF q
    <3>2. s.p = q
      BY <2>1 DEF q
    <3> QED
      BY <3>1, <3>2
  <2> QED
    BY <2>2, <2>3
<1>5. /\ s.c \in ClaudeClients /\ s.c.phase = "open" /\ ~s.c.fault /\ s.c.next = 0 /\ s.c.open = {}
      /\ s.c.announced = {} /\ s.c.got = Silent.sent /\ ~s.c.torn
  <2>1. ClaudeClient \in ClaudeClients
    BY ClaudeClientTyped
  <2>2. /\ s.c \in ClaudeClients /\ s.c.phase = "open" /\ (s.c.fault <=> (ClaudeClient.fault \/ ClaudeClient.phase # "none"))
        /\ s.c.next = ClaudeClient.next /\ s.c.open = ClaudeClient.open /\ s.c.announced = ClaudeClient.announced
        /\ s.c.got = ClaudeClient.got /\ s.c.torn = ClaudeClient.torn
    BY <1>3, <2>1, ClaudeBegin
  <2>3. /\ ~ClaudeClient.fault /\ ClaudeClient.phase = "none" /\ ClaudeClient.next = 0 /\ ClaudeClient.open = {}
        /\ ClaudeClient.announced = {} /\ ~ClaudeClient.torn /\ ClaudeClient.got = Silent.sent
    BY DEF ClaudeClient, Silent
  <2> QED
    BY <2>2, <2>3
<1>6. OneBlock(s)
  BY <1>3, <1>4, <1>5 DEF OneBlock
<1>7. Silent.begun = {} /\ Silent.odd = {} /\ Silent.at = "" /\ Silent.ended = ""
  BY DEF Silent
<1>8. \A t \in Tools : Silent.sent[t] = 0
  BY ToolsAreCalls DEF Silent
<1>9. InTurn(Silent, MaxCalls)
  BY SilentInTurn, EnoughCalls, ToolsAreCalls
<1> QED
  BY <1>4, <1>5, <1>6, <1>7, <1>8, <1>9 DEF GeminiClaudeFollows, s

\* The end of an answer closes the block and concludes it, if there is anything.
LEMMA GeminiClaudeEnds ==
    ASSUME NEW u \in Upstreams, NEW s, GeminiClaudeFollows(u, s), NEW v, v.ended = "end",
           v.begun = u.begun, v.odd = u.odd, v.sent = u.sent, NEW reason \in {"max_tokens", "end_turn"}
    PROVE  GeminiClaudeOver(v, FinalEvents(s, reason))
<1>1. /\ OneBlock(s) /\ u.begun = s.c.announced \cap Tools /\ (s.p.saw <=> u.begun # {})
      /\ u.odd \subseteq {"signed text"} /\ (u.odd = {} => ~s.c.torn /\ s.c.got = u.sent)
  BY DEF GeminiClaudeFollows
<1>2. /\ s = [p |-> s.p, c |-> s.c] /\ s.p \in GeminiParamsSet /\ s.c \in ClaudeClients
      /\ s.c.phase = "open" /\ ~s.c.fault /\ s.p.first /\ ~s.p.final
      /\ s.p.content <=> s.p.type # ""
      /\ s.p.type = "" => s.c.announced = {}
      /\ s.p.type # "" => s.c.open = {<<s.p.index, s.p.type>>}
  BY <1>1 DEF OneBlock
<1>3. CASE s.p.type = ""
  <2>1. FinalEvents(s, reason) = s
    BY <1>2, <1>3 DEF FinalEvents
  <2>2. ~s.p.content /\ s.c.announced = {}
    BY <1>2, <1>3
  <2>3. GeminiClaudeOver(v, s)
    BY <1>1, <1>2, <2>2 DEF GeminiClaudeOver
  <2> QED
    BY <2>1, <2>3
<1>4. CASE s.p.type # ""
  <2>1. PICK d : d = content_block_stop(s.c, s.p.index)
    OBVIOUS
  <2>2. s.p.index \in Nat
    BY <1>2 DEF GeminiParamsSet
  <2>3. /\ d \in ClaudeClients /\ d.phase = s.c.phase
        /\ d.open = {b \in s.c.open : b[1] # s.p.index} /\ d.announced = s.c.announced
        /\ (d.fault <=> (s.c.fault \/ ~ \E b \in s.c.open : b[1] = s.p.index))
        /\ d.got = s.c.got /\ d.torn = s.c.torn
    BY <1>2, <2>1, <2>2, ClaudeStop
  <2>4. s.c.open = {<<s.p.index, s.p.type>>}
    BY <1>2, <1>4
  <2>5. {b \in s.c.open : b[1] # s.p.index} = {} /\ \E b \in s.c.open : b[1] = s.p.index
    BY <2>4
  <2>6. d.open = {} /\ ~d.fault /\ d.phase = "open"
    BY <1>2, <2>3, <2>5
  <2>7. PICK why \in {"tool_use", "max_tokens", "end_turn"} : why = IF s.p.saw THEN "tool_use" ELSE reason
    OBVIOUS
  <2>8. PICK c : c = message_stop(message_delta(d, why))
    OBVIOUS
  <2>9. /\ c \in ClaudeClients /\ c.phase = "stop" /\ c.reason = why
        /\ (c.fault <=> (d.fault \/ d.phase # "open" \/ d.open # {}))
        /\ c.announced = d.announced /\ c.got = d.got /\ c.torn = d.torn
    BY <2>3, <2>8, ClaudeConclude
  <2>10. PICK p : p = [s.p EXCEPT !.type = "", !.final = TRUE]
    OBVIOUS
  <2>11. p \in GeminiParamsSet /\ p.first /\ p.final
    BY <1>2, <2>10 DEF GeminiParamsSet
  <2>12. FinalEvents(s, reason) = [p |-> p, c |-> c]
    BY <1>2, <1>4, <2>1, <2>7, <2>8, <2>10 DEF FinalEvents
  <2>13. PICK r : r = [p |-> p, c |-> c]
    OBVIOUS
  <2>14. r.p = p /\ r.c = c
    BY <2>13
  <2>15. why = "tool_use" <=> c.announced \cap Tools # {}
    BY <1>1, <2>3, <2>7, <2>9
  <2>16. /\ ~c.fault /\ c.announced = s.c.announced /\ c.got = s.c.got /\ c.torn = s.c.torn
    BY <2>3, <2>6, <2>9
  <2>17. u.begun \subseteq s.c.announced
    BY <1>1
  <2>18. GeminiClaudeOver(v, r)
    BY <1>1, <2>9, <2>11, <2>14, <2>15, <2>16, <2>17 DEF GeminiClaudeOver
  <2> QED
    BY <2>12, <2>13, <2>18
<1> QED
  BY <1>3, <1>4

LEMMA GeminiClaudeStaysOver ==
    ASSUME NEW u \in Upstreams, NEW s, GeminiClaudeOver(u, s), NEW v, v = [u EXCEPT !.finish = TRUE], NEW reason
    PROVE  v \in Upstreams /\ GeminiClaudeOver(v, FinalEvents(s, reason))
<1>1. FinalEvents(s, reason) = s
  BY DEF FinalEvents, GeminiClaudeOver
<1>2. v \in Upstreams /\ v.ended = u.ended /\ v.begun = u.begun /\ v.odd = u.odd /\ v.sent = u.sent
  BY DEF Upstreams
<1> QED
  BY <1>1, <1>2 DEF GeminiClaudeOver

\* What one event of a Gemini upstream comes to.
LEMMA ConvertAsBegun ==
    ASSUME NEW s, NEW e, e.type = "parts"
    PROVE  /\ e.finish = "" => ConvertGeminiResponseToClaude(s, e) = ConvertPart(GeminiBegun(s), e)
           /\ e.finish # "" /\ e.usage =>
                ConvertGeminiResponseToClaude(s, e) =
                  FinalEvents(ConvertPart(GeminiBegun(s), e), IF e.finish = "MAX_TOKENS" THEN "max_tokens" ELSE "end_turn")
BY DEF ConvertGeminiResponseToClaude, GeminiBegun

\* An event while the answer is under way.
GeminiClaudeStep(u, s, e) ==
    LET v == GeminiAfter(u, e, "claude")
        r == IF e.finish = "" THEN ConvertPart(s, e)
             ELSE FinalEvents(ConvertPart(s, e), IF e.finish = "MAX_TOKENS" THEN "max_tokens" ELSE "end_turn")
    IN  v \in Upstreams /\ (GeminiClaudeFollows(v, r) \/ GeminiClaudeOver(v, r))

LEMMA StepsAreTaken ==
    ASSUME NEW u \in Upstreams, NEW part, NEW ch \in Lanes \cup {""}, NEW no \in Nat, NEW sig \in Nat,
           NEW finish, NEW usage, part = "call" => ch \in Tools, part \notin {"none", "signature"} => ch \in Places
    PROVE  LET e == Part(part, ch, no, sig, finish, usage)
           IN  Taken(u, GeminiAfter(u, e, "claude"), part, ch, no, sig, finish)
<1>1. PICK e : e = Part(part, ch, no, sig, finish, usage)
  OBVIOUS
<1>2. GeminiAfter(u, e, "claude") = AfterPart(u, e, "claude")
  BY <1>1 DEF GeminiAfter, Part
<1> QED
  BY <1>1, <1>2, AfterPartClaude

LEMMA TextSteps ==
    ASSUME NEW u \in Upstreams, NEW s, GeminiClaudeFollows(u, s), NEW ch \in {"text", "thinking"},
           NEW no, Following(u, ch, no), NEW sig \in Nat, sig = 0 \/ (u.odd = {} /\ NewSignature(u, sig)),
           NEW e, e = Part("text", ch, no, sig, "", FALSE)
    PROVE  GeminiClaudeStep(u, s, e)
<1>1. PICK v : v = GeminiAfter(u, e, "claude")
  OBVIOUS
<1>2. ch \in Lanes \cup {""} /\ ch \in Places
  BY DEF Lanes, Places
<1>3. no \in Nat /\ no # 0
  BY DEF Following, IsPiece
<1>4. Taken(u, v, "text", ch, no, sig, "")
  BY <1>1, <1>2, <1>3, StepsAreTaken
<1>5. v \in Upstreams
  BY <1>4 DEF Taken
<1>6. e.finish = "" /\ e.part = "text" /\ e.ch = ch /\ e.no = no /\ e.sig = sig
  BY DEF Part
<1>7. CASE sig = 0
  <2>1. ConvertPart(s, e) = PartDelta(InBlock(s, ch), ch, no)
    <3>1. ~(sig > 0)
      BY <1>7, OneMore
    <3> QED
      BY <1>6, <3>1 DEF ConvertPart, InBlock
  <2>2. Taken(u, v, "text", ch, no, 0, "")
    BY <1>4, <1>7
  <2>3. GeminiClaudeFollows(v, PartDelta(InBlock(s, ch), ch, no))
    BY <2>2, PlainTextFollows
  <2> QED
    BY <1>1, <1>5, <1>6, <2>1, <2>3 DEF GeminiClaudeStep
<1>8. CASE sig # 0
  <2>1. u.odd = {} /\ NewSignature(u, sig)
    BY <1>8
  <2>2. sig > 0
    BY <1>8, OneMore
  <2>3. ConvertPart(s, e) = appendSignatureDelta(PartDelta(InBlock(s, "thinking"), "thinking", no))
    BY <1>6, <2>2 DEF ConvertPart, InBlock
  <2>4. GeminiClaudeFollows(v, appendSignatureDelta(PartDelta(InBlock(s, "thinking"), "thinking", no)))
    BY <1>4, <2>1, SignedTextFollows
  <2> QED
    BY <1>1, <1>5, <1>6, <2>3, <2>4 DEF GeminiClaudeStep
<1> QED
  BY <1>7, <1>8

LEMMA SignatureSteps ==
    ASSUME NEW u \in Upstreams, NEW s, GeminiClaudeFollows(u, s), u.odd = {},
           NEW sig \in Nat, NewSignature(u, sig), NEW e, e = Part("signature", "signature", 0, sig, "", FALSE)
    PROVE  GeminiClaudeStep(u, s, e)
<1>1. PICK v : v = GeminiAfter(u, e, "claude")
  OBVIOUS
<1>2. "signature" \in Lanes \cup {""} /\ 0 \in Nat
  BY DEF Lanes
<1>3. Taken(u, v, "signature", "signature", 0, sig, "")
  BY <1>1, <1>2, StepsAreTaken
<1>4. v \in Upstreams
  BY <1>3 DEF Taken
<1>5. e.finish = "" /\ e.part = "signature"
  BY DEF Part
<1>6. ConvertPart(s, e) = appendSignatureDelta(s)
  BY <1>5 DEF ConvertPart
<1>7. GeminiClaudeFollows(v, appendSignatureDelta(s))
  BY <1>3, SignatureFollows
<1> QED
  BY <1>1, <1>4, <1>5, <1>6, <1>7 DEF GeminiClaudeStep

LEMMA CallSteps ==
    ASSUME NEW u \in Upstreams, NEW s, GeminiClaudeFollows(u, s), NEW t \in NextCall(u, MaxCalls), NEW no \in {0, 1},
           NEW e, e = Part("call", t, no, 0, "", FALSE)
    PROVE  GeminiClaudeStep(u, s, e)
<1>1. PICK v : v = GeminiAfter(u, e, "claude")
  OBVIOUS
<1>2. t \in Tools
  <2>1. InTurn(u, MaxCalls)
    BY DEF GeminiClaudeFollows
  <2> QED
    BY <2>1, EnoughCalls, NextCallIsNew
<1>3. t \in Lanes \cup {""} /\ t \in Places /\ no \in Nat /\ 0 \in Nat
  BY <1>2, ToolsAreCalls, ZeroOrOne DEF Places
<1>4. Taken(u, v, "call", t, no, 0, "")
  BY <1>1, <1>2, <1>3, StepsAreTaken
<1>5. v \in Upstreams
  BY <1>4 DEF Taken
<1>6. e.finish = "" /\ e.part = "call" /\ e.ch = t /\ e.no = no
  BY DEF Part
<1>7. ConvertPart(s, e) = PartDelta(openBlock([s EXCEPT !.p.saw = TRUE], t), t, no)
  BY <1>6 DEF ConvertPart
<1>8. GeminiClaudeFollows(v, PartDelta(openBlock([s EXCEPT !.p.saw = TRUE], t), t, no))
  BY <1>4, CallFollows
<1> QED
  BY <1>1, <1>5, <1>6, <1>7, <1>8 DEF GeminiClaudeStep

LEMMA MoreSteps ==
    ASSUME NEW u \in Upstreams, NEW s, GeminiClaudeFollows(u, s), NEW t \in Tools, u.at = t, NEW no, Following(u, t, no),
           NEW e, e = Part("more", t, no, 0, "", FALSE)
    PROVE  GeminiClaudeStep(u, s, e)
<1>1. PICK v : v = GeminiAfter(u, e, "claude")
  OBVIOUS
<1>2. t \in Lanes \cup {""} /\ t \in Places /\ no \in Nat /\ 0 \in Nat
  BY ToolsAreCalls DEF Places, Following, IsPiece
<1>3. Taken(u, v, "more", t, no, 0, "")
  BY <1>1, <1>2, StepsAreTaken
<1>4. v \in Upstreams
  BY <1>3 DEF Taken
<1>5. e.finish = "" /\ e.part = "more" /\ e.ch = t /\ e.no = no
  BY DEF Part
<1>6. ConvertPart(s, e) = PartDelta([s EXCEPT !.p.saw = TRUE], t, no)
  BY <1>5 DEF ConvertPart
<1>7. GeminiClaudeFollows(v, PartDelta([s EXCEPT !.p.saw = TRUE], t, no))
  BY <1>3, MoreFollows
<1> QED
  BY <1>1, <1>4, <1>5, <1>6, <1>7 DEF GeminiClaudeStep

\* A part without content may be the last.
LEMMA EmptySteps ==
    ASSUME NEW u \in Upstreams, NEW s, GeminiClaudeFollows(u, s), NEW finish \in {"", "STOP", "MAX_TOKENS"}, NEW usage,
           NEW e, e = Part("none", "", 0, 0, finish, usage)
    PROVE  GeminiClaudeStep(u, s, e)
<1>1. PICK v : v = GeminiAfter(u, e, "claude")
  OBVIOUS
<1>2. "" \in Lanes \cup {""} /\ 0 \in Nat
  OBVIOUS
<1>3. Taken(u, v, "none", "", 0, 0, finish)
  BY <1>1, <1>2, StepsAreTaken
<1>4. v \in Upstreams /\ v.sent = u.sent
  BY <1>3, SentSame
<1>5. v.begun = u.begun /\ v.at = u.at /\ v.odd = u.odd /\ (finish # "" => v.ended = "end") /\ (finish = "" => v.ended = "")
  BY <1>3 DEF Taken
<1>6. e.finish = finish /\ e.part = "none"
  BY DEF Part
<1>7. ConvertPart(s, e) = s
  BY <1>6 DEF ConvertPart
<1>8. CASE finish = ""
  <2>1. InTurn(v, MaxCalls)
    BY <1>5, InTurnStill DEF GeminiClaudeFollows
  <2>2. GeminiClaudeFollows(v, s)
    BY <1>4, <1>5, <1>8, <2>1 DEF GeminiClaudeFollows
  <2> QED
    BY <1>1, <1>4, <1>6, <1>7, <1>8, <2>2 DEF GeminiClaudeStep
<1>9. CASE finish # ""
  <2>1. PICK reason \in {"max_tokens", "end_turn"} : reason = IF e.finish = "MAX_TOKENS" THEN "max_tokens" ELSE "end_turn"
    OBVIOUS
  <2>2. GeminiClaudeOver(v, FinalEvents(s, reason))
    BY <1>4, <1>5, <1>9, GeminiClaudeEnds
  <2> QED
    BY <1>1, <1>4, <1>6, <1>7, <1>9, <2>1, <2>2 DEF GeminiClaudeStep
<1> QED
  BY <1>8, <1>9

LEMMA GeminiClaudeSteps ==
    ASSUME NEW u \in Upstreams, NEW s, GeminiClaudeFollows(u, s), NEW e \in GeminiOffers(u, "claude")
    PROVE  GeminiClaudeStep(u, s, e) /\ e.type = "parts" /\ (e.finish # "" => e.usage)
<1>1. u.ended = ""
  BY DEF GeminiClaudeFollows
<1>3. CASE \E ch \in {"text", "thinking"}, sig \in Nat :
             /\ e = Part("text", ch, u.sent[ch] + 1, sig, "", FALSE)
             /\ sig > 0 => sig = u.sent["signature"] + 1 /\ u.odd = {}
  <2>1. PICK ch \in {"text", "thinking"}, sig \in Nat :
             /\ e = Part("text", ch, u.sent[ch] + 1, sig, "", FALSE)
             /\ sig > 0 => sig = u.sent["signature"] + 1 /\ u.odd = {}
    BY <1>3
  <2>2. PICK no : no = u.sent[ch] + 1
    OBVIOUS
  <2>3. Following(u, ch, no)
    BY <2>2, FollowingTyped DEF Lanes
  <2>4. sig = 0 \/ (u.odd = {} /\ NewSignature(u, sig))
    <3>1. CASE sig > 0
      <4>1. Following(u, "signature", u.sent["signature"] + 1)
        BY FollowingTyped DEF Lanes
      <4>2. sig = u.sent["signature"] + 1 /\ u.odd = {}
        BY <2>1, <3>1
      <4> QED
        BY <4>1, <4>2 DEF NewSignature
    <3>2. CASE ~(sig > 0)
      BY <3>2, OneMore
    <3> QED
      BY <3>1, <3>2
  <2>5. e = Part("text", ch, no, sig, "", FALSE)
    BY <2>1, <2>2
  <2>6. GeminiClaudeStep(u, s, e)
    BY <2>3, <2>4, <2>5, TextSteps
  <2>7. e.type = "parts" /\ e.finish = ""
    BY <2>5 DEF Part
  <2> QED
    BY <2>6, <2>7
<1>4. CASE \E sig \in Nat : e = Part("signature", "signature", 0, sig, "", FALSE) /\ NewSignature(u, sig) /\ u.odd = {}
  <2>1. PICK sig \in Nat : e = Part("signature", "signature", 0, sig, "", FALSE) /\ NewSignature(u, sig) /\ u.odd = {}
    BY <1>4
  <2>2. GeminiClaudeStep(u, s, e)
    BY <2>1, SignatureSteps
  <2>3. e.type = "parts" /\ e.finish = ""
    BY <2>1 DEF Part
  <2> QED
    BY <2>2, <2>3
<1>5. CASE \E t \in NextCall(u, MaxCalls), no \in {0, 1} : e = Part("call", t, no, 0, "", FALSE)
  <2>1. PICK t \in NextCall(u, MaxCalls), no \in {0, 1} : e = Part("call", t, no, 0, "", FALSE)
    BY <1>5
  <2>2. GeminiClaudeStep(u, s, e)
    BY <2>1, CallSteps
  <2>3. e.type = "parts" /\ e.finish = ""
    BY <2>1 DEF Part
  <2> QED
    BY <2>2, <2>3
<1>6. CASE \E t \in Tools : u.at = t /\ e = Part("more", t, u.sent[t] + 1, 0, "", FALSE)
  <2>1. PICK t \in Tools : u.at = t /\ e = Part("more", t, u.sent[t] + 1, 0, "", FALSE)
    BY <1>6
  <2>2. PICK no : no = u.sent[t] + 1
    OBVIOUS
  <2>3. Following(u, t, no)
    BY <2>2, FollowingTyped, ToolsAreCalls
  <2>4. e = Part("more", t, no, 0, "", FALSE)
    BY <2>1, <2>2
  <2>5. GeminiClaudeStep(u, s, e)
    BY <2>1, <2>3, <2>4, MoreSteps
  <2>6. e.type = "parts" /\ e.finish = ""
    BY <2>4 DEF Part
  <2> QED
    BY <2>5, <2>6
<1>7. CASE \E finish \in {"", "STOP", "MAX_TOKENS"}, usage \in BOOLEAN :
             e = Part("none", "", 0, 0, finish, usage) /\ (finish # "" => usage)
  <2>1. PICK finish \in {"", "STOP", "MAX_TOKENS"}, usage \in BOOLEAN :
             e = Part("none", "", 0, 0, finish, usage) /\ (finish # "" => usage)
    BY <1>7
  <2>2. GeminiClaudeStep(u, s, e)
    BY <2>1, EmptySteps
  <2>3. e.type = "parts" /\ e.finish = finish /\ e.usage = usage
    BY <2>1 DEF Part
  <2> QED
    BY <2>1, <2>2, <2>3
<1>8. CASE e = Part("signature", "signature", 0, u.sent["signature"] + 1, "", FALSE) /\ u.odd = {}
  <2>1. PICK sig : sig = u.sent["signature"] + 1
    OBVIOUS
  <2>2. NewSignature(u, sig)
    BY <2>1, FollowingTyped DEF Lanes, NewSignature
  <2>3. sig \in Nat
    BY <2>2 DEF NewSignature, Following, IsPiece
  <2> QED
    BY <1>4, <1>8, <2>1, <2>2, <2>3
<1>9. CASE \E usage \in BOOLEAN : e = Part("none", "", 0, 0, "", usage)
  BY <1>7, <1>9
<1>10. CASE \E reason \in {"STOP", "MAX_TOKENS"} : e = Part("none", "", 0, 0, reason, TRUE)
  BY <1>7, <1>10
<1> QED
  BY <1>1, <1>3, <1>5, <1>6, <1>8, <1>9, <1>10, GeminiClaudeOffers

\* Where an answer of Gemini for an Anthropic client may be.
GeminiClaude(u, s) ==
    /\ u \in Upstreams
    /\ \/ u = Silent /\ s = GeminiStart
       \/ GeminiClaudeFollows(u, s)
       \/ GeminiClaudeOver(u, s)

LEMMA GeminiClaudeEvent ==
    ASSUME NEW u, NEW s, GeminiClaude(u, s), NEW e \in GeminiOffers(u, "claude")
    PROVE  GeminiClaude(GeminiAfter(u, e, "claude"), ConvertGeminiResponseToClaude(s, e))
<1>1. u \in Upstreams
  BY DEF GeminiClaude
<1>2. ASSUME GeminiClaudeFollows(u, GeminiBegun(s))
      PROVE  GeminiClaude(GeminiAfter(u, e, "claude"), ConvertGeminiResponseToClaude(s, e))
  <2>1. GeminiClaudeStep(u, GeminiBegun(s), e) /\ e.type = "parts" /\ (e.finish # "" => e.usage)
    BY <1>1, <1>2, GeminiClaudeSteps
  <2>2. CASE e.finish = ""
    <3>1. ConvertGeminiResponseToClaude(s, e) = ConvertPart(GeminiBegun(s), e)
      BY <2>1, <2>2, ConvertAsBegun
    <3> QED
      BY <2>1, <2>2, <3>1 DEF GeminiClaudeStep, GeminiClaude
  <2>3. CASE e.finish # ""
    <3>1. ConvertGeminiResponseToClaude(s, e) =
             FinalEvents(ConvertPart(GeminiBegun(s), e), IF e.finish = "MAX_TOKENS" THEN "max_tokens" ELSE "end_turn")
      BY <2>1, <2>3, ConvertAsBegun
    <3> QED
      BY <2>1, <2>3, <3>1 DEF GeminiClaudeStep, GeminiClaude
  <2> QED
    BY <2>2, <2>3
<1>3. CASE u = Silent /\ s = GeminiStart
  BY <1>2, <1>3, GeminiClaudeBegins
<1>4. CASE GeminiClaudeFollows(u, s)
  <2>1. GeminiBegun(s) = s
    BY <1>4 DEF GeminiClaudeFollows, OneBlock, GeminiBegun
  <2> QED
    BY <1>2, <1>4, <2>1
<1>5. CASE GeminiClaudeOver(u, s)
  <2>1. e = [type |-> "[DONE]"]
    BY <1>1, <1>5, GeminiClaudeOffers DEF GeminiClaudeOver
  <2>2. e.type = "[DONE]"
    BY <2>1
  <2>3. GeminiAfter(u, e, "claude") = [u EXCEPT !.finish = TRUE]
    BY <2>2 DEF GeminiAfter
  <2>4. ConvertGeminiResponseToClaude(s, e) = FinalEvents(s, "end_turn")
    BY <2>2 DEF ConvertGeminiResponseToClaude
  <2> QED
    BY <1>1, <1>5, <2>3, <2>4, GeminiClaudeStaysOver DEF GeminiClaude
<1> QED
  BY <1>3, <1>4, <1>5 DEF GeminiClaude

-------------------------------------------------------------------------------
(* From the Responses protocol to Gemini.                                  *)

\* no is the number of the next piece of a lane, or there is none.
MayFollow(u, ch, no) == no = 0 \/ Following(u, ch, no)

\* What is said of a call: no less than what was said before.
NoLess(u, t, no) == no \in Nat /\ (no = 0 => u.sent[t] = 0)

LEMMA NextPieceFollows ==
    ASSUME NEW u \in Upstreams, NEW ch \in Lanes, NEW no \in NextPiece(u, ch)
    PROVE  Following(u, ch, no)
<1>1. no = u.sent[ch] + 1
  BY DEF NextPiece
<1> QED
  BY <1>1, FollowingTyped

LEMMA FollowingIsNoLess ==
    ASSUME NEW u, NEW t, NEW no, Following(u, t, no)
    PROVE  NoLess(u, t, no) /\ no # 0
BY DEF Following, NoLess, IsPiece

\* The signature a thought has at its end.
Closings == {"", "final"}

\* The events of such an upstream, whatever the client.
AboutCall(u, e) ==
    \E t \in OpenCalls(u) : \E no : e.no = no /\ NoLess(u, t, no) /\
        \/ e = Event("delta", t, no, "") /\ no # 0
        \/ e = Event("argsdone", t, no, "")
        \/ e = Event("done", t, no, "")

NewItem(u, e) ==
    \/ \E sig \in {"", "early"} : e = Event("added", "reasoning", 0, sig)
    \/ e = Event("added", "message", 0, "")
    \/ \E no : Following(u, "search", no) /\ e = Event("done", "search", no, "")
    \/ \E t \in Tools \ u.begun : e = Event("added", t, 0, "") \/ e = Event("done", t, 1, "")

InReasoning(u, e) ==
    \/ e = Event("part", "reasoning", 0, "")
    \/ \E no : Following(u, "thinking", no) /\ e = Event("delta", "thinking", no, "")
    \/ \E no : MayFollow(u, "thinking", no) /\ \E sig \in Closings : e = Event("done", "reasoning", no, sig)

InMessage(u, e) ==
    \/ e = Event("part", "message", 0, "") \/ e = Event("partdone", "message", 0, "")
    \/ \E no : Following(u, "text", no) /\ e = Event("delta", "text", no, "")
    \/ \E no : MayFollow(u, "text", no) /\ e = Event("done", "message", no, "")

Ends(u, e) ==
    e.type \in Terminals /\ e.cut \in Cuts \cup {""} /\
    \/ \E new \in SUBSET (Tools \ u.begun) :
         e.listed = [t \in u.begun \cup new |-> IF t \in new THEN 1 ELSE u.sent[t]]
    \/ OpenCalls(u) = {} /\ e.listed = <<>>

\* Sets of events, by name.
Arguing(type, t, no) == Event(type, t, no, "")
NewCall(type, t) == Event(type, t, IF type = "done" THEN 1 ELSE 0, "")
Concluding(no, sig) == Event("done", "reasoning", no, sig)

Deltas(u, t) == {Event("delta", t, no, "") : no \in NextPiece(u, t)}
Wholes(u, t) == {Arguing(type, t, no) : type \in {"argsdone", "done"}, no \in u.sent[t]..MaxPieces}
NewCalls(u) == {NewCall(type, t) : type \in {"added", "done"}, t \in MixedTools \ u.begun}
Pieces(u) == {0} \cup IF u.part = "" THEN NextPiece(u, "thinking") ELSE {}
Conclusions(nos, sigs) == {Concluding(no, sig) : no \in nos, sig \in sigs}

LEMMA ArgumentsByCall ==
    ASSUME NEW u
    PROVE  Arguments(u) = UNION {Deltas(u, t) \cup Wholes(u, t) : t \in OpenCalls(u)}
BY DEF Arguments, Arguing, Deltas, Wholes

LEMMA BeginsByKind ==
    ASSUME NEW u
    PROVE  Begins(u) =
             {Event("added", "reasoning", 0, sig) : sig \in {"", "early"}}
             \cup {Event("added", "message", 0, "")}
             \cup {Event("done", "search", no, "") : no \in NextPiece(u, "search")}
             \cup NewCalls(u)
BY DEF Begins, NewCalls, NewCall

LEMMA ReasonsByKind ==
    ASSUME NEW u
    PROVE  Reasons(u) =
             {Event("part", "reasoning", 0, "") : x \in {"", "part"} \cap {u.part}}
             \cup {Event("delta", "thinking", no, "") : no \in IF u.part = "" THEN {} ELSE NextPiece(u, "thinking")}
             \cup Conclusions(Pieces(u), Closings)
BY DEF Reasons, Conclusions, Concluding, Pieces, Closings

LEMMA WholeNamed ==
    ASSUME NEW u, NEW t, NEW e \in Wholes(u, t)
    PROVE  \E type \in {"argsdone", "done"}, no \in u.sent[t]..MaxPieces : e = Arguing(type, t, no)
BY DEF Wholes

LEMMA NewCallNamed ==
    ASSUME NEW u, NEW e \in NewCalls(u)
    PROVE  \E type \in {"added", "done"}, t \in MixedTools \ u.begun : e = NewCall(type, t)
BY DEF NewCalls

LEMMA ConclusionNamed ==
    ASSUME NEW nos, NEW sigs, NEW e \in Conclusions(nos, sigs)
    PROVE  \E no \in nos, sig \in sigs : e = Concluding(no, sig)
BY DEF Conclusions

LEMMA ArgumentsAreAboutCalls ==
    ASSUME NEW u \in Upstreams, NEW e \in Arguments(u)
    PROVE  AboutCall(u, e)
<1>1. PICK t \in OpenCalls(u) : e \in Deltas(u, t) \cup Wholes(u, t)
  BY ArgumentsByCall
<1>2. t \in Tools /\ t \in Lanes
  BY ToolsAreCalls DEF OpenCalls, Upstreams
<1>3. CASE e \in Deltas(u, t)
  <2>1. PICK no \in NextPiece(u, t) : e = Event("delta", t, no, "")
    BY <1>3 DEF Deltas
  <2>2. NoLess(u, t, no) /\ no # 0
    BY <1>2, <2>1, NextPieceFollows, FollowingIsNoLess
  <2>3. e.no = no
    BY <2>1 DEF Event
  <2> QED
    BY <2>1, <2>2, <2>3 DEF AboutCall
<1>4. CASE e \in Wholes(u, t)
  <2>1. PICK type \in {"argsdone", "done"}, no \in u.sent[t]..MaxPieces : e = Arguing(type, t, no)
    BY <1>4, WholeNamed
  <2>2. NoLess(u, t, no)
    <3>1. PICK n \in Nat : n = u.sent[t]
      BY <1>2 DEF Upstreams
    <3>2. no \in Nat /\ n <= no
      BY <3>1, StreamAssumption
    <3> QED
      BY <3>1, <3>2 DEF NoLess
  <2>3. e.no = no
    BY <2>1 DEF Event, Arguing
  <2> QED
    BY <2>1, <2>2, <2>3 DEF AboutCall, Arguing
<1> QED
  BY <1>1, <1>3, <1>4

LEMMA BeginsAreNew ==
    ASSUME NEW u \in Upstreams, NEW e \in Begins(u)
    PROVE  NewItem(u, e)
<1> DEFINE thoughts == {Event("added", "reasoning", 0, sig) : sig \in {"", "early"}}
           searches == {Event("done", "search", no, "") : no \in NextPiece(u, "search")}
<1>1. Begins(u) = thoughts \cup {Event("added", "message", 0, "")} \cup searches \cup NewCalls(u)
  BY BeginsByKind
<1>2. CASE e \in thoughts
  BY <1>2 DEF NewItem
<1>3. CASE e = Event("added", "message", 0, "")
  BY <1>3 DEF NewItem
<1>4. CASE e \in searches
  <2>1. PICK no \in NextPiece(u, "search") : e = Event("done", "search", no, "")
    BY <1>4
  <2>2. Following(u, "search", no)
    BY <2>1, NextPieceFollows DEF Lanes
  <2> QED
    BY <2>1, <2>2 DEF NewItem
<1>5. CASE e \in NewCalls(u)
  <2>1. PICK type \in {"added", "done"}, t \in MixedTools \ u.begun : e = NewCall(type, t)
    BY <1>5, NewCallNamed
  <2>2. t \in Tools \ u.begun
    BY <2>1, ToolsAreCalls
  <2>3. e = Event("added", t, 0, "") \/ e = Event("done", t, 1, "")
    BY <2>1 DEF NewCall
  <2> QED
    BY <2>2, <2>3 DEF NewItem
<1> HIDE DEF thoughts, searches
<1> QED
  BY <1>1, <1>2, <1>3, <1>4, <1>5

LEMMA ReasonsAreInReasoning ==
    ASSUME NEW u \in Upstreams, NEW e \in Reasons(u)
    PROVE  InReasoning(u, e)
<1> DEFINE parts == {Event("part", "reasoning", 0, "") : x \in {"", "part"} \cap {u.part}}
           deltas == {Event("delta", "thinking", no, "") : no \in IF u.part = "" THEN {} ELSE NextPiece(u, "thinking")}
<1>1. Reasons(u) = parts \cup deltas \cup Conclusions(Pieces(u), Closings)
  BY ReasonsByKind
<1>2. \A no \in NextPiece(u, "thinking") : Following(u, "thinking", no)
  BY NextPieceFollows DEF Lanes
<1>3. CASE e \in parts
  BY <1>3 DEF InReasoning
<1>4. CASE e \in deltas
  <2>1. PICK no \in NextPiece(u, "thinking") : e = Event("delta", "thinking", no, "")
    BY <1>4
  <2> QED
    BY <1>2, <2>1 DEF InReasoning
<1>5. CASE e \in Conclusions(Pieces(u), Closings)
  <2>1. PICK no \in Pieces(u), sig \in Closings : e = Concluding(no, sig)
    BY <1>5, ConclusionNamed
  <2>2. MayFollow(u, "thinking", no)
    BY <1>2 DEF MayFollow, Pieces
  <2>3. e = Event("done", "reasoning", no, sig)
    BY <2>1 DEF Concluding
  <2> QED
    BY <2>2, <2>3 DEF InReasoning
<1> HIDE DEF parts, deltas
<1> QED
  BY <1>1, <1>3, <1>4, <1>5

LEMMA SpeaksAreInMessage ==
    ASSUME NEW u \in Upstreams, NEW e \in Speaks(u)
    PROVE  InMessage(u, e)
<1> DEFINE parts == {Event("part", "message", 0, "") : x \in {""} \cap {u.part}}
           partdones == {Event("partdone", "message", 0, "") : x \in {"part"} \cap {u.part}}
           deltas == {Event("delta", "text", no, "") : no \in IF u.part = "part" THEN NextPiece(u, "text") ELSE {}}
           dones == {Event("done", "message", no, "") : no \in {0} \cup IF u.part = "" THEN NextPiece(u, "text") ELSE {}}
<1>1. Speaks(u) = parts \cup partdones \cup deltas \cup dones
  BY DEF Speaks
<1>2. \A no \in NextPiece(u, "text") : Following(u, "text", no)
  BY NextPieceFollows DEF Lanes
<1>3. CASE e \in parts
  BY <1>3 DEF InMessage
<1>4. CASE e \in partdones
  BY <1>4 DEF InMessage
<1>5. CASE e \in deltas
  <2>1. PICK no \in NextPiece(u, "text") : e = Event("delta", "text", no, "")
    BY <1>5
  <2> QED
    BY <1>2, <2>1 DEF InMessage
<1>6. CASE e \in dones
  <2>1. PICK no \in {0} \cup NextPiece(u, "text") : e = Event("done", "message", no, "")
    BY <1>6
  <2>2. MayFollow(u, "text", no)
    BY <1>2, <2>1 DEF MayFollow
  <2> QED
    BY <2>1, <2>2 DEF InMessage
<1> HIDE DEF parts, partdones, deltas, dones
<1> QED
  BY <1>1, <1>3, <1>4, <1>5, <1>6

LEMMA CodexOffersKinds ==
    ASSUME NEW u \in Upstreams, u.at \in {"", "reasoning", "message"}, NEW e \in CodexOffers(u)
    PROVE  /\ u.ended = ""
           /\ \/ AboutCall(u, e) \/ NewItem(u, e) \/ InReasoning(u, e) \/ InMessage(u, e) \/ Ends(u, e)
              \/ \E type \in {"error", "failed", "created"} : e = Event(type, "", 0, "")
<1>1. u.ended = ""
  BY DEF CodexOffers
<1> DEFINE items == CASE u.at = "" -> IF u.items < MaxItems THEN Begins(u) ELSE {}
                      [] u.at = "reasoning" -> Reasons(u)
                      [] u.at = "message" -> Speaks(u)
           others == {Event(type, "", 0, "") : type \in {"error", "failed"} \cup (IF u = Silent THEN {"created"} ELSE {})}
           ends == IF u.at = "" THEN Endings(u) ELSE {}
<1>2. CodexOffers(u) = Arguments(u) \cup items \cup others \cup ends
  BY <1>1 DEF CodexOffers
<1>3. CASE e \in Arguments(u)
  BY <1>1, <1>3, ArgumentsAreAboutCalls
<1>4. CASE e \in items
  <2>1. e \in Begins(u) \/ e \in Reasons(u) \/ e \in Speaks(u)
    BY <1>4
  <2> QED
    BY <1>1, <2>1, BeginsAreNew, ReasonsAreInReasoning, SpeaksAreInMessage
<1>5. CASE e \in others
  BY <1>1, <1>5
<1>6. CASE e \in ends
  <2>0. PICK cut \in Cuts \cup {""} : e \in {Terminal(listed, cut) : listed \in Listings(u)}
    BY <1>6 DEF Endings
  <2>1. PICK listed \in Listings(u) : e = Terminal(listed, cut)
    BY <2>0
  <2>2. e.type \in Terminals /\ e.cut \in Cuts \cup {""} /\ e.listed = listed
    BY <2>1 DEF Terminal, Terminals
  <2>3. \/ \E new \in SUBSET (MixedTools \ u.begun) : listed = [t \in u.begun \cup new |-> IF t \in new THEN 1 ELSE u.sent[t]]
        \/ OpenCalls(u) = {} /\ listed = <<>>
    BY <2>1 DEF Listings
  <2>4. SUBSET (MixedTools \ u.begun) \subseteq SUBSET (Tools \ u.begun)
    BY ToolsAreCalls
  <2>5. Ends(u, e)
    BY <2>2, <2>3, <2>4 DEF Ends
  <2> QED
    BY <1>1, <2>5
<1> HIDE DEF items, others, ends
<1> QED
  BY <1>2, <1>3, <1>4, <1>5, <1>6

-------------------------------------------------------------------------------
(* The upstream after an event of an item.                                 *)

Types == {"added", "part", "partdone", "delta", "argsdone", "done"}
Items == Tools \cup {"reasoning", "message", "text", "thinking", "search"}
Ats == {"", "reasoning", "message"}

ItemLane(item) == IF item = "reasoning" THEN "thinking" ELSE IF item = "message" THEN "text" ELSE item

\* A reasoning item that is done with a signature, at its end or its beginning.
SignedAtEnd(u, type, item, sig) == type = "done" /\ item = "reasoning" /\ (sig # "" \/ u.sig # "")

\* What is odd about it for a client of the Gemini protocol.
OddItem(u, type, item, no, sig) ==
    IF type # "done" THEN {}
    ELSE IF item = "message" THEN {ch \in {"text"} : no > 1}
    ELSE IF item = "reasoning"
      THEN {ch \in {"thinking"} : u.sent["thinking"] > u.since} \cup {ch \in {"signature"} : u.sig # "" /\ sig = ""}
    ELSE {}

ItemTaken(u, v, type, item, no, sig) ==
    /\ v \in Upstreams /\ v.at \in Ats
    /\ SentBy(u, v, ItemLane(item), no, SignedAtEnd(u, type, item, sig))
    /\ v.begun = u.begun \cup (Tools \cap {item})
    /\ type = "done" => v.closed = u.closed \cup (Tools \cap {item})
    /\ type # "done" => v.closed = u.closed
    /\ v.since \in {u.since, u.sent["thinking"]}
    /\ type # "added" => v.since = u.since
    /\ v.odd = u.odd \cup OddItem(u, type, item, no, sig)
    /\ v.ended = u.ended

LEMMA OddOfItem ==
    ASSUME NEW u \in Upstreams, NEW type \in Types, NEW item \in Items, NEW no \in Nat, NEW sig
    PROVE  /\ Odd(u, Event(type, item, no, sig), "gemini") = OddItem(u, type, item, no, sig)
           /\ OddItem(u, type, item, no, sig) \subseteq Oddities
<1> DEFINE e == Event(type, item, no, sig)
<1>1. e.type = type /\ e.item = item /\ e.no = no /\ e.sig = sig
  BY DEF Event
<1>2. item = "message" \/ item = "reasoning" => item \notin u.begun
  BY ToolsAreCalls DEF Upstreams, Words
<1>3. type \notin Terminals
  BY DEF Types, Terminals
<1> HIDE DEF e
<1> DEFINE listed == {t \in DOMAIN e.listed :
                         CASE "gemini" = "openai" -> t \notin u.begun
                           [] "gemini" = "gemini" -> t \notin u.closed
                           [] OTHER -> FALSE}
                     \cup {x \in {"cut short"} : "gemini" = "openai" /\ e.cut # ""}
           whole == {ch \in {"text"} : e.no > IF "gemini" = "openai" THEN 0 ELSE 1}
           again == {ch \in {"thinking"} : CASE "gemini" = "openai" -> e.no > 0
                                             [] "gemini" = "gemini" -> u.sent["thinking"] > u.since
                                             [] OTHER -> FALSE}
                    \cup {ch \in {"signature"} : "gemini" = "gemini" /\ u.sig # "" /\ e.sig = ""}
           argued == {t \in {e.item} : /\ "gemini" = "openai"
                                       /\ \/ u.sent[t] \in 1..(e.no - 1)
                                          \/ e.no = 0 /\ e.type = "argsdone"}
<1>a. Odd(u, e, "gemini") =
         CASE e.type \in Terminals -> listed
           [] e.type = "done" /\ e.item = "message" -> whole
           [] e.type = "done" /\ e.item = "reasoning" -> again
           [] e.type \in {"argsdone", "done"} /\ e.item \in u.begun -> argued
           [] OTHER -> {}
  BY DEF Odd
<1>b. argued = {}
  OBVIOUS
<1> HIDE DEF listed, whole, again, argued
<1>4. CASE type = "done" /\ item = "message"
  <2>0. Odd(u, e, "gemini") = {ch \in {"text"} : e.no > IF "gemini" = "openai" THEN 0 ELSE 1}
    <3>1. Odd(u, e, "gemini") = whole
      BY <1>1, <1>2, <1>3, <1>4, <1>a
    <3> QED
      BY <3>1 DEF whole
  <2>1. Odd(u, e, "gemini") = {ch \in {"text"} : no > 1}
    BY <1>1, <2>0
  <2>2. OddItem(u, type, item, no, sig) = {ch \in {"text"} : no > 1}
    BY <1>4 DEF OddItem
  <2> QED
    BY <2>1, <2>2 DEF e, Oddities, Lanes
<1>5. CASE type = "done" /\ item = "reasoning"
  <2>1. Odd(u, e, "gemini") = {ch \in {"thinking"} : u.sent["thinking"] > u.since} \cup {ch \in {"signature"} : u.sig # "" /\ sig = ""}
    <3>1. Odd(u, e, "gemini") =
             {ch \in {"thinking"} : CASE "gemini" = "openai" -> e.no > 0
                                      [] "gemini" = "gemini" -> u.sent["thinking"] > u.since
                                      [] OTHER -> FALSE}
             \cup {ch \in {"signature"} : "gemini" = "gemini" /\ u.sig # "" /\ e.sig = ""}
      <4>1. Odd(u, e, "gemini") = again
        BY <1>1, <1>2, <1>3, <1>5, <1>a
      <4> QED
        BY <4>1 DEF again
    <3>2. (CASE "gemini" = "openai" -> e.no > 0
             [] "gemini" = "gemini" -> u.sent["thinking"] > u.since
             [] OTHER -> FALSE) <=> u.sent["thinking"] > u.since
      OBVIOUS
    <3> QED
      BY <1>1, <3>1, <3>2
  <2>2. OddItem(u, type, item, no, sig) = {ch \in {"thinking"} : u.sent["thinking"] > u.since} \cup {ch \in {"signature"} : u.sig # "" /\ sig = ""}
    BY <1>5 DEF OddItem
  <2> QED
    BY <2>1, <2>2 DEF e, Oddities, Lanes
<1>6. CASE ~(type = "done" /\ item \in {"message", "reasoning"})
  <2>1. Odd(u, e, "gemini") = {}
    BY <1>1, <1>2, <1>3, <1>6, <1>a, <1>b
  <2>2. OddItem(u, type, item, no, sig) = {}
    BY <1>6 DEF OddItem
  <2> QED
    BY <2>1, <2>2 DEF e
<1> QED
  BY <1>4, <1>5, <1>6

LEMMA ItemAfter ==
    ASSUME NEW u \in Upstreams, u.at \in Ats, NEW type \in Types, NEW item \in Items, NEW no \in Nat,
           NEW sig \in {"", "early", "final"}
    PROVE  ItemTaken(u, CodexAfter(u, Event(type, item, no, sig), "gemini"), type, item, no, sig)
<1>0. PICK v : v = CodexAfter(u, Event(type, item, no, sig), "gemini")
  OBVIOUS
<1> DEFINE e == Event(type, item, no, sig)
           lane == ItemLane(item)
           opens == item \in {"reasoning", "message"} /\ type = "added"
           ends == item \in {"reasoning", "message"} /\ type = "done"
           signs == SignedAtEnd(u, type, item, sig)
           sent == [c \in Lanes |-> IF c = lane /\ no > 0 THEN no
                                       ELSE IF c = "signature" /\ signs THEN u.sent[c] + 1 ELSE u.sent[c]]
           begun == u.begun \cup (Tools \cap {item})
           closed == IF type = "done" THEN u.closed \cup (Tools \cap {item}) ELSE u.closed
           items == IF opens \/ item = "search" \/ item \in Tools \ u.begun THEN u.items + 1 ELSE u.items
           at == IF opens THEN item ELSE IF ends THEN "" ELSE u.at
           part == IF opens \/ ends THEN ""
                   ELSE IF type = "part" THEN (IF u.part = "" THEN "part" ELSE "parts")
                   ELSE IF type = "partdone" THEN "parts" ELSE u.part
           signed == IF opens THEN sig ELSE IF ends THEN "" ELSE u.sig
           since == IF opens /\ item = "reasoning" THEN u.sent["thinking"] ELSE u.since
           odd == u.odd \cup OddItem(u, type, item, no, sig)
<1>1. e.type = type /\ e.item = item /\ e.no = no /\ e.sig = sig
  BY DEF Event
<1>2. type \notin Terminals /\ type \notin {"error", "failed", "created"}
  BY DEF Types, Terminals
<1>3. Odd(u, e, "gemini") = OddItem(u, type, item, no, sig) /\ OddItem(u, type, item, no, sig) \subseteq Oddities
  BY OddOfItem
<1>4. v = [u EXCEPT !.sent = sent, !.begun = begun, !.closed = closed, !.items = items, !.at = at, !.part = part,
                    !.sig = signed, !.finish = FALSE, !.since = since, !.odd = odd]
  <2> DEFINE ch2 == CASE e.item = "reasoning" -> "thinking" [] e.item = "message" -> "text" [] OTHER -> e.item
             opens2 == e.item \in {"reasoning", "message"} /\ e.type = "added"
             ends2 == e.item \in {"reasoning", "message"} /\ e.type = "done"
             signs2 == e.type = "done" /\ e.item = "reasoning" /\ (e.sig # "" \/ u.sig # "")
             sent2 == [c \in Lanes |-> IF c = ch2 /\ e.no > 0 THEN e.no
                                          ELSE IF c = "signature" /\ signs2 THEN u.sent[c] + 1 ELSE u.sent[c]]
             begun2 == u.begun \cup (Tools \cap {e.item})
             closed2 == IF e.type = "done" THEN u.closed \cup (Tools \cap {e.item}) ELSE u.closed
             items2 == IF opens2 \/ e.item = "search" \/ e.item \in Tools \ u.begun THEN u.items + 1 ELSE u.items
             at2 == IF opens2 THEN e.item ELSE IF ends2 THEN "" ELSE u.at
             part2 == IF opens2 \/ ends2 THEN ""
                      ELSE IF e.type = "part" THEN (IF u.part = "" THEN "part" ELSE "parts")
                      ELSE IF e.type = "partdone" THEN "parts" ELSE u.part
             signed2 == IF opens2 THEN e.sig ELSE IF ends2 THEN "" ELSE u.sig
             since2 == IF opens2 /\ e.item = "reasoning" /\ "gemini" = "gemini" THEN u.sent["thinking"] ELSE u.since
             odd2 == u.odd \cup Odd(u, e, "gemini")
  <2> HIDE DEF e
  <2>1. v = [u EXCEPT !.sent = sent2, !.begun = begun2, !.closed = closed2, !.items = items2, !.at = at2, !.part = part2,
                      !.sig = signed2, !.finish = FALSE, !.since = since2, !.odd = odd2]
    <3>1. v = CodexAfter(u, e, "gemini")
      BY <1>0 DEF e
    <3> QED
      BY <1>1, <1>2, <3>1 DEF CodexAfter, Upstreams
  <2>2. ch2 = lane
    BY <1>1 DEF ItemLane
  <2>3. (opens2 <=> opens) /\ (ends2 <=> ends) /\ (signs2 <=> signs)
    BY <1>1 DEF SignedAtEnd
  <2> HIDE DEF ch2, lane, opens, opens2, ends, ends2, signs, signs2
  <2>4. sent2 = sent
    BY <1>1, <2>2, <2>3
  <2>5. begun2 = begun /\ closed2 = closed /\ items2 = items
    BY <1>1, <2>3
  <2>6. at2 = at /\ part2 = part /\ signed2 = signed
    BY <1>1, <2>3
  <2>7. since2 = since
    BY <1>1, <2>3
  <2>8. odd2 = odd
    BY <1>3
  <2> HIDE DEF sent, sent2, begun, begun2, closed, closed2, items, items2, at, at2, part, part2, signed, signed2,
               since, since2, odd, odd2
  <2> QED
    BY <2>1, <2>4, <2>5, <2>6, <2>7, <2>8
<1>5. /\ u.sent \in [Lanes -> Nat] /\ u.begun \subseteq Tools /\ u.closed \subseteq Tools /\ u.items \in Nat
      /\ u.part \in {"", "part", "parts"} /\ u.sig \in {"", "early", "final"} /\ u.since \in Nat /\ u.odd \subseteq Oddities
  BY DEF Upstreams
<1>6. sent \in [Lanes -> Nat]
  <2> HIDE DEF signs, lane
  <2>1. ASSUME NEW x \in Lanes
        PROVE  (IF x = lane /\ no > 0 THEN no ELSE IF x = "signature" /\ signs THEN u.sent[x] + 1 ELSE u.sent[x]) \in Nat
    <3>1. u.sent[x] \in Nat /\ u.sent[x] + 1 \in Nat
      <4>1. PICK n \in Nat : n = u.sent[x]
        BY <1>5
      <4>2. n + 1 \in Nat
        BY <4>1, OneMore
      <4> QED
        BY <4>1, <4>2
    <3>2. CASE x = lane /\ no > 0
      BY <3>2
    <3>3. CASE ~(x = lane /\ no > 0) /\ x = "signature" /\ signs
      BY <3>1, <3>3
    <3>4. CASE ~(x = lane /\ no > 0) /\ ~(x = "signature" /\ signs)
      BY <3>1, <3>4
    <3> QED
      BY <3>2, <3>3, <3>4
  <2> QED
    BY <2>1
<1>7. begun \subseteq Tools /\ closed \subseteq Tools
  BY <1>5
<1>8. items \in Nat
  <2> HIDE DEF opens
  <2>1. PICK n \in Nat : n = u.items
    BY <1>5
  <2>2. n + 1 \in Nat
    BY <2>1, OneMore
  <2> QED
    BY <2>1, <2>2
<1>9. at \in Ats /\ Ats \subseteq Places
  <2>1. opens => item \in Ats
    BY DEF Ats
  <2> HIDE DEF opens, ends
  <2>2. at \in Ats
    BY <2>1 DEF Ats
  <2> QED
    BY <2>2 DEF Ats, Places
<1>10. part \in {"", "part", "parts"} /\ signed \in {"", "early", "final"}
  <2> HIDE DEF opens, ends
  <2> QED
    BY <1>5
<1>11. since \in Nat /\ since \in {u.since, u.sent["thinking"]} /\ (type # "added" => since = u.since)
  <2>1. u.sent["thinking"] \in Nat
    BY <1>5 DEF Lanes
  <2> QED
    BY <1>5, <2>1
<1>12. odd \subseteq Oddities
  BY <1>3, <1>5
<1>13. /\ v.sent = sent /\ v.begun = begun /\ v.closed = closed /\ v.at = at /\ v.since = since /\ v.odd = odd
       /\ v.ended = u.ended /\ v \in Upstreams
  <2> HIDE DEF sent, begun, closed, items, at, part, signed, since, odd
  <2> QED
    BY <1>4, <1>6, <1>7, <1>8, <1>9, <1>10, <1>11, <1>12 DEF Upstreams
<1>14. SentBy(u, v, lane, no, signs)
  <2> HIDE DEF signs, lane
  <2>1. v.sent = sent
    BY <1>13
  <2>2. \A x \in Lanes : v.sent[x] = IF x = lane /\ no > 0 THEN no
                                        ELSE IF x = "signature" /\ signs THEN u.sent[x] + 1 ELSE u.sent[x]
    BY <2>1
  <2>3. no > 0 <=> no # 0
    BY OneMore
  <2> HIDE DEF sent
  <2> QED
    BY <2>2, <2>3 DEF SentBy
<1>15. closed = IF type = "done" THEN u.closed \cup (Tools \cap {item}) ELSE u.closed
  OBVIOUS
<1> HIDE DEF sent, closed, items, at, part, signed, since, e
<1> QED
  BY <1>0, <1>9, <1>11, <1>13, <1>14, <1>15 DEF ItemTaken, e

-------------------------------------------------------------------------------
(* A client of the Gemini protocol.                                        *)

GeminiReasons == {"STOP", "MAX_TOKENS", "SAFETY", "OTHER"}

GeminiClients ==
    [phase : {"open", "stop", "error"}, announced : SUBSET Tools, reason : GeminiReasons \cup {""}, early : BOOLEAN,
     fault : BOOLEAN, torn : BOOLEAN, got : [Lanes -> Int]]

LEMMA GeminiClientTyped == GeminiClient \in GeminiClients
<1>1. [ch \in Lanes |-> 0] \in [Lanes -> Int]
  OBVIOUS
<1> QED
  BY <1>1 DEF GeminiClient, GeminiClients

\* d is what c is when the answer has gone on, but for what it has heard of ch.
WentOn(c, d, ch) ==
    /\ d \in GeminiClients /\ d.phase = "open" /\ d.announced = c.announced
    /\ d.fault = c.fault /\ d.torn = c.torn
    /\ d.early => c.early \/ c.phase = "stop"
    /\ \A x \in Lanes \ {ch} : d.got[x] = c.got[x]

HeardNext(c, d, ch, from, to) == WentOn(c, d, ch) /\ (from = Awaited(c, ch) => d.got[ch] = to)

LEMMA GeminiText ==
    ASSUME NEW c \in GeminiClients, NEW ch \in {"text", "thinking"}, NEW from, NEW to \in Nat
    PROVE  HeardNext(c, part_text(c, ch, from, to), ch, from, to)
<1>1. PICK g : g = Heard(c.got, ch, from, to)
  OBVIOUS
<1>2. c.got \in [Lanes -> Int] /\ ch \in Lanes
  BY DEF GeminiClients, Lanes
<1>3. PICK n : n = IF from = c.got[ch] + 1 THEN to ELSE Behind
  OBVIOUS
<1>4. n \in Int /\ (from = Awaited(c, ch) => n = to)
  BY <1>3 DEF Behind, Awaited
<1>5. g = [c.got EXCEPT ![ch] = n]
  BY <1>1, <1>2, <1>3 DEF Heard
<1>6. g \in [Lanes -> Int] /\ g[ch] = n /\ \A x \in Lanes \ {ch} : g[x] = c.got[x]
  BY <1>2, <1>4, <1>5
<1>7. PICK d : d = part_text(c, ch, from, to)
  OBVIOUS
<1>8. d = [c EXCEPT !.phase = "open", !.early = @ \/ c.phase = "stop", !.got = g]
  BY <1>1, <1>7 DEF part_text, Goes, GeminiClients
<1>9. /\ d \in GeminiClients /\ d.phase = "open" /\ d.announced = c.announced
      /\ d.fault = c.fault /\ d.torn = c.torn /\ d.got = g
      /\ d.early => c.early \/ c.phase = "stop"
  BY <1>6, <1>8 DEF GeminiClients
<1> QED
  BY <1>4, <1>6, <1>7, <1>9 DEF HeardNext, WentOn

LEMMA GeminiSignature ==
    ASSUME NEW c \in GeminiClients
    PROVE  HeardNext(c, part_signature(c), "signature", Awaited(c, "signature"), Awaited(c, "signature"))
<1>1. c.got \in [Lanes -> Int] /\ "signature" \in Lanes
  BY DEF GeminiClients, Lanes
<1>2. PICK n : n = Awaited(c, "signature")
  OBVIOUS
<1>3. n \in Int /\ c.got["signature"] + 1 = n
  BY <1>1, <1>2 DEF Awaited
<1>4. PICK d : d = part_signature(c)
  OBVIOUS
<1>5. d = [c EXCEPT !.phase = "open", !.early = @ \/ c.phase = "stop", !.got = [c.got EXCEPT !["signature"] = n]]
  <2>1. d = [c EXCEPT !.phase = "open", !.early = @ \/ c.phase = "stop", !.got = [c.got EXCEPT !["signature"] = c.got["signature"] + 1]]
    BY <1>4 DEF part_signature, Goes, GeminiClients
  <2> QED
    BY <1>3, <2>1
<1>6. /\ d \in GeminiClients /\ d.phase = "open" /\ d.announced = c.announced
      /\ d.fault = c.fault /\ d.torn = c.torn /\ d.got = [c.got EXCEPT !["signature"] = n]
      /\ d.early => c.early \/ c.phase = "stop"
  BY <1>1, <1>3, <1>5 DEF GeminiClients
<1> QED
  BY <1>1, <1>2, <1>4, <1>6 DEF HeardNext, WentOn

Called(c, d, t, args) ==
    /\ d \in GeminiClients /\ d.phase = "stop" /\ d.announced = c.announced \cup {t}
    /\ d.fault <=> c.fault \/ t \in c.announced
    /\ d.torn = c.torn
    /\ d.got[t] = args
    /\ \A x \in Lanes \ {t} : d.got[x] = c.got[x]

LEMMA GeminiCall ==
    ASSUME NEW c \in GeminiClients, NEW t \in Tools, NEW args \in Nat
    PROVE  Called(c, finishReason(functionCall(c, t, args), "STOP"), t, args)
<1>1. c.got \in [Lanes -> Int] /\ t \in Lanes /\ args \in Int
  <2>1. c.got \in [Lanes -> Int]
    BY DEF GeminiClients
  <2>2. t \in Lanes
    BY DEF Lanes
  <2> QED
    BY <2>1, <2>2
<1>2. PICK g : g = [c.got EXCEPT ![t] = args]
  OBVIOUS
<1>3. g \in [Lanes -> Int] /\ g[t] = args /\ \A x \in Lanes \ {t} : g[x] = c.got[x]
  BY <1>1, <1>2
<1>4. PICK d : d = finishReason(functionCall(c, t, args), "STOP")
  OBVIOUS
<1>5. d = [c EXCEPT !.phase = "stop", !.reason = "STOP", !.early = @ \/ c.phase = "stop",
                    !.announced = c.announced \cup {t}, !.fault = c.fault \/ t \in c.announced, !.got = g]
  BY <1>2, <1>4 DEF finishReason, functionCall, Goes, GeminiClients
<1>6. /\ d \in GeminiClients /\ d.phase = "stop" /\ d.announced = c.announced \cup {t}
      /\ d.fault <=> c.fault \/ t \in c.announced
      /\ d.torn = c.torn /\ d.got = g
  BY <1>3, <1>5 DEF GeminiClients, GeminiReasons
<1> QED
  BY <1>3, <1>4, <1>6 DEF Called

LEMMA GeminiConcluded ==
    ASSUME NEW c \in GeminiClients, NEW reason \in GeminiReasons
    PROVE  LET d == finishReason(c, reason)
           IN  /\ d \in GeminiClients /\ d.phase = "stop" /\ d.announced = c.announced
               /\ d.early => c.early \/ c.phase = "stop"
               /\ d.fault = c.fault /\ d.torn = c.torn /\ d.got = c.got
BY DEF finishReason, Goes, GeminiClients

-------------------------------------------------------------------------------
(* What the translator and the client know of such an answer: every call    *)
(* that is done is announced, with its arguments; h says that text has come. *)

GeminiShape(u, c) ==
    /\ ~c.fault /\ ~c.torn
    /\ c.announced \subseteq u.closed /\ u.closed \subseteq u.begun
    /\ u.ended # "end" => c.announced = u.closed
    /\ u.ended = "end" => c.phase = "stop" /\ u.begun \subseteq c.announced \cup u.odd
    /\ c.phase = "stop" /\ u.ended # "end" => c.announced # {}
    /\ c.early => c.announced # {}

Spoken == {"text", "thinking", "signature"}

GeminiHeard(u, h, c) ==
    /\ h => u.sent["text"] # 0
    /\ \A ch \in Spoken \ u.odd : c.got[ch] = u.sent[ch]
    /\ \A t \in c.announced : c.got[t] = u.sent[t]
    /\ \A t \in Tools \ c.announced : c.got[t] = 0
    /\ \A t \in Tools \ u.begun : u.sent[t] = 0

Since(u) == u.since <= u.sent["thinking"]

CodexGemini(u, h, c) ==
    /\ u \in Upstreams /\ u.at \in Ats /\ h \in BOOLEAN /\ c \in GeminiClients
    /\ GeminiShape(u, c) /\ GeminiHeard(u, h, c) /\ Since(u)

LEMMA CodexGeminiBegins ==
    CodexGemini(Silent, FALSE, GeminiClient)
<1>1. /\ \A ch \in Lanes : Silent.sent[ch] = 0 /\ GeminiClient.got[ch] = 0
      /\ Spoken \subseteq Lanes /\ Tools \subseteq Lanes
  BY DEF Silent, GeminiClient, Lanes, Spoken
<1>2. /\ Silent.begun = {} /\ Silent.closed = {} /\ Silent.at = "" /\ Silent.since = 0 /\ Silent.ended = "" /\ Silent.odd = {}
      /\ GeminiClient.announced = {} /\ ~GeminiClient.fault /\ ~GeminiClient.torn /\ ~GeminiClient.early
      /\ GeminiClient.phase = "open"
  BY DEF Silent, GeminiClient
<1>3. GeminiShape(Silent, GeminiClient)
  BY <1>2 DEF GeminiShape
<1>4. GeminiHeard(Silent, FALSE, GeminiClient)
  BY <1>1, <1>2 DEF GeminiHeard
<1>5. Since(Silent)
  <2>1. Silent.sent["thinking"] = 0
    BY <1>1 DEF Spoken
  <2>2. 0 <= 0
    OBVIOUS
  <2>3. Silent.since = 0
    BY <1>2
  <2> QED
    BY <2>1, <2>2, <2>3, Zenon DEF Since
<1> QED
  BY <1>2, <1>3, <1>4, <1>5, SilentTyped, GeminiClientTyped DEF CodexGemini, Ats

-------------------------------------------------------------------------------
(* Event by event, for a client of the Gemini protocol.                    *)

LEMMA SinceStill ==
    ASSUME NEW u \in Upstreams, NEW v, Since(u), v.since \in {u.since, u.sent["thinking"]},
           v.sent["thinking"] = u.sent["thinking"]
    PROVE  Since(v)
<1>1. PICK n \in Nat : n = u.sent["thinking"]
  BY DEF Upstreams, Lanes
<1>2. PICK m \in Nat : m = u.since
  BY DEF Upstreams
<1> QED
  BY <1>1, <1>2 DEF Since

LEMMA SinceMore ==
    ASSUME NEW u \in Upstreams, NEW v, Since(u), v.since = u.since, NEW no, Following(u, "thinking", no),
           v.sent["thinking"] = no
    PROVE  Since(v)
<1>1. PICK n \in Nat : n = u.sent["thinking"]
  BY DEF Upstreams, Lanes
<1>2. PICK m \in Nat : m = u.since
  BY DEF Upstreams
<1> QED
  BY <1>1, <1>2 DEF Since, Following

LEMMA NotTheFirst ==
    ASSUME NEW u \in Upstreams, NEW ch \in Lanes, u.sent[ch] # 0, NEW no, Following(u, ch, no)
    PROVE  no > 1
<1>1. PICK n \in Nat : n = u.sent[ch]
  BY DEF Upstreams
<1>2. n # 0 /\ no = n + 1
  BY <1>1 DEF Following
<1> QED
  BY <1>1, <1>2

\* The lane of an item is one of its own, and only a reasoning item is signed.
ItemSays(u, v, ch, no) ==
    /\ ch \in Lanes
    /\ \A x \in Lanes \ {ch} : v.sent[x] = u.sent[x]
    /\ no = 0 => \A x \in Lanes : v.sent[x] = u.sent[x]
    /\ no # 0 => v.sent[ch] = no

LEMMA ItemSent ==
    ASSUME NEW u \in Upstreams, NEW v, NEW type \in Types, NEW item \in Items, NEW no, NEW sig,
           ItemTaken(u, v, type, item, no, sig), ~SignedAtEnd(u, type, item, sig)
    PROVE  ItemSays(u, v, ItemLane(item), no)
<1>1. SentBy(u, v, ItemLane(item), no, FALSE)
  <2>1. SentBy(u, v, ItemLane(item), no, SignedAtEnd(u, type, item, sig))
    BY DEF ItemTaken
  <2> QED
    BY <2>1 DEF SentBy
<1>2. ItemLane(item) \in Lanes
  BY DEF ItemLane, Items, Lanes
<1> QED
  BY <1>1, <1>2 DEF SentBy, ItemSays

\* An event that says nothing to the client.
Quiet(u, h, v) ==
    /\ v \in Upstreams /\ v.at \in Ats /\ Since(v)
    /\ v.ended # "end" /\ v.closed = u.closed /\ u.begun \subseteq v.begun /\ v.begun \subseteq Tools /\ u.odd \subseteq v.odd
    /\ \A ch \in Spoken \ v.odd : v.sent[ch] = u.sent[ch]
    /\ \A t \in u.closed : v.sent[t] = u.sent[t]
    /\ \A t \in Tools \ v.begun : v.sent[t] = u.sent[t]
    /\ h => v.sent["text"] # 0

LEMMA QuietKeeps ==
    ASSUME NEW u, NEW h, NEW c, CodexGemini(u, h, c), u.ended = "", NEW v, Quiet(u, h, v)
    PROVE  CodexGemini(v, h, c)
<1>1. GeminiShape(v, c)
  BY DEF CodexGemini, GeminiShape, Quiet
<1>2. GeminiHeard(v, h, c)
  BY DEF CodexGemini, GeminiShape, GeminiHeard, Quiet
<1> QED
  BY <1>1, <1>2 DEF CodexGemini, Quiet

LEMMA QuietItem ==
    ASSUME NEW u, NEW h, NEW c, CodexGemini(u, h, c), u.ended = "",
           NEW v, NEW type \in Types, NEW item \in Items, NEW no, NEW sig, ItemTaken(u, v, type, item, no, sig),
           type = "done" => item = "search" \/ (item = "message" /\ no = 0),
           no # 0 => item = "search" \/ item \in Tools \ u.closed
    PROVE  CodexGemini(v, h, c)
<1>1. u \in Upstreams /\ Since(u)
  BY DEF CodexGemini
<1>2. ~SignedAtEnd(u, type, item, sig)
  <2>1. type = "done" => item # "reasoning"
    OBVIOUS
  <2> QED
    BY <2>1 DEF SignedAtEnd
<1>3. /\ \A x \in Lanes \ {ItemLane(item)} : v.sent[x] = u.sent[x]
      /\ no = 0 => \A x \in Lanes : v.sent[x] = u.sent[x]
  <2>1. ItemSays(u, v, ItemLane(item), no)
    BY <1>1, <1>2, ItemSent
  <2> QED
    BY <2>1 DEF ItemSays
<1>4. \A t \in Tools : t \notin {"reasoning", "message", "text", "thinking", "signature", "search"}
  BY ToolsAreCalls DEF Words
<1>5. no # 0 => ItemLane(item) = item
  BY <1>4 DEF ItemLane
<1>6. \A ch \in Spoken : v.sent[ch] = u.sent[ch]
  BY <1>3, <1>4, <1>5 DEF Spoken, Lanes
<1>7. \A t \in Tools \ {item} : v.sent[t] = u.sent[t]
  BY <1>3, <1>4, <1>5 DEF Lanes
<1>8. item \in u.closed => \A t \in Tools : v.sent[t] = u.sent[t]
  <2>1. u.closed \subseteq Tools
    BY <1>1 DEF Upstreams
  <2> QED
    BY <1>3, <1>4, <2>1 DEF Lanes
<1>9. /\ v \in Upstreams /\ v.at \in Ats /\ v.begun = u.begun \cup (Tools \cap {item}) /\ v.ended = u.ended
      /\ v.since \in {u.since, u.sent["thinking"]} /\ u.odd \subseteq v.odd
  BY DEF ItemTaken
<1>10. v.closed = u.closed
  BY <1>4 DEF ItemTaken
<1>11. Since(v)
  BY <1>1, <1>6, <1>9, SinceStill DEF Spoken
<1>12. h => v.sent["text"] # 0
  BY <1>6 DEF CodexGemini, GeminiHeard, Spoken
<1>13. u.closed \subseteq Tools /\ v.begun \subseteq Tools
  BY <1>1, <1>9 DEF Upstreams
<1>14. \A t \in u.closed : v.sent[t] = u.sent[t]
  BY <1>7, <1>8, <1>13
<1>15. \A t \in Tools \ v.begun : v.sent[t] = u.sent[t]
  BY <1>7, <1>9
<1>16. Quiet(u, h, v)
  BY <1>6, <1>9, <1>10, <1>11, <1>12, <1>13, <1>14, <1>15 DEF Quiet
<1> QED
  BY <1>16, QuietKeeps

\* A message that comes whole after text has come.
LEMMA LateMessage ==
    ASSUME NEW u, NEW c, CodexGemini(u, TRUE, c), u.ended = "",
           NEW v, NEW no, Following(u, "text", no), ItemTaken(u, v, "done", "message", no, "")
    PROVE  CodexGemini(v, TRUE, c)
<1>1. u \in Upstreams /\ Since(u)
  BY DEF CodexGemini
<1>2. ~SignedAtEnd(u, "done", "message", "")
  BY DEF SignedAtEnd
<1>3. ItemSays(u, v, ItemLane("message"), no)
  <2>1. "done" \in Types /\ "message" \in Items
    BY DEF Types, Items
  <2> QED
    BY <1>1, <1>2, <2>1, ItemSent
<1>4. ItemLane("message") = "text"
  BY DEF ItemLane
<1>5. no # 0
  BY DEF Following, IsPiece
<1>6. v.sent["text"] = no /\ \A x \in Lanes \ {"text"} : v.sent[x] = u.sent[x]
  BY <1>3, <1>4, <1>5 DEF ItemSays
<1>7. no > 1
  <2>1. u.sent["text"] # 0
    BY DEF CodexGemini, GeminiHeard
  <2>2. "text" \in Lanes
    BY DEF Lanes
  <2> QED
    BY <1>1, <2>1, <2>2, NotTheFirst
<1>8. v.odd = u.odd \cup {"text"}
  <2>1. OddItem(u, "done", "message", no, "") = {"text"}
    BY <1>7 DEF OddItem
  <2> QED
    BY <2>1 DEF ItemTaken
<1>9. "message" \notin Tools /\ \A t \in Tools : t # "text" /\ t \in Lanes
  BY ToolsAreCalls DEF Words
<1>10. /\ v \in Upstreams /\ v.at \in Ats /\ v.begun = u.begun /\ v.closed = u.closed /\ v.ended = u.ended
       /\ v.since \in {u.since, u.sent["thinking"]}
  BY <1>9 DEF ItemTaken
<1>11. Since(v)
  BY <1>1, <1>6, <1>10, SinceStill DEF Lanes
<1>12. u.closed \subseteq Tools /\ u.begun \subseteq Tools
  BY <1>1 DEF Upstreams
<1>13. \A ch \in Spoken \ v.odd : v.sent[ch] = u.sent[ch]
  BY <1>6, <1>8 DEF Spoken, Lanes
<1>14. \A t \in Tools : v.sent[t] = u.sent[t]
  BY <1>6, <1>9
<1>15. Quiet(u, TRUE, v)
  BY <1>5, <1>6, <1>8, <1>10, <1>11, <1>12, <1>13, <1>14 DEF Quiet
<1> QED
  BY <1>15, QuietKeeps

-------------------------------------------------------------------------------
(* An event that says something to the client.                             *)

\* d is c when some text, thoughts or signatures have come.
Follows(c, d) ==
    /\ d \in GeminiClients /\ d.announced = c.announced /\ d.fault = c.fault /\ d.torn = c.torn
    /\ d.phase = "stop" => c.phase = "stop"
    /\ d.early => c.early \/ c.phase = "stop"
    /\ \A x \in Lanes \ Spoken : d.got[x] = c.got[x]

LEMMA WentOnFollows ==
    ASSUME NEW c, NEW d, NEW ch \in Spoken, WentOn(c, d, ch)
    PROVE  Follows(c, d)
BY DEF WentOn, Follows

LEMMA FollowsTwice ==
    ASSUME NEW b, NEW c, NEW d, Follows(b, c), Follows(c, d)
    PROVE  Follows(b, d)
BY DEF Follows

Spoke(u, v, g, c, d) ==
    /\ v \in Upstreams /\ v.at \in Ats /\ Since(v)
    /\ v.begun = u.begun /\ v.closed = u.closed /\ v.ended = u.ended /\ u.odd \subseteq v.odd
    /\ \A t \in Tools : v.sent[t] = u.sent[t]
    /\ g \in BOOLEAN /\ (g => v.sent["text"] # 0)
    /\ Follows(c, d)
    /\ \A ch \in Spoken \ v.odd : d.got[ch] = v.sent[ch]

LEMMA SpokeKeeps ==
    ASSUME NEW u, NEW h, NEW c, CodexGemini(u, h, c), u.ended = "", NEW v, NEW g, NEW d, Spoke(u, v, g, c, d)
    PROVE  CodexGemini(v, g, d)
<1>1. GeminiShape(v, d)
  BY DEF CodexGemini, GeminiShape, Spoke, Follows
<1>2. \A t \in Tools : t \in Lanes \ Spoken
  BY ToolsAreCalls DEF Spoken, Words
<1>3. c.announced \subseteq Tools
  BY DEF CodexGemini, GeminiClients
<1>4. \A t \in Tools : v.sent[t] = u.sent[t] /\ d.got[t] = c.got[t]
  BY <1>2 DEF Spoke, Follows
<1>5. d.announced = c.announced /\ v.begun = u.begun
  BY DEF Spoke, Follows
<1>6. /\ \A t \in c.announced : c.got[t] = u.sent[t]
      /\ \A t \in Tools \ c.announced : c.got[t] = 0
      /\ \A t \in Tools \ u.begun : u.sent[t] = 0
  BY DEF CodexGemini, GeminiHeard
<1>7. GeminiHeard(v, g, d)
  BY <1>3, <1>4, <1>5, <1>6 DEF GeminiHeard, Spoke
<1> QED
  BY <1>1, <1>7 DEF CodexGemini, Spoke, Follows

\* A piece of text or of a thought.
Speech(u, v, ch, no) ==
    /\ v \in Upstreams /\ v.at \in Ats
    /\ v.begun = u.begun /\ v.closed = u.closed /\ v.ended = u.ended /\ u.odd \subseteq v.odd
    /\ v.since = u.since
    /\ ItemSays(u, v, ch, no)

LEMMA SpeechOfItem ==
    ASSUME NEW u \in Upstreams, NEW v, NEW type \in {"delta", "done"}, NEW item \in {"text", "thinking", "message"},
           type = "done" => item = "message", NEW no, ItemTaken(u, v, type, item, no, "")
    PROVE  Speech(u, v, ItemLane(item), no)
<1>1. type \in Types /\ item \in Items /\ item \notin Tools /\ ~SignedAtEnd(u, type, item, "")
  BY ToolsAreCalls DEF Types, Items, Words, SignedAtEnd
<1>2. ItemSays(u, v, ItemLane(item), no)
  BY <1>1, ItemSent
<1> QED
  BY <1>1, <1>2 DEF ItemTaken, Speech

LEMMA SpeechKeeps ==
    ASSUME NEW u, NEW h, NEW c, CodexGemini(u, h, c), u.ended = "",
           NEW ch \in {"text", "thinking"}, NEW no, Following(u, ch, no), NEW v, Speech(u, v, ch, no),
           NEW d, HeardNext(c, d, ch, no, no), NEW g \in BOOLEAN, g => h \/ ch = "text"
    PROVE  CodexGemini(v, g, d)
<1>1. u \in Upstreams /\ Since(u) /\ (h => u.sent["text"] # 0) /\ (\A x \in Spoken \ u.odd : c.got[x] = u.sent[x])
  BY DEF CodexGemini, GeminiHeard
<1>2. no # 0
  BY DEF Following, IsPiece
<1>3. v.sent[ch] = no /\ \A x \in Lanes \ {ch} : v.sent[x] = u.sent[x]
  BY <1>2 DEF Speech, ItemSays
<1>4. Since(v)
  <2>1. CASE ch = "thinking"
    BY <1>1, <1>3, <2>1, SinceMore DEF Speech
  <2>2. CASE ch = "text"
    <3>1. v.sent["thinking"] = u.sent["thinking"]
      BY <1>3, <2>2 DEF Lanes
    <3> QED
      BY <1>1, <3>1, SinceStill DEF Speech
  <2> QED
    BY <2>1, <2>2
<1>5. \A t \in Tools : v.sent[t] = u.sent[t]
  <2>1. \A t \in Tools : t # ch /\ t \in Lanes
    BY ToolsAreCalls DEF Words
  <2> QED
    BY <1>3, <2>1
<1>6. g => v.sent["text"] # 0
  <2>1. CASE ch = "text"
    BY <1>2, <1>3, <2>1
  <2>2. CASE ch # "text"
    <3>1. v.sent["text"] = u.sent["text"]
      BY <1>3, <2>2 DEF Lanes
    <3> QED
      BY <1>1, <2>2, <3>1
  <2> QED
    BY <2>1, <2>2
<1>7. Follows(c, d)
  BY WentOnFollows DEF HeardNext, Spoken
<1>8. ASSUME NEW x \in Spoken \ v.odd
      PROVE  d.got[x] = v.sent[x]
  <2>1. x \in Lanes /\ c.got[x] = u.sent[x]
    <3>1. x \in Lanes
      BY DEF Spoken, Lanes
    <3>2. x \notin u.odd
      BY DEF Speech
    <3> QED
      BY <1>1, <3>1, <3>2
  <2>2. CASE x = ch
    <3>1. no = Awaited(c, ch)
      BY <2>1, <2>2 DEF Following, Awaited
    <3> QED
      BY <1>3, <2>2, <3>1 DEF HeardNext
  <2>3. CASE x # ch
    <3>1. d.got[x] = c.got[x]
      BY <2>1, <2>3 DEF HeardNext, WentOn
    <3> QED
      BY <1>3, <2>1, <2>3, <3>1
  <2> QED
    BY <2>2, <2>3
<1>9. Spoke(u, v, g, c, d)
  BY <1>4, <1>5, <1>6, <1>7, <1>8 DEF Spoke, Speech
<1> QED
  BY <1>9, SpokeKeeps

\* A call that is done.
LEMMA CallDoneKeeps ==
    ASSUME NEW u, NEW h, NEW c, CodexGemini(u, h, c), u.ended = "",
           NEW t \in Tools \ u.closed, NEW no, NoLess(u, t, no), NEW v, ItemTaken(u, v, "done", t, no, ""),
           NEW d, Called(c, d, t, no)
    PROVE  CodexGemini(v, h, d)
<1>1. u \in Upstreams /\ Since(u) /\ c \in GeminiClients
  BY DEF CodexGemini
<1>2. t \notin {"reasoning", "message", "text", "thinking", "signature", "search"} /\ t \in Lanes
  BY ToolsAreCalls DEF Words
<1>3. ItemSays(u, v, ItemLane(t), no) /\ ItemLane(t) = t
  <2>1. "done" \in Types /\ t \in Items /\ ~SignedAtEnd(u, "done", t, "")
    BY <1>2 DEF Types, Items, SignedAtEnd
  <2>2. ItemLane(t) = t
    BY <1>2 DEF ItemLane
  <2> QED
    BY <1>1, <2>1, <2>2, ItemSent
<1>4. v.sent[t] = no /\ \A x \in Lanes \ {t} : v.sent[x] = u.sent[x]
  <2>1. CASE no = 0
    BY <1>2, <1>3, <2>1 DEF ItemSays, NoLess
  <2>2. CASE no # 0
    BY <1>3, <2>2 DEF ItemSays
  <2> QED
    BY <2>1, <2>2
<1>5. /\ v \in Upstreams /\ v.at \in Ats /\ v.begun = u.begun \cup {t} /\ v.closed = u.closed \cup {t} /\ v.ended = ""
      /\ v.since = u.since /\ u.odd \subseteq v.odd
  BY DEF ItemTaken
<1>6. /\ d \in GeminiClients /\ d.phase = "stop" /\ d.announced = c.announced \cup {t}
      /\ (d.fault <=> c.fault \/ t \in c.announced) /\ d.torn = c.torn /\ d.got[t] = no
      /\ \A x \in Lanes \ {t} : d.got[x] = c.got[x]
  BY DEF Called
<1>7. c.announced = u.closed /\ u.closed \subseteq u.begun /\ ~c.fault /\ ~c.torn
  BY DEF CodexGemini, GeminiShape
<1>8. GeminiShape(v, d)
  BY <1>5, <1>6, <1>7 DEF GeminiShape
<1>9. \A x \in Spoken : v.sent[x] = u.sent[x] /\ d.got[x] = c.got[x]
  BY <1>2, <1>4, <1>6 DEF Spoken, Lanes
<1>10. \A x \in Tools \ {t} : v.sent[x] = u.sent[x] /\ d.got[x] = c.got[x]
  BY <1>4, <1>6 DEF Lanes
<1>11. c.announced \subseteq Tools
  BY <1>1 DEF GeminiClients
<1>12. GeminiHeard(v, h, d)
  <2>1. /\ h => u.sent["text"] # 0
        /\ \A ch \in Spoken \ u.odd : c.got[ch] = u.sent[ch]
        /\ \A x \in c.announced : c.got[x] = u.sent[x]
        /\ \A x \in Tools \ c.announced : c.got[x] = 0
        /\ \A x \in Tools \ u.begun : u.sent[x] = 0
    BY DEF CodexGemini, GeminiHeard
  <2>2. /\ h => v.sent["text"] # 0
        /\ \A ch \in Spoken \ v.odd : d.got[ch] = v.sent[ch]
    BY <1>5, <1>9, <2>1 DEF Spoken
  <2>3. \A x \in d.announced : d.got[x] = v.sent[x]
    BY <1>4, <1>6, <1>10, <1>11, <2>1
  <2>4. \A x \in Tools \ d.announced : d.got[x] = 0
    BY <1>6, <1>10, <2>1
  <2>5. \A x \in Tools \ v.begun : v.sent[x] = 0
    BY <1>5, <1>10, <2>1
  <2> QED
    BY <2>2, <2>3, <2>4, <2>5 DEF GeminiHeard
<1>13. Since(v)
  BY <1>1, <1>5, <1>9, SinceStill DEF Spoken
<1> QED
  BY <1>5, <1>6, <1>8, <1>12, <1>13 DEF CodexGemini

\* A thought that is done is said again, unless nothing of it has come.
Thinks(c, text) == IF text[1] > text[2] THEN c ELSE part_text(c, "thinking", text[1], text[2])

FollowsOn(c, d, ch) == Follows(c, d) /\ \A x \in Spoken \ {ch} : d.got[x] = c.got[x]

LEMMA SameFollowsOn ==
    ASSUME NEW c \in GeminiClients, NEW ch
    PROVE  FollowsOn(c, c, ch)
BY DEF FollowsOn, Follows

LEMMA HeardFollowsOn ==
    ASSUME NEW c, NEW d, NEW ch \in Spoken, NEW from, NEW to, HeardNext(c, d, ch, from, to)
    PROVE  FollowsOn(c, d, ch)
<1>1. Follows(c, d)
  BY WentOnFollows DEF HeardNext
<1>2. Spoken \subseteq Lanes
  BY DEF Spoken, Lanes
<1> QED
  BY <1>1, <1>2 DEF FollowsOn, HeardNext, WentOn

\* What has come of the thought, after its end.
Thinking(u, no) == IF no = 0 THEN u.sent["thinking"] ELSE no

Fresh(u) == u.since = u.sent["thinking"]

LEMMA OldOrFresh ==
    ASSUME NEW u \in Upstreams, Since(u)
    PROVE  u.sent["thinking"] > u.since \/ Fresh(u)
<1>1. PICK n \in Nat : n = u.sent["thinking"]
  BY DEF Upstreams, Lanes
<1>2. PICK m \in Nat : m = u.since
  BY DEF Upstreams
<1>3. m <= n
  BY <1>1, <1>2 DEF Since
<1>4. n > m \/ m = n
  BY <1>3
<1> QED
  BY <1>1, <1>2, <1>4 DEF Fresh

\* The text a thought's end has: nothing, or its pieces.
ThoughtPieces(u, no) == <<u.since + 1, Thinking(u, no)>>

LEMMA ThoughtHeard ==
    ASSUME NEW u \in Upstreams, NEW c \in GeminiClients, NEW no, MayFollow(u, "thinking", no)
    PROVE  LET d == Thinks(c, ThoughtPieces(u, no))
           IN  /\ FollowsOn(c, d, "thinking")
               /\ Fresh(u) /\ c.got["thinking"] = u.sent["thinking"] => d.got["thinking"] = Thinking(u, no)
<1>1. PICK m \in Nat : m = u.since
  BY DEF Upstreams
<1>2. PICK n \in Nat : n = u.sent["thinking"]
  BY DEF Upstreams, Lanes
<1>3. PICK to \in Nat : to = Thinking(u, no)
  BY <1>2 DEF Thinking, MayFollow, Following, IsPiece
<1>4. PICK from \in Nat : from = m + 1
  BY <1>1
<1>5. PICK d : d = Thinks(c, ThoughtPieces(u, no))
  OBVIOUS
<1>6. d = IF from > to THEN c ELSE part_text(c, "thinking", from, to)
  BY <1>1, <1>3, <1>4, <1>5 DEF Thinks, ThoughtPieces
<1>7. CASE from > to
  <2>1. d = c
    BY <1>6, <1>7
  <2>2. FollowsOn(c, d, "thinking")
    BY <2>1, SameFollowsOn
  <2>3. ASSUME Fresh(u), c.got["thinking"] = u.sent["thinking"]
        PROVE  d.got["thinking"] = Thinking(u, no)
    <3>1. m = n
      BY <1>1, <1>2, <2>3 DEF Fresh
    <3>2. no = 0
      BY <1>1, <1>2, <1>3, <1>4, <1>7, <3>1 DEF Thinking, MayFollow, Following
    <3> QED
      BY <2>1, <2>3, <3>2 DEF Thinking
  <2> QED
    BY <1>5, <2>2, <2>3
<1>8. CASE ~(from > to)
  <2>1. d = part_text(c, "thinking", from, to)
    BY <1>6, <1>8
  <2>2. HeardNext(c, d, "thinking", from, to)
    BY <2>1, GeminiText
  <2>3. FollowsOn(c, d, "thinking")
    BY <2>2, HeardFollowsOn DEF Spoken
  <2>4. ASSUME Fresh(u), c.got["thinking"] = u.sent["thinking"]
        PROVE  d.got["thinking"] = Thinking(u, no)
    <3>1. m = n
      BY <1>1, <1>2, <2>4 DEF Fresh
    <3>2. from = Awaited(c, "thinking")
      BY <1>2, <1>4, <2>4, <3>1 DEF Awaited
    <3> QED
      BY <1>3, <2>2, <3>2 DEF HeardNext
  <2> QED
    BY <1>5, <2>3, <2>4
<1> QED
  BY <1>7, <1>8

LEMMA SentAtEnd ==
    ASSUME NEW u \in Upstreams, NEW v, NEW no, NEW sig, ItemTaken(u, v, "done", "reasoning", no, sig)
    PROVE  /\ v.sent["thinking"] = Thinking(u, no)
           /\ v.sent["text"] = u.sent["text"]
           /\ \A t \in Tools : v.sent[t] = u.sent[t]
           /\ sig # "" \/ u.sig # "" => v.sent["signature"] = u.sent["signature"] + 1
           /\ sig = "" /\ u.sig = "" => v.sent["signature"] = u.sent["signature"]
<1>1. ItemLane("reasoning") = "thinking"
  BY DEF ItemLane
<1>2. SignedAtEnd(u, "done", "reasoning", sig) <=> sig # "" \/ u.sig # ""
  BY DEF SignedAtEnd
<1>3. SentBy(u, v, "thinking", no, SignedAtEnd(u, "done", "reasoning", sig))
  BY <1>1 DEF ItemTaken
<1>4. \A t \in Tools : t \in Lanes /\ t # "thinking" /\ t # "signature"
  BY ToolsAreCalls DEF Words
<1>5. "thinking" \in Lanes /\ "text" \in Lanes /\ "signature" \in Lanes
  BY DEF Lanes
<1>6. v.sent["thinking"] = Thinking(u, no)
  BY <1>3, <1>5 DEF SentBy, Thinking
<1>7. v.sent["text"] = u.sent["text"] /\ \A t \in Tools : v.sent[t] = u.sent[t]
  BY <1>3, <1>4, <1>5 DEF SentBy
<1>8. /\ SignedAtEnd(u, "done", "reasoning", sig) => v.sent["signature"] = u.sent["signature"] + 1
      /\ ~SignedAtEnd(u, "done", "reasoning", sig) => v.sent["signature"] = u.sent["signature"]
  BY <1>3, <1>5 DEF SentBy
<1> QED
  BY <1>2, <1>6, <1>7, <1>8

LEMMA ThoughtDoneKeeps ==
    ASSUME NEW u, NEW h, NEW c, CodexGemini(u, h, c), u.ended = "",
           NEW no, MayFollow(u, "thinking", no), NEW sig \in Closings, NEW v, ItemTaken(u, v, "done", "reasoning", no, sig),
           NEW d, d = Thinks(c, ThoughtPieces(u, no))
    PROVE  CodexGemini(v, h, IF sig = "" THEN d ELSE part_signature(d))
<1>1. /\ u \in Upstreams /\ Since(u) /\ c \in GeminiClients /\ h \in BOOLEAN
      /\ h => u.sent["text"] # 0
      /\ \A x \in Spoken \ u.odd : c.got[x] = u.sent[x]
  BY DEF CodexGemini, GeminiHeard
<1>2. PICK f : f = IF sig = "" THEN d ELSE part_signature(d)
  OBVIOUS
<1>3. /\ FollowsOn(c, d, "thinking")
      /\ Fresh(u) /\ c.got["thinking"] = u.sent["thinking"] => d.got["thinking"] = Thinking(u, no)
  BY <1>1, ThoughtHeard
<1>4. d \in GeminiClients
  BY <1>3 DEF FollowsOn, Follows
<1>5. FollowsOn(d, f, "signature") /\ (sig # "" => f.got["signature"] = Awaited(d, "signature")) /\ (sig = "" => f = d)
  <2>1. CASE sig = ""
    BY <1>2, <1>4, <2>1, SameFollowsOn
  <2>2. CASE sig # ""
    <3>1. HeardNext(d, f, "signature", Awaited(d, "signature"), Awaited(d, "signature"))
      BY <1>2, <1>4, <2>2, GeminiSignature
    <3> QED
      BY <2>2, <3>1, HeardFollowsOn DEF HeardNext, Spoken
  <2> QED
    BY <2>1, <2>2
<1>6. /\ v.sent["thinking"] = Thinking(u, no)
      /\ v.sent["text"] = u.sent["text"]
      /\ \A t \in Tools : v.sent[t] = u.sent[t]
      /\ sig # "" \/ u.sig # "" => v.sent["signature"] = u.sent["signature"] + 1
      /\ sig = "" /\ u.sig = "" => v.sent["signature"] = u.sent["signature"]
  BY <1>1, SentAtEnd
<1>7. v.odd = u.odd \cup {ch \in {"thinking"} : u.sent["thinking"] > u.since} \cup {ch \in {"signature"} : u.sig # "" /\ sig = ""}
  BY DEF ItemTaken, OddItem
<1>8. Follows(c, f)
  BY <1>3, <1>5, FollowsTwice DEF FollowsOn
<1>9. f.got["thinking"] = d.got["thinking"] /\ f.got["text"] = c.got["text"] /\ d.got["signature"] = c.got["signature"]
  BY <1>3, <1>5 DEF FollowsOn, Spoken
<1>10. ASSUME "thinking" \notin v.odd
       PROVE  f.got["thinking"] = v.sent["thinking"]
  <2>1. ~(u.sent["thinking"] > u.since) /\ "thinking" \notin u.odd
    BY <1>7, <1>10
  <2>2. Fresh(u)
    BY <1>1, <2>1, OldOrFresh
  <2>3. c.got["thinking"] = u.sent["thinking"]
    BY <1>1, <2>1 DEF Spoken
  <2> QED
    BY <1>3, <1>6, <1>9, <2>2, <2>3
<1>11. ASSUME "signature" \notin v.odd
       PROVE  f.got["signature"] = v.sent["signature"]
  <2>1. (u.sig # "" => sig # "") /\ "signature" \notin u.odd
    BY <1>7, <1>11
  <2>2. c.got["signature"] = u.sent["signature"]
    BY <1>1, <2>1 DEF Spoken
  <2>3. CASE sig = ""
    BY <1>5, <1>6, <1>9, <2>1, <2>2, <2>3
  <2>4. CASE sig # ""
    BY <1>5, <1>6, <1>9, <2>2, <2>4 DEF Awaited
  <2> QED
    BY <2>3, <2>4
<1>12. ASSUME "text" \notin v.odd
       PROVE  f.got["text"] = v.sent["text"]
  BY <1>1, <1>6, <1>7, <1>9, <1>12 DEF Spoken
<1>13. Since(v)
  <2>1. v.since = u.since
    BY DEF ItemTaken
  <2>2. CASE no = 0
    BY <1>1, <1>6, <2>1, <2>2, SinceStill DEF Thinking
  <2>3. CASE no # 0
    BY <1>1, <1>6, <2>1, <2>3, SinceMore DEF Thinking, MayFollow
  <2> QED
    BY <2>2, <2>3
<1>14. /\ v \in Upstreams /\ v.at \in Ats /\ v.begun = u.begun /\ v.closed = u.closed /\ v.ended = u.ended /\ u.odd \subseteq v.odd
  <2>1. "reasoning" \notin Tools
    BY ToolsAreCalls DEF Words
  <2> QED
    BY <2>1 DEF ItemTaken
<1>15. Spoke(u, v, h, c, f)
  BY <1>1, <1>6, <1>8, <1>10, <1>11, <1>12, <1>13, <1>14 DEF Spoke, Spoken
<1> QED
  BY <1>2, <1>15, SpokeKeeps

\* The answer is complete, and may list calls of which nothing was done.
Concludes(u, v, listed) ==
    /\ v \in Upstreams /\ v.at = u.at /\ v.since = u.since /\ v.ended = "end"
    /\ v.begun = u.begun \cup listed
    /\ v.closed = u.closed \cup listed
    /\ v.odd = u.odd \cup (listed \ u.closed)
    /\ listed \subseteq Tools /\ (u.begun \subseteq u.closed \/ u.begun \subseteq listed)
    /\ \A x \in Lanes \ (listed \ u.begun) : v.sent[x] = u.sent[x]

LEMMA CutIsReason ==
    ASSUME NEW cut \in Cuts \cup {""}
    PROVE  CodexGeminiFinishReason(cut) \in GeminiReasons
BY DEF Cuts, CodexGeminiFinishReason, GeminiReasons

LEMMA CompletedAfter ==
    ASSUME NEW u \in Upstreams, NEW e, Ends(u, e)
    PROVE  \E listed : Concludes(u, CodexAfter(u, e, "gemini"), listed)
<1>0. PICK v : v = CodexAfter(u, e, "gemini")
  OBVIOUS
<1> DEFINE listed == DOMAIN e.listed
           sent == [ch \in Lanes |-> IF ch \in listed THEN e.listed[ch] ELSE u.sent[ch]]
           odd == {t \in listed : t \notin u.closed}
<1>1. e.type \in Terminals
  BY DEF Ends
<1>2. Odd(u, e, "gemini") = odd
  <2>1. Odd(u, e, "gemini") = {t \in DOMAIN e.listed :
                                 CASE "gemini" = "openai" -> t \notin u.begun
                                   [] "gemini" = "gemini" -> t \notin u.closed
                                   [] OTHER -> FALSE}
                              \cup {x \in {"cut short"} : "gemini" = "openai" /\ e.cut # ""}
    BY <1>1 DEF Odd, Terminals
  <2>2. \A t : (CASE "gemini" = "openai" -> t \notin u.begun
                  [] "gemini" = "gemini" -> t \notin u.closed
                  [] OTHER -> FALSE) <=> t \notin u.closed
    OBVIOUS
  <2>3. {x \in {"cut short"} : "gemini" = "openai" /\ e.cut # ""} = {}
    OBVIOUS
  <2> QED
    BY <2>1, <2>2, <2>3
<1>3. v = [u EXCEPT !.ended = "end", !.odd = u.odd \cup odd, !.begun = u.begun \cup listed, !.closed = u.closed \cup listed,
                    !.sent = sent]
  <2> HIDE DEF odd
  <2> QED
    BY <1>0, <1>1, <1>2 DEF CodexAfter, Upstreams, Terminals
<1>4. u.sent \in [Lanes -> Nat] /\ u.begun \subseteq Tools /\ u.closed \subseteq Tools /\ u.odd \subseteq Oddities
  BY DEF Upstreams
<1>5. /\ listed \subseteq Tools /\ (u.begun \subseteq u.closed \/ u.begun \subseteq listed)
      /\ \A t \in listed : e.listed[t] \in Nat /\ (t \in u.begun => e.listed[t] = u.sent[t])
  <2>1. CASE OpenCalls(u) = {} /\ e.listed = <<>>
    BY <2>1 DEF OpenCalls
  <2>2. ASSUME NEW new \in SUBSET (Tools \ u.begun),
               e.listed = [t \in u.begun \cup new |-> IF t \in new THEN 1 ELSE u.sent[t]]
        PROVE  /\ listed \subseteq Tools /\ u.begun \subseteq listed
               /\ \A t \in listed : e.listed[t] \in Nat /\ (t \in u.begun => e.listed[t] = u.sent[t])
    <3>1. listed = u.begun \cup new
      BY <2>2
    <3>2. \A t \in listed : e.listed[t] = IF t \in new THEN 1 ELSE u.sent[t]
      BY <2>2
    <3>3. \A t \in Tools : u.sent[t] \in Nat
      <4>1. Tools \subseteq Lanes
        BY DEF Lanes
      <4> QED
        BY <1>4, <4>1
    <3>4. \A t \in listed : t \in Tools /\ (t \in u.begun => t \notin new)
      BY <1>4, <3>1
    <3> QED
      BY <3>1, <3>2, <3>3, <3>4
  <2> QED
    BY <2>1, <2>2 DEF Ends
<1>6. sent \in [Lanes -> Nat]
  BY <1>4, <1>5
<1>7. \A x \in Lanes \ (listed \ u.begun) : sent[x] = u.sent[x]
  BY <1>5
<1>8. odd \subseteq Oddities /\ odd = listed \ u.closed
  <2>1. Tools \subseteq Oddities
    BY DEF Oddities, Lanes
  <2> QED
    BY <1>5, <2>1
<1>9. /\ v \in Upstreams /\ v.at = u.at /\ v.since = u.since /\ v.ended = "end"
      /\ v.begun = u.begun \cup listed /\ v.closed = u.closed \cup listed /\ v.odd = u.odd \cup odd /\ v.sent = sent
  <2> HIDE DEF sent, odd, listed
  <2> QED
    BY <1>3, <1>4, <1>5, <1>6, <1>8 DEF Upstreams
<1> HIDE DEF sent, odd, listed
<1>10. Concludes(u, v, listed)
  BY <1>5, <1>7, <1>8, <1>9 DEF Concludes
<1> QED
  BY <1>0, <1>10

LEMMA CompletedKeeps ==
    ASSUME NEW u, NEW h, NEW c, CodexGemini(u, h, c), u.ended = "", NEW v, NEW listed, Concludes(u, v, listed),
           NEW reason \in GeminiReasons
    PROVE  CodexGemini(v, h, finishReason(c, reason))
<1>1. PICK d : d = finishReason(c, reason)
  OBVIOUS
<1>2. u \in Upstreams /\ u.at \in Ats /\ Since(u) /\ c \in GeminiClients /\ h \in BOOLEAN
  BY DEF CodexGemini
<1>3. /\ d \in GeminiClients /\ d.phase = "stop" /\ d.announced = c.announced
      /\ d.early => c.early \/ c.phase = "stop"
      /\ d.fault = c.fault /\ d.torn = c.torn /\ d.got = c.got
  BY <1>1, <1>2, GeminiConcluded
<1>4. /\ v \in Upstreams /\ v.at = u.at /\ v.since = u.since /\ v.ended = "end"
      /\ v.begun = u.begun \cup listed
      /\ v.closed = u.closed \cup listed
      /\ v.odd = u.odd \cup (listed \ u.closed)
      /\ listed \subseteq Tools /\ (u.begun \subseteq u.closed \/ u.begun \subseteq listed)
      /\ \A x \in Lanes \ (listed \ u.begun) : v.sent[x] = u.sent[x]
  BY DEF Concludes
<1>5. c.announced = u.closed /\ u.closed \subseteq u.begun /\ ~c.fault /\ ~c.torn
      /\ (c.phase = "stop" => c.announced # {}) /\ (c.early => c.announced # {})
  BY DEF CodexGemini, GeminiShape
<1>6. v.begun \subseteq d.announced \cup v.odd
  BY <1>3, <1>4, <1>5
<1>7. GeminiShape(v, d)
  BY <1>3, <1>4, <1>5, <1>6 DEF GeminiShape
<1>8. Spoken \subseteq Lanes \ listed
  <2>1. Spoken \subseteq Lanes /\ Spoken \cap Tools = {}
    BY ToolsAreCalls DEF Spoken, Lanes, Words
  <2> QED
    BY <1>4, <2>1
<1>9. \A ch \in Spoken : v.sent[ch] = u.sent[ch]
  BY <1>4, <1>8
<1>10. Tools \subseteq Lanes
  BY DEF Lanes
<1>11. GeminiHeard(v, h, d)
  <2>1. /\ h => u.sent["text"] # 0
        /\ \A ch \in Spoken \ u.odd : c.got[ch] = u.sent[ch]
        /\ \A t \in c.announced : c.got[t] = u.sent[t]
        /\ \A t \in Tools \ c.announced : c.got[t] = 0
        /\ \A t \in Tools \ u.begun : u.sent[t] = 0
    BY DEF CodexGemini, GeminiHeard
  <2>2. \A t \in c.announced : v.sent[t] = u.sent[t]
    <3>1. c.announced \subseteq Tools
      BY <1>2 DEF GeminiClients
    <3> QED
      BY <1>4, <1>5, <1>10, <3>1
  <2>3. \A t \in Tools \ v.begun : v.sent[t] = u.sent[t] /\ t \notin u.begun
    BY <1>4, <1>10
  <2>4. h => v.sent["text"] # 0
    BY <1>9, <2>1 DEF Spoken
  <2>5. \A ch \in Spoken \ v.odd : d.got[ch] = v.sent[ch]
    <3>1. Spoken \ v.odd \subseteq Spoken \ u.odd
      BY <1>4
    <3>2. d.got = c.got
      BY <1>3
    <3> QED
      BY <1>9, <2>1, <3>1, <3>2
  <2>6. d.got = c.got /\ d.announced = c.announced
    BY <1>3
  <2> QED
    BY <2>1, <2>2, <2>3, <2>4, <2>5, <2>6 DEF GeminiHeard
<1>12. Since(v)
  BY <1>2, <1>4, <1>9, SinceStill DEF Spoken
<1> QED
  BY <1>1, <1>2, <1>3, <1>4, <1>7, <1>11, <1>12 DEF CodexGemini

\* An answer that is created, or fails.
LEMMA WordKeeps ==
    ASSUME NEW u, NEW h, NEW c, CodexGemini(u, h, c), u.ended = "", NEW type \in {"error", "failed", "created"}
    PROVE  CodexGemini(CodexAfter(u, Event(type, "", 0, ""), "gemini"), h, c)
<1>1. PICK v : v = CodexAfter(u, Event(type, "", 0, ""), "gemini")
  OBVIOUS
<1>2. u \in Upstreams /\ u.at \in Ats /\ Since(u)
  BY DEF CodexGemini
<1>3. v = IF type = "created" THEN [u EXCEPT !.finish = TRUE] ELSE [u EXCEPT !.ended = type]
  BY <1>1 DEF CodexAfter, Event, Terminals
<1>4. /\ v \in Upstreams /\ v.at = u.at /\ v.since = u.since /\ v.ended # "end" /\ v.begun = u.begun
      /\ v.closed = u.closed /\ v.odd = u.odd /\ v.sent = u.sent
  <2>1. CASE type = "created"
    BY <1>2, <1>3, <2>1 DEF Upstreams, CodexGemini
  <2>2. CASE type # "created"
    BY <1>2, <1>3, <2>2 DEF Upstreams
  <2> QED
    BY <2>1, <2>2
<1>5. Since(v)
  BY <1>2, <1>4, SinceStill
<1>6. u.begun \subseteq Tools /\ (h => u.sent["text"] # 0)
  BY <1>2 DEF Upstreams, CodexGemini, GeminiHeard
<1>7. Quiet(u, h, v)
  BY <1>2, <1>4, <1>5, <1>6 DEF Quiet
<1> QED
  BY <1>1, <1>7, QuietKeeps

-------------------------------------------------------------------------------
(* The translator.                                                         *)

Hearing(h, c) == [p |-> [HasOutputTextDelta |-> h], c |-> c]

LEMMA HearingParts ==
    ASSUME NEW h, NEW c
    PROVE  Hearing(h, c).c = c /\ Hearing(h, c).p.HasOutputTextDelta = h
BY DEF Hearing

LEMMA HearingClient ==
    ASSUME NEW h, NEW c, NEW d
    PROVE  [Hearing(h, c) EXCEPT !.c = d] = Hearing(h, d)
BY DEF Hearing

LEMMA HearingText ==
    ASSUME NEW h \in BOOLEAN, NEW c, NEW d
    PROVE  [p |-> [Hearing(h, c).p EXCEPT !.HasOutputTextDelta = TRUE], c |-> d] = Hearing(TRUE, d)
<1>1. PICK q : q = [HasOutputTextDelta |-> h]
  OBVIOUS
<1>2. q \in [{"HasOutputTextDelta"} -> BOOLEAN]
  BY <1>1
<1>3. PICK r : r = [q EXCEPT !.HasOutputTextDelta = TRUE]
  OBVIOUS
<1>4. r \in [{"HasOutputTextDelta"} -> BOOLEAN] /\ r.HasOutputTextDelta = TRUE
  BY <1>2, <1>3
<1>5. r = [HasOutputTextDelta |-> TRUE]
  BY <1>4
<1>6. Hearing(h, c).p = q
  BY <1>1 DEF Hearing
<1> QED
  BY <1>3, <1>5, <1>6 DEF Hearing

\* What the translator makes of an event.
Makes(s, e, text, r) == ConvertCodexResponseToGemini(s, e, text) = r

LEMMA ConvertText ==
    ASSUME NEW h \in BOOLEAN, NEW c, NEW no, NEW text, NEW e, e = Event("delta", "text", no, "")
    PROVE  Makes(Hearing(h, c), e, text, Hearing(TRUE, part_text(c, "text", no, no)))
<1>1. e.type = "delta" /\ e.item = "text" /\ e.no = no
  BY DEF Event
<1>2. PICK s : s = Hearing(h, c)
  OBVIOUS
<1>3. PICK d : d = part_text(c, "text", no, no)
  OBVIOUS
<1>4. s.c = c
  BY <1>2, HearingParts
<1>5. [p |-> [s.p EXCEPT !.HasOutputTextDelta = TRUE], c |-> d] = Hearing(TRUE, d)
  BY <1>2, HearingText
<1>6. ConvertCodexResponseToGemini(s, e, text)
        = [p |-> [s.p EXCEPT !.HasOutputTextDelta = TRUE], c |-> part_text(s.c, "text", e.no, e.no)]
  BY <1>1 DEF ConvertCodexResponseToGemini, Terminals
<1>7. part_text(s.c, "text", e.no, e.no) = d
  BY <1>1, <1>3, <1>4
<1> QED
  BY <1>2, <1>3, <1>5, <1>6, <1>7 DEF Makes

LEMMA ConvertThinking ==
    ASSUME NEW h, NEW c, NEW no, NEW text, NEW e, e = Event("delta", "thinking", no, "")
    PROVE  Makes(Hearing(h, c), e, text, Hearing(h, part_text(c, "thinking", no, no)))
<1>1. e.type = "delta" /\ e.item = "thinking" /\ e.no = no
  BY DEF Event
<1>2. PICK s : s = Hearing(h, c)
  OBVIOUS
<1>3. PICK d : d = part_text(c, "thinking", no, no)
  OBVIOUS
<1>4. s.c = c
  BY <1>2, HearingParts
<1>5. [s EXCEPT !.c = d] = Hearing(h, d)
  BY <1>2, HearingClient
<1>6. ConvertCodexResponseToGemini(s, e, text) = [s EXCEPT !.c = part_text(s.c, "thinking", e.no, e.no)]
  BY <1>1 DEF ConvertCodexResponseToGemini, Terminals
<1>7. part_text(s.c, "thinking", e.no, e.no) = d
  BY <1>1, <1>3, <1>4
<1> QED
  BY <1>2, <1>3, <1>5, <1>6, <1>7 DEF Makes

LEMMA ConvertCallDone ==
    ASSUME NEW h, NEW c, NEW t \in Tools, NEW no, NEW text, NEW e, e = Event("done", t, no, "")
    PROVE  Makes(Hearing(h, c), e, text, Hearing(h, finishReason(functionCall(c, t, no), "STOP")))
<1>1. e.type = "done" /\ e.item = t /\ e.no = no
  BY DEF Event
<1>2. PICK s : s = Hearing(h, c)
  OBVIOUS
<1>3. PICK d : d = finishReason(functionCall(c, t, no), "STOP")
  OBVIOUS
<1>4. s.c = c
  BY <1>2, HearingParts
<1>5. [s EXCEPT !.c = d] = Hearing(h, d)
  BY <1>2, HearingClient
<1>6. PICK x : x = [s EXCEPT !.c = finishReason(functionCall(s.c, e.item, e.no), "STOP")]
  OBVIOUS
<1>7. e.type # "delta" /\ e.item \in Tools
  BY <1>1
<1>8. e.item # "reasoning" /\ e.item # "message" /\ e.type \notin Terminals
  BY <1>1, ToolsAreCalls DEF Words, Terminals
<1>9. ConvertCodexResponseToGemini(s, e, text) = x
  BY <1>1, <1>6, <1>7, <1>8 DEF ConvertCodexResponseToGemini
<1>10. x = [s EXCEPT !.c = d]
  BY <1>1, <1>3, <1>4, <1>6
<1> QED
  BY <1>2, <1>3, <1>5, <1>9, <1>10 DEF Makes

LEMMA ConvertThoughtDone ==
    ASSUME NEW h, NEW c, NEW no, NEW sig, NEW text, NEW e, e = Event("done", "reasoning", no, sig)
    PROVE  Makes(Hearing(h, c), e, text, Hearing(h, IF sig = "" THEN Thinks(c, text) ELSE part_signature(Thinks(c, text))))
<1>1. e.type = "done" /\ e.item = "reasoning" /\ e.sig = sig
  BY DEF Event
<1>2. PICK s : s = Hearing(h, c)
  OBVIOUS
<1>3. PICK d : d = IF sig = "" THEN Thinks(c, text) ELSE part_signature(Thinks(c, text))
  OBVIOUS
<1>4. s.c = c
  BY <1>2, HearingParts
<1>5. [s EXCEPT !.c = d] = Hearing(h, d)
  BY <1>2, HearingClient
<1>6. "reasoning" \notin Tools
  BY ToolsAreCalls DEF Words
<1>7. ConvertCodexResponseToGemini(s, e, text) = ThoughtDone(s, e, text)
  BY <1>1, <1>6 DEF ConvertCodexResponseToGemini, Terminals
<1>8. ThoughtDone(s, e, text) = [s EXCEPT !.c = IF sig = "" THEN Thinks(s.c, text) ELSE part_signature(Thinks(s.c, text))]
  BY <1>1 DEF ThoughtDone, Thinks
<1> QED
  BY <1>2, <1>3, <1>4, <1>5, <1>7, <1>8 DEF Makes

LEMMA ConvertMessage ==
    ASSUME NEW h \in BOOLEAN, NEW c, NEW no, NEW text, NEW e, e = Event("done", "message", no, "")
    PROVE  /\ no = 0 \/ h => Makes(Hearing(h, c), e, text, Hearing(h, c))
           /\ ~(no = 0 \/ h) => Makes(Hearing(h, c), e, text, Hearing(TRUE, part_text(c, "text", no, no)))
<1>1. e.type = "done" /\ e.item = "message" /\ e.no = no
  BY DEF Event
<1>2. PICK s : s = Hearing(h, c)
  OBVIOUS
<1>3. PICK d : d = part_text(c, "text", no, no)
  OBVIOUS
<1>4. s.c = c /\ s.p.HasOutputTextDelta = h
  BY <1>2, HearingParts
<1>5. [p |-> [s.p EXCEPT !.HasOutputTextDelta = TRUE], c |-> d] = Hearing(TRUE, d)
  BY <1>2, HearingText
<1>6. "message" \notin Tools
  BY ToolsAreCalls DEF Words
<1>7. ConvertCodexResponseToGemini(s, e, text) = WholeMessage(s, e)
  BY <1>1, <1>6 DEF ConvertCodexResponseToGemini, Terminals
<1>8. /\ no = 0 \/ h => WholeMessage(s, e) = s
      /\ ~(no = 0 \/ h) => WholeMessage(s, e) = [p |-> [s.p EXCEPT !.HasOutputTextDelta = TRUE], c |-> d]
  BY <1>1, <1>3, <1>4 DEF WholeMessage
<1> QED
  BY <1>2, <1>3, <1>5, <1>7, <1>8 DEF Makes

LEMMA ConvertQuiet ==
    ASSUME NEW s, NEW type \in Types, NEW item \in Items, NEW no, NEW sig, NEW text, NEW e, e = Event(type, item, no, sig),
           type = "delta" => item \in Tools, type = "done" => item = "search"
    PROVE  Makes(s, e, text, s)
<1>2. e.type = type /\ e.item = item
  BY DEF Event
<1>3. \A t \in Tools : t \notin {"text", "thinking", "search"}
  BY ToolsAreCalls DEF Words
<1>4. type \notin Terminals
  BY DEF Types, Terminals
<1>5. ConvertCodexResponseToGemini(s, e, text) = s
  BY <1>2, <1>3, <1>4 DEF ConvertCodexResponseToGemini
<1> QED
  BY <1>5 DEF Makes

LEMMA ConvertWord ==
    ASSUME NEW s, NEW type \in {"error", "failed", "created"}, NEW text, NEW e, e = Event(type, "", 0, "")
    PROVE  Makes(s, e, text, s)
BY DEF ConvertCodexResponseToGemini, Event, Makes, Terminals

LEMMA ConvertCompleted ==
    ASSUME NEW h, NEW c, NEW e, e.type \in Terminals, NEW text
    PROVE  Makes(Hearing(h, c), e, text, Hearing(h, finishReason(c, CodexGeminiFinishReason(e.cut))))
<1>1. PICK s : s = Hearing(h, c)
  OBVIOUS
<1>2. PICK d : d = finishReason(c, CodexGeminiFinishReason(e.cut))
  OBVIOUS
<1>3. s.c = c
  BY <1>1, HearingParts
<1>4. [s EXCEPT !.c = d] = Hearing(h, d)
  BY <1>1, HearingClient
<1>5. ConvertCodexResponseToGemini(s, e, text) = [s EXCEPT !.c = finishReason(s.c, CodexGeminiFinishReason(e.cut))]
  <2>1. e.type # "delta" /\ e.type # "done"
    BY DEF Terminals
  <2> QED
    BY <2>1 DEF ConvertCodexResponseToGemini
<1> QED
  BY <1>1, <1>2, <1>3, <1>4, <1>5 DEF Makes

\* What every event has to come to.
CodexGeminiStep(u, h, c, e) ==
    \E g, d : /\ Makes(Hearing(h, c), e, ThoughtText(u, e), Hearing(g, d))
              /\ CodexGemini(CodexAfter(u, e, "gemini"), g, d)


LEMMA QuietStep ==
    ASSUME NEW u, NEW h, NEW c, CodexGemini(u, h, c), u.ended = "",
           NEW type \in Types, NEW item \in Items, NEW no \in Nat, NEW sig \in {"", "early", "final"},
           type = "done" => item = "search" \/ (item = "message" /\ no = 0 /\ sig = ""),
           type = "delta" => item \in Tools,
           no # 0 => item = "search" \/ item \in Tools \ u.closed
    PROVE  CodexGeminiStep(u, h, c, Event(type, item, no, sig))
<1>1. PICK e : e = Event(type, item, no, sig)
  OBVIOUS
<1>2. u \in Upstreams /\ u.at \in Ats /\ h \in BOOLEAN
  BY DEF CodexGemini
<1>3. ItemTaken(u, CodexAfter(u, e, "gemini"), type, item, no, sig)
  BY <1>1, <1>2, ItemAfter
<1>4. CodexGemini(CodexAfter(u, e, "gemini"), h, c)
  BY <1>3, QuietItem
<1>5. Makes(Hearing(h, c), e, ThoughtText(u, e), Hearing(h, c))
  <2>1. CASE type = "done" /\ item = "message"
    <3>1. no = 0 /\ e = Event("done", "message", no, "")
      BY <1>1, <2>1
    <3> QED
      BY <1>2, <3>1, ConvertMessage
  <2>2. CASE ~(type = "done" /\ item = "message")
    <3>1. (type = "delta" => item \in Tools) /\ (type = "done" => item = "search")
      BY <2>2
    <3> QED
      BY <1>1, <3>1, ConvertQuiet
  <2> QED
    BY <2>1, <2>2
<1> QED
  BY <1>1, <1>4, <1>5 DEF CodexGeminiStep

LEMMA SpeechStep ==
    ASSUME NEW u, NEW h, NEW c, CodexGemini(u, h, c), u.ended = "", NEW ch \in {"text", "thinking"},
           NEW no, Following(u, ch, no)
    PROVE  CodexGeminiStep(u, h, c, Event("delta", ch, no, ""))
<1>1. PICK e : e = Event("delta", ch, no, "")
  OBVIOUS
<1>2. u \in Upstreams /\ u.at \in Ats /\ h \in BOOLEAN /\ c \in GeminiClients
  BY DEF CodexGemini
<1>3. no \in Nat
  BY DEF Following, IsPiece
<1>4. PICK v : v = CodexAfter(u, e, "gemini")
  OBVIOUS
<1>5. ItemTaken(u, v, "delta", ch, no, "")
  <2>1. "delta" \in Types /\ ch \in Items
    BY DEF Types, Items
  <2> QED
    BY <1>1, <1>2, <1>3, <1>4, <2>1, ItemAfter
<1>6. ItemLane(ch) = ch
  BY DEF ItemLane
<1>7. Speech(u, v, ch, no)
  BY <1>2, <1>5, <1>6, SpeechOfItem
<1>8. PICK d : d = part_text(c, ch, no, no)
  OBVIOUS
<1>9. HeardNext(c, d, ch, no, no)
  BY <1>2, <1>3, <1>8, GeminiText
<1>10. PICK g \in BOOLEAN : g = (h \/ ch = "text")
  OBVIOUS
<1>11. CodexGemini(v, g, d)
  BY <1>7, <1>9, <1>10, SpeechKeeps
<1>12. Makes(Hearing(h, c), e, ThoughtText(u, e), Hearing(g, d))
  <2>2. CASE ch = "text"
    <3>1. g = TRUE
      BY <1>10, <2>2
    <3>2. Makes(Hearing(h, c), e, ThoughtText(u, e), Hearing(TRUE, part_text(c, "text", no, no)))
      BY <1>1, <1>2, <2>2, ConvertText
    <3> QED
      BY <1>8, <2>2, <3>1, <3>2
  <2>3. CASE ch = "thinking"
    <3>1. g = h
      BY <1>2, <1>10, <2>3
    <3>2. Makes(Hearing(h, c), e, ThoughtText(u, e), Hearing(h, part_text(c, "thinking", no, no)))
      BY <1>1, <2>3, ConvertThinking
    <3> QED
      BY <1>8, <2>3, <3>1, <3>2
  <2> QED
    BY <2>2, <2>3
<1> QED
  BY <1>1, <1>4, <1>11, <1>12 DEF CodexGeminiStep

LEMMA MessageStep ==
    ASSUME NEW u, NEW h, NEW c, CodexGemini(u, h, c), u.ended = "", NEW no, Following(u, "text", no)
    PROVE  CodexGeminiStep(u, h, c, Event("done", "message", no, ""))
<1>1. PICK e : e = Event("done", "message", no, "")
  OBVIOUS
<1>2. u \in Upstreams /\ u.at \in Ats /\ h \in BOOLEAN /\ c \in GeminiClients
  BY DEF CodexGemini
<1>3. no \in Nat /\ no # 0
  BY DEF Following, IsPiece
<1>4. PICK v : v = CodexAfter(u, e, "gemini")
  OBVIOUS
<1>5. "done" \in Types /\ "message" \in Items
  BY DEF Types, Items
<1>6. ItemTaken(u, v, "done", "message", no, "")
  BY <1>1, <1>2, <1>3, <1>4, <1>5, ItemAfter
<1>7. /\ h => Makes(Hearing(h, c), e, ThoughtText(u, e), Hearing(h, c))
      /\ ~h => Makes(Hearing(h, c), e, ThoughtText(u, e), Hearing(TRUE, part_text(c, "text", no, no)))
  BY <1>1, <1>2, <1>3, ConvertMessage
<1>8. CASE h
  <2>1. CodexGemini(u, TRUE, c) /\ h = TRUE
    BY <1>2, <1>8
  <2>2. CodexGemini(v, TRUE, c)
    BY <1>6, <2>1, LateMessage
  <2> QED
    BY <1>1, <1>4, <1>7, <1>8, <2>1, <2>2 DEF CodexGeminiStep
<1>9. CASE ~h
  <2>1. ItemLane("message") = "text"
    BY DEF ItemLane
  <2>2. Speech(u, v, "text", no)
    BY <1>2, <1>6, <2>1, SpeechOfItem
  <2>3. PICK d : d = part_text(c, "text", no, no)
    OBVIOUS
  <2>4. HeardNext(c, d, "text", no, no)
    BY <1>2, <1>3, <2>3, GeminiText
  <2>5. CodexGemini(v, TRUE, d)
    BY <2>2, <2>4, SpeechKeeps
  <2> QED
    BY <1>1, <1>3, <1>4, <1>7, <1>9, <2>3, <2>5 DEF CodexGeminiStep
<1> QED
  BY <1>8, <1>9

LEMMA CallDoneStep ==
    ASSUME NEW u, NEW h, NEW c, CodexGemini(u, h, c), u.ended = "", NEW t \in Tools \ u.closed, NEW no, NoLess(u, t, no)
    PROVE  CodexGeminiStep(u, h, c, Event("done", t, no, ""))
<1>1. PICK e : e = Event("done", t, no, "")
  OBVIOUS
<1>2. u \in Upstreams /\ u.at \in Ats /\ h \in BOOLEAN /\ c \in GeminiClients
  BY DEF CodexGemini
<1>3. no \in Nat
  BY DEF NoLess
<1>4. PICK v : v = CodexAfter(u, e, "gemini")
  OBVIOUS
<1>5. "done" \in Types /\ t \in Items
  BY DEF Types, Items
<1>6. ItemTaken(u, v, "done", t, no, "")
  BY <1>1, <1>2, <1>3, <1>4, <1>5, ItemAfter
<1>7. PICK d : d = finishReason(functionCall(c, t, no), "STOP")
  OBVIOUS
<1>8. Called(c, d, t, no)
  BY <1>2, <1>3, <1>7, GeminiCall
<1>9. CodexGemini(v, h, d)
  BY <1>6, <1>8, CallDoneKeeps
<1>10. Makes(Hearing(h, c), e, ThoughtText(u, e), Hearing(h, d))
  BY <1>1, <1>7, ConvertCallDone
<1> QED
  BY <1>1, <1>4, <1>9, <1>10 DEF CodexGeminiStep

LEMMA ThoughtDoneStep ==
    ASSUME NEW u, NEW h, NEW c, CodexGemini(u, h, c), u.ended = "", NEW no, MayFollow(u, "thinking", no), NEW sig \in Closings
    PROVE  CodexGeminiStep(u, h, c, Event("done", "reasoning", no, sig))
<1>1. PICK e : e = Event("done", "reasoning", no, sig)
  OBVIOUS
<1>2. u \in Upstreams /\ u.at \in Ats /\ h \in BOOLEAN
  BY DEF CodexGemini
<1>3. no \in Nat /\ sig \in {"", "early", "final"}
  <2>1. CASE no = 0
    BY <2>1 DEF Closings
  <2>2. CASE Following(u, "thinking", no)
    BY <2>2 DEF Following, IsPiece, Closings
  <2> QED
    BY <2>1, <2>2 DEF MayFollow
<1>4. PICK v : v = CodexAfter(u, e, "gemini")
  OBVIOUS
<1>5. "done" \in Types /\ "reasoning" \in Items
  BY DEF Types, Items
<1>6. ItemTaken(u, v, "done", "reasoning", no, sig)
  BY <1>1, <1>2, <1>3, <1>4, <1>5, ItemAfter
<1>7. ThoughtText(u, e) = ThoughtPieces(u, no)
  <2>1. e.type = "done" /\ e.item = "reasoning" /\ e.no = no
    BY <1>1 DEF Event
  <2>2. no > 0 <=> no # 0
    BY <1>3, OneMore
  <2> QED
    BY <2>1, <2>2 DEF ThoughtText, ThoughtPieces, Thinking
<1>8. PICK d : d = Thinks(c, ThoughtPieces(u, no))
  OBVIOUS
<1>9. CodexGemini(v, h, IF sig = "" THEN d ELSE part_signature(d))
  BY <1>6, <1>8, ThoughtDoneKeeps
<1>10. Makes(Hearing(h, c), e, ThoughtText(u, e), Hearing(h, IF sig = "" THEN d ELSE part_signature(d)))
  BY <1>1, <1>7, <1>8, ConvertThoughtDone
<1> QED
  BY <1>1, <1>4, <1>9, <1>10 DEF CodexGeminiStep

LEMMA CompletedStep ==
    ASSUME NEW u, NEW h, NEW c, CodexGemini(u, h, c), u.ended = "", NEW e, Ends(u, e)
    PROVE  CodexGeminiStep(u, h, c, e)
<1>1. u \in Upstreams
  BY DEF CodexGemini
<1>2. PICK v : v = CodexAfter(u, e, "gemini")
  OBVIOUS
<1>3. PICK listed : Concludes(u, v, listed)
  BY <1>1, <1>2, CompletedAfter
<1>r. e.type \in Terminals /\ CodexGeminiFinishReason(e.cut) \in GeminiReasons
  BY CutIsReason DEF Ends
<1>4. CodexGemini(v, h, finishReason(c, CodexGeminiFinishReason(e.cut)))
  BY <1>3, <1>r, CompletedKeeps
<1>5. e.type \in Terminals
  BY <1>r
<1> QED
  BY <1>2, <1>4, <1>5, ConvertCompleted DEF CodexGeminiStep

LEMMA WordStep ==
    ASSUME NEW u, NEW h, NEW c, CodexGemini(u, h, c), u.ended = "", NEW type \in {"error", "failed", "created"}
    PROVE  CodexGeminiStep(u, h, c, Event(type, "", 0, ""))
<1>1. PICK e : e = Event(type, "", 0, "")
  OBVIOUS
<1>2. CodexGemini(CodexAfter(u, e, "gemini"), h, c)
  BY <1>1, WordKeeps
<1>3. Makes(Hearing(h, c), e, ThoughtText(u, e), Hearing(h, c))
  BY <1>1, ConvertWord
<1> QED
  BY <1>1, <1>2, <1>3 DEF CodexGeminiStep

LEMMA CodexGeminiEvent ==
    ASSUME NEW u, NEW h, NEW c, CodexGemini(u, h, c), NEW e \in CodexOffers(u)
    PROVE  CodexGeminiStep(u, h, c, e)
<1>1. u \in Upstreams /\ u.at \in {"", "reasoning", "message"} /\ u.closed \subseteq u.begun
  BY DEF CodexGemini, Ats, GeminiShape
<1>2. /\ u.ended = ""
      /\ \/ AboutCall(u, e) \/ NewItem(u, e) \/ InReasoning(u, e) \/ InMessage(u, e) \/ Ends(u, e)
         \/ \E type \in {"error", "failed", "created"} : e = Event(type, "", 0, "")
  BY <1>1, CodexOffersKinds
<1>3. /\ {"added", "part", "partdone", "delta", "argsdone", "done"} \subseteq Types
      /\ {"reasoning", "message", "search"} \subseteq Items /\ Tools \subseteq Items
  BY DEF Types, Items
<1>4. CASE AboutCall(u, e)
  <2>1. PICK t \in OpenCalls(u) : \E no : e.no = no /\ NoLess(u, t, no) /\
            \/ e = Event("delta", t, no, "") /\ no # 0
            \/ e = Event("argsdone", t, no, "")
            \/ e = Event("done", t, no, "")
    BY <1>4 DEF AboutCall
  <2>2. PICK no : NoLess(u, t, no) /\
            \/ e = Event("delta", t, no, "")
            \/ e = Event("argsdone", t, no, "")
            \/ e = Event("done", t, no, "")
    BY <2>1
  <2>3. t \in Tools \ u.closed /\ no \in Nat
    BY <1>1, <2>2 DEF OpenCalls, Upstreams, NoLess
  <2>4. CASE e = Event("done", t, no, "")
    BY <1>2, <2>2, <2>3, <2>4, CallDoneStep
  <2>5. ASSUME NEW type \in {"delta", "argsdone"}, e = Event(type, t, no, "")
        PROVE  CodexGeminiStep(u, h, c, e)
    <3>1. type \in Types /\ type # "done" /\ t \in Items
      BY <1>3, <2>3
    <3> QED
      BY <1>2, <2>3, <2>5, <3>1, QuietStep
  <2> QED
    BY <2>2, <2>4, <2>5
<1>5. CASE NewItem(u, e)
  <2>1. ASSUME NEW sig \in {"", "early"}, e = Event("added", "reasoning", 0, sig)
        PROVE  CodexGeminiStep(u, h, c, e)
    BY <1>2, <1>3, <2>1, QuietStep
  <2>2. CASE e = Event("added", "message", 0, "")
    BY <1>2, <1>3, <2>2, QuietStep
  <2>3. ASSUME NEW no, Following(u, "search", no), e = Event("done", "search", no, "")
        PROVE  CodexGeminiStep(u, h, c, e)
    <3>1. no \in Nat
      BY <2>3 DEF Following, IsPiece
    <3> QED
      BY <1>2, <1>3, <2>3, <3>1, QuietStep
  <2>4. ASSUME NEW t \in Tools \ u.begun, e = Event("added", t, 0, "")
        PROVE  CodexGeminiStep(u, h, c, e)
    BY <1>2, <1>3, <2>4, QuietStep
  <2>5. ASSUME NEW t \in Tools \ u.begun, e = Event("done", t, 1, "")
        PROVE  CodexGeminiStep(u, h, c, e)
    <3>1. t \in Tools \ u.closed
      BY <1>1
    <3>2. NoLess(u, t, 1)
      BY DEF NoLess
    <3> QED
      BY <1>2, <2>5, <3>1, <3>2, CallDoneStep
  <2> QED
    BY <1>5, <2>1, <2>2, <2>3, <2>4, <2>5 DEF NewItem
<1>6. CASE InReasoning(u, e)
  <2>1. CASE e = Event("part", "reasoning", 0, "")
    BY <1>2, <1>3, <2>1, QuietStep
  <2>2. ASSUME NEW no, Following(u, "thinking", no), e = Event("delta", "thinking", no, "")
        PROVE  CodexGeminiStep(u, h, c, e)
    BY <1>2, <2>2, SpeechStep
  <2>3. ASSUME NEW no, MayFollow(u, "thinking", no), NEW sig \in Closings, e = Event("done", "reasoning", no, sig)
        PROVE  CodexGeminiStep(u, h, c, e)
    BY <1>2, <2>3, ThoughtDoneStep
  <2> QED
    BY <1>6, <2>1, <2>2, <2>3 DEF InReasoning
<1>7. CASE InMessage(u, e)
  <2>1. ASSUME NEW type \in {"part", "partdone"}, e = Event(type, "message", 0, "")
        PROVE  CodexGeminiStep(u, h, c, e)
    BY <1>2, <1>3, <2>1, QuietStep
  <2>2. ASSUME NEW no, Following(u, "text", no), e = Event("delta", "text", no, "")
        PROVE  CodexGeminiStep(u, h, c, e)
    BY <1>2, <2>2, SpeechStep
  <2>3. ASSUME NEW no, Following(u, "text", no), e = Event("done", "message", no, "")
        PROVE  CodexGeminiStep(u, h, c, e)
    BY <1>2, <2>3, MessageStep
  <2>4. CASE e = Event("done", "message", 0, "")
    BY <1>2, <1>3, <2>4, QuietStep
  <2> QED
    BY <1>7, <2>1, <2>2, <2>3, <2>4 DEF InMessage, MayFollow
<1>8. CASE Ends(u, e)
  BY <1>2, <1>8, CompletedStep
<1>9. ASSUME NEW type \in {"error", "failed", "created"}, e = Event(type, "", 0, "")
      PROVE  CodexGeminiStep(u, h, c, e)
  BY <1>2, <1>9, WordStep
<1> QED
  BY <1>2, <1>4, <1>5, <1>6, <1>7, <1>8, <1>9

-------------------------------------------------------------------------------
(* Responses events on a channel of the OpenAI protocol.                 *)

OverChunks(b, h, c) ==
    [p |-> [response |-> b, chat |-> ConvertOpenAIResponseToGeminiParams, responses |-> [HasOutputTextDelta |-> h]], c |-> c]

OverParts(s, b, h, c) ==
    /\ s.p.response = b /\ s.c = c /\ s.p.chat = ConvertOpenAIResponseToGeminiParams
    /\ [p |-> s.p.responses, c |-> s.c] = Hearing(h, c)

LEMMA OverChunksParts ==
    ASSUME NEW b \in BOOLEAN, NEW h \in BOOLEAN, NEW c, NEW s, s = OverChunks(b, h, c)
    PROVE  OverParts(s, b, h, c)
BY DEF OverChunks, OverParts, Hearing

\* Nothing comes of it.
Stays(s) == ByChunks(s, [p |-> s.p.chat, c |-> s.c]) = s

LEMMA OverChunksStays ==
    ASSUME NEW b \in BOOLEAN, NEW h \in BOOLEAN, NEW c, NEW s, s = OverChunks(b, h, c)
    PROVE  Stays(s)
<1>1. PICK x : x = ConvertOpenAIResponseToGeminiParams
  OBVIOUS
<1>2. PICK y : y = [HasOutputTextDelta |-> h]
  OBVIOUS
<1>3. PICK q : q = [response |-> b, chat |-> x, responses |-> y]
  OBVIOUS
<1>4. q \in [response : BOOLEAN, chat : {x}, responses : {y}]
  BY <1>3
<1>5. [q EXCEPT !.chat = x] = q
  BY <1>3, <1>4
<1>6. s = [p |-> q, c |-> c]
  BY <1>1, <1>2, <1>3 DEF OverChunks
<1>7. q.chat = x
  BY <1>3
<1> QED
  BY <1>5, <1>6, <1>7 DEF ByChunks, Stays

\* A Responses event has been translated.
Turns(s, g, d) == ByResponses(s, Hearing(g, d)) = OverChunks(TRUE, g, d)

LEMMA OverChunksTurns ==
    ASSUME NEW b \in BOOLEAN, NEW h \in BOOLEAN, NEW c, NEW s, s = OverChunks(b, h, c), NEW g \in BOOLEAN, NEW d
    PROVE  Turns(s, g, d)
<1>1. PICK x : x = ConvertOpenAIResponseToGeminiParams
  OBVIOUS
<1>2. PICK y : y = [HasOutputTextDelta |-> h]
  OBVIOUS
<1>3. PICK z : z = [HasOutputTextDelta |-> g]
  OBVIOUS
<1>4. PICK q : q = [response |-> b, chat |-> x, responses |-> y]
  OBVIOUS
<1>5. q \in [response : BOOLEAN, chat : {x}, responses : {y, z}]
  BY <1>4
<1>6. PICK r : r = [q EXCEPT !.response = TRUE, !.responses = z]
  OBVIOUS
<1>7. r \in [response : BOOLEAN, chat : {x}, responses : {y, z}] /\ r.response = TRUE /\ r.responses = z
  BY <1>5, <1>6
<1>8. r = [response |-> TRUE, chat |-> x, responses |-> z]
  BY <1>7
<1>9. s.p = q
  BY <1>1, <1>2, <1>4 DEF OverChunks
<1>10. OverChunks(TRUE, g, d) = [p |-> r, c |-> d]
  BY <1>1, <1>3, <1>8 DEF OverChunks
<1>11. PICK k : k = Hearing(g, d)
  OBVIOUS
<1>12. k.p = z /\ k.c = d
  BY <1>3, <1>11 DEF Hearing
<1>13. ByResponses(s, k) = [p |-> r, c |-> d]
  BY <1>6, <1>9, <1>12 DEF ByResponses
<1> QED
  BY <1>10, <1>11, <1>13 DEF Turns

HasType(e, type) == e.type = type

LEMMA EventType ==
    ASSUME NEW type, NEW item, NEW no, NEW sig
    PROVE  HasType(Event(type, item, no, sig), type)
BY DEF Event, HasType

\* No Responses event is taken for a chunk but the bare error.
LEMMA CodexTypes ==
    ASSUME NEW u \in Upstreams, u.at \in {"", "reasoning", "message"}, NEW e \in CodexOffers(u)
    PROVE  e.type \notin {"chunk", "[DONE]"} /\ (e.type = "error" => e = Event("error", "", 0, ""))
<1>1. \/ AboutCall(u, e) \/ NewItem(u, e) \/ InReasoning(u, e) \/ InMessage(u, e) \/ Ends(u, e)
      \/ \E type \in {"error", "failed", "created"} : e = Event(type, "", 0, "")
  BY CodexOffersKinds
<1> DEFINE others == {"added", "part", "partdone", "delta", "argsdone", "done", "completed", "incomplete"}
<1>2. CASE AboutCall(u, e)
  <2>1. \E type \in others : HasType(e, type)
    BY <1>2, EventType, Zenon DEF AboutCall
  <2> QED
    BY <2>1 DEF HasType
<1>3. CASE NewItem(u, e)
  <2>1. HasType(e, "added") \/ HasType(e, "done")
    BY <1>3, EventType, Zenon DEF NewItem
  <2> QED
    BY <2>1 DEF HasType
<1>4. CASE InReasoning(u, e)
  <2>1. \E type \in others : HasType(e, type)
    BY <1>4, EventType, Zenon DEF InReasoning
  <2> QED
    BY <2>1 DEF HasType
<1>5. CASE InMessage(u, e)
  <2>1. \E type \in others : HasType(e, type)
    BY <1>5, EventType, Zenon DEF InMessage
  <2> QED
    BY <2>1 DEF HasType
<1>6. CASE Ends(u, e)
  BY <1>6 DEF Ends, Terminals
<1>7. ASSUME NEW type \in {"error", "failed", "created"}, e = Event(type, "", 0, "")
      PROVE  e.type \notin {"chunk", "[DONE]"} /\ (e.type = "error" => e = Event("error", "", 0, ""))
  <2>1. HasType(e, type)
    BY <1>7, EventType, Zenon
  <2> QED
    BY <1>7, <2>1 DEF HasType
<1> QED
  BY <1>1, <1>2, <1>3, <1>4, <1>5, <1>6, <1>7

CodexHeard(u, s) == \E h, c : s = Hearing(h, c) /\ CodexGemini(u, h, c)

ResponsesHeard(u, s) == \E b, h, c : b \in BOOLEAN /\ s = OverChunks(b, h, c) /\ CodexGemini(u, h, c)

LEMMA CodexHeardEvent ==
    ASSUME NEW u, NEW s, CodexHeard(u, s), NEW e \in CodexOffers(u)
    PROVE  CodexHeard(CodexAfter(u, e, "gemini"), ConvertCodexResponseToGemini(s, e, ThoughtText(u, e)))
<1>1. PICK h, c : s = Hearing(h, c) /\ CodexGemini(u, h, c)
  BY DEF CodexHeard
<1>2. CodexGeminiStep(u, h, c, e)
  BY <1>1, CodexGeminiEvent
<1>3. PICK g, d : /\ Makes(s, e, ThoughtText(u, e), Hearing(g, d))
                  /\ CodexGemini(CodexAfter(u, e, "gemini"), g, d)
  BY <1>1, <1>2 DEF CodexGeminiStep
<1> QED
  BY <1>3 DEF Makes, CodexHeard

LEMMA ResponsesHeardEvent ==
    ASSUME NEW u, NEW s, ResponsesHeard(u, s), NEW e \in CodexOffers(u)
    PROVE  ResponsesHeard(CodexAfter(u, e, "gemini"), cliproxyTranslateOpenAIToGeminiStream(s, e, ThoughtText(u, e)))
<1>1. PICK b, h, c : b \in BOOLEAN /\ s = OverChunks(b, h, c) /\ CodexGemini(u, h, c)
  BY DEF ResponsesHeard
<1>2. u \in Upstreams /\ u.at \in {"", "reasoning", "message"} /\ h \in BOOLEAN
  BY <1>1 DEF CodexGemini, Ats
<1>3. OverParts(s, b, h, c)
  BY <1>1, <1>2, OverChunksParts
<1>4. e.type \notin {"chunk", "[DONE]"} /\ (e.type = "error" => e = Event("error", "", 0, ""))
  BY <1>2, CodexTypes
<1>5. PICK text : text = ThoughtText(u, e)
  OBVIOUS
<1>6. PICK r : r = cliproxyTranslateOpenAIToGeminiStream(s, e, text)
  OBVIOUS
<1>7. PICK v : v = CodexAfter(u, e, "gemini")
  OBVIOUS
<1>8. CASE b \/ e.type # "error"
  <2>1. PICK x : x = ConvertCodexResponseToGemini(Hearing(h, c), e, text)
    OBVIOUS
  <2>2. r = ByResponses(s, x)
    BY <1>3, <1>4, <1>6, <1>8, <2>1 DEF cliproxyTranslateOpenAIToGeminiStream, OverParts
  <2>3. CodexGeminiStep(u, h, c, e)
    BY <1>1, CodexGeminiEvent
  <2>4. PICK g, d : Makes(Hearing(h, c), e, text, Hearing(g, d)) /\ CodexGemini(v, g, d)
    BY <1>5, <1>7, <2>3 DEF CodexGeminiStep
  <2>5. x = Hearing(g, d) /\ g \in BOOLEAN
    BY <2>1, <2>4 DEF Makes, CodexGemini
  <2>6. Turns(s, g, d)
    BY <1>1, <1>2, <2>5, OverChunksTurns
  <2> QED
    BY <1>5, <1>6, <1>7, <2>2, <2>4, <2>5, <2>6 DEF ResponsesHeard, Turns
<1>9. CASE ~b /\ e.type = "error"
  <2>1. r = ByChunks(s, ConvertOpenAIResponseToGemini([p |-> s.p.chat, c |-> s.c], AsChunk(e)))
    BY <1>3, <1>6, <1>9 DEF cliproxyTranslateOpenAIToGeminiStream, OverParts
  <2>2. AsChunk(e).type = "chunk" /\ AsChunk(e).body = "none"
    BY <1>9 DEF AsChunk, Chunk
  <2>3. ConvertOpenAIResponseToGemini([p |-> s.p.chat, c |-> s.c], AsChunk(e)) = [p |-> s.p.chat, c |-> s.c]
    BY <2>2 DEF ConvertOpenAIResponseToGemini
  <2>7. Stays(s)
    BY <1>1, <1>2, OverChunksStays
  <2>4. r = s
    BY <2>1, <2>3, <2>7 DEF Stays
  <2>5. u.ended = "" /\ e = Event("error", "", 0, "")
    BY <1>2, <1>4, <1>9, CodexOffersKinds
  <2>6. CodexGemini(v, h, c)
    BY <1>1, <1>7, <2>5, WordKeeps
  <2> QED
    BY <1>1, <1>5, <1>6, <1>7, <2>4, <2>6 DEF ResponsesHeard
<1> QED
  BY <1>8, <1>9

LEMMA KeepAliveHeard ==
    ASSUME NEW u, NEW s, ResponsesHeard(u, s), NEW text
    PROVE  ResponsesHeard(u, cliproxyTranslateOpenAIToGeminiStream(s, KeepAlive, text))
<1>1. PICK b, h, c : b \in BOOLEAN /\ s = OverChunks(b, h, c) /\ CodexGemini(u, h, c)
  BY DEF ResponsesHeard
<1>2. h \in BOOLEAN
  BY <1>1 DEF CodexGemini
<1>3. OverParts(s, b, h, c)
  BY <1>1, <1>2, OverChunksParts
<1>4. PICK e : e = KeepAlive
  OBVIOUS
<1>5. e.type = "chunk" /\ e.body = "keepalive" /\ e.finish = ""
  BY <1>4 DEF KeepAlive, Chunk
<1>6. PICK r : r = cliproxyTranslateOpenAIToGeminiStream(s, e, text)
  OBVIOUS
<1>7. CASE b
  <2>1. ConvertCodexResponseToGemini(Hearing(h, c), e, text) = Hearing(h, c)
    BY <1>5 DEF ConvertCodexResponseToGemini, Terminals
  <2>2. r = ByResponses(s, Hearing(h, c))
    BY <1>3, <1>6, <1>7, <2>1 DEF cliproxyTranslateOpenAIToGeminiStream, OverParts
  <2>3. Turns(s, h, c)
    BY <1>1, <1>2, OverChunksTurns
  <2> QED
    BY <1>1, <1>4, <1>6, <2>2, <2>3 DEF ResponsesHeard, Turns
<1>8. CASE ~b
  <2>1. r = ByChunks(s, ConvertOpenAIResponseToGemini([p |-> s.p.chat, c |-> s.c], AsChunk(e)))
    BY <1>3, <1>5, <1>6, <1>8 DEF cliproxyTranslateOpenAIToGeminiStream, OverParts
  <2>2. AsChunk(e) = e
    BY <1>5 DEF AsChunk
  <2>3. "keepalive" \notin Tools
    BY ToolsAreCalls DEF Words
  <2>4. ConvertOpenAIResponseToGemini([p |-> s.p.chat, c |-> s.c], e) = [p |-> s.p.chat, c |-> s.c]
    BY <1>5, <2>3 DEF ConvertOpenAIResponseToGemini
  <2>6. Stays(s)
    BY <1>1, <1>2, OverChunksStays
  <2>5. r = s
    BY <2>1, <2>2, <2>4, <2>6 DEF Stays
  <2> QED
    BY <1>1, <1>4, <1>6, <2>5 DEF ResponsesHeard
<1> QED
  BY <1>7, <1>8

-------------------------------------------------------------------------------
(* The routes.                                                             *)

\* The routes of which the theorem speaks.
ProvedRoutes == {<<"gemini", "claude">>, <<"codex", "gemini">>, <<"responses", "gemini">>}

TranslationInv ==
    /\ route = <<"gemini", "claude">> => GeminiClaude(up, tr)
    /\ route = <<"codex", "gemini">> => CodexHeard(up, tr)
    /\ route = <<"responses", "gemini">> => ResponsesHeard(up, tr)

LEMMA RouteInit ==
    ASSUME TranslationInit
    PROVE  TranslationInv
<1>1. up = Silent /\ tr = [p |-> Params(route), c |-> Client(route)]
  BY DEF TranslationInit
<1>2. ASSUME route = <<"gemini", "claude">>
      PROVE  GeminiClaude(up, tr)
  <2>1. route[2] = "claude"
    BY <1>2
  <2>2. Params(route) = GeminiParams
    BY <1>2 DEF Params
  <2>3. Client(route) = ClaudeClient
    BY <2>1 DEF Client
  <2>4. tr = GeminiStart
    BY <1>1, <2>2, <2>3 DEF GeminiStart
  <2> QED
    BY <1>1, <2>4, SilentTyped DEF GeminiClaude
<1>3. ASSUME route[2] = "gemini"
      PROVE  Client(route) = GeminiClient
  BY <1>3 DEF Client
<1>4. ASSUME route = <<"codex", "gemini">>
      PROVE  CodexHeard(up, tr)
  <2>1. route[2] = "gemini"
    BY <1>4
  <2>2. Params(route) = ConvertCodexResponseToGeminiParams
    BY <1>4 DEF Params
  <2>3. tr = Hearing(FALSE, GeminiClient)
    BY <1>1, <1>3, <2>1, <2>2 DEF Hearing, ConvertCodexResponseToGeminiParams
  <2> QED
    BY <1>1, <2>3, CodexGeminiBegins DEF CodexHeard
<1>5. ASSUME route = <<"responses", "gemini">>
      PROVE  ResponsesHeard(up, tr)
  <2>1. route[2] = "gemini"
    BY <1>5
  <2>2. Params(route) = cliproxyOpenAIToGeminiStreamState
    BY <1>5 DEF Params
  <2>3. tr = OverChunks(FALSE, FALSE, GeminiClient)
    BY <1>1, <1>3, <2>1, <2>2 DEF OverChunks, cliproxyOpenAIToGeminiStreamState, ConvertCodexResponseToGeminiParams
  <2> QED
    BY <1>1, <2>3, CodexGeminiBegins DEF ResponsesHeard
<1> QED
  BY <1>2, <1>4, <1>5 DEF TranslationInv

LEMMA RouteNext ==
    ASSUME TranslationInv, [TranslationNext]_TranslationVars
    PROVE  TranslationInv'
<1>1. CASE UNCHANGED TranslationVars
  BY <1>1 DEF TranslationVars, TranslationInv
<1>2. CASE TranslationNext
  <2>1. route' = route
    BY <1>2 DEF TranslationNext, OpenAIEvent, ResponsesEvent, GeminiEvent, CodexEvent, AnthropicEvent
  <2>2. ASSUME route = <<"gemini", "claude">>
        PROVE  GeminiClaude(up', tr')
    <3>1. route[1] = "gemini" /\ route[2] = "claude"
      BY <2>2
    <3>2. GeminiEvent
      BY <1>2, <3>1 DEF TranslationNext, OpenAIEvent, ResponsesEvent, GeminiEvent, CodexEvent, AnthropicEvent
    <3>3. PICK e \in GeminiOffers(up, "claude") : up' = GeminiAfter(up, e, "claude") /\ tr' = ConvertGeminiResponseToClaude(tr, e)
      BY <3>1, <3>2 DEF GeminiEvent
    <3>4. GeminiClaude(up, tr)
      BY <2>2 DEF TranslationInv
    <3> QED
      BY <3>3, <3>4, GeminiClaudeEvent
  <2>3. ASSUME route = <<"codex", "gemini">>
        PROVE  CodexHeard(up', tr')
    <3>1. route[1] = "codex" /\ route[2] = "gemini"
      BY <2>3
    <3>2. CodexEvent
      BY <1>2, <3>1 DEF TranslationNext, OpenAIEvent, ResponsesEvent, GeminiEvent, CodexEvent, AnthropicEvent
    <3>3. PICK e \in CodexOffers(up) : /\ up' = CodexAfter(up, e, "gemini")
                                       /\ tr' = ConvertCodexResponseToGemini(tr, e, ThoughtText(up, e))
      BY <3>1, <3>2 DEF CodexEvent
    <3>4. CodexHeard(up, tr)
      BY <2>3 DEF TranslationInv
    <3> QED
      BY <3>3, <3>4, CodexHeardEvent
  <2>4. ASSUME route = <<"responses", "gemini">>
        PROVE  ResponsesHeard(up', tr')
    <3>1. route[1] = "responses" /\ route[2] = "gemini"
      BY <2>4
    <3>2. ResponsesEvent
      BY <1>2, <3>1 DEF TranslationNext, OpenAIEvent, ResponsesEvent, GeminiEvent, CodexEvent, AnthropicEvent
    <3>3. PICK e \in CodexOffers(up) \cup {x \in {KeepAlive} : up = Silent} :
             /\ up' = IF e = KeepAlive THEN up ELSE CodexAfter(up, e, "gemini")
             /\ tr' = cliproxyTranslateOpenAIToGeminiStream(tr, e, ThoughtText(up, e))
      BY <3>1, <3>2 DEF ResponsesEvent
    <3>4. ResponsesHeard(up, tr)
      BY <2>4 DEF TranslationInv
    <3>5. CASE e = KeepAlive
      BY <3>3, <3>4, <3>5, KeepAliveHeard
    <3>6. CASE e # KeepAlive
      <4>1. e \in CodexOffers(up)
        BY <3>3, <3>6
      <4>2. up' = CodexAfter(up, e, "gemini")
        BY <3>3, <3>6
      <4> QED
        BY <3>3, <3>4, <4>1, <4>2, ResponsesHeardEvent
    <3> QED
      BY <3>5, <3>6
  <2> QED
    BY <2>1, <2>2, <2>3, <2>4 DEF TranslationInv
<1> QED
  BY <1>1, <1>2

LEMMA GeminiClaudeWell ==
    ASSUME route = <<"gemini", "claude">>, GeminiClaude(up, tr)
    PROVE  StreamWellFormed /\ AnswerWhole
<1>1. route[1] = "gemini" /\ route[2] = "claude"
  OBVIOUS
<1>2. CASE up = Silent /\ tr = GeminiStart
  <2>1. ~tr.c.fault /\ tr.c.phase = "none" /\ up.ended = ""
    BY <1>2 DEF GeminiStart, ClaudeClient, Silent
  <2> QED
    BY <1>1, <2>1 DEF StreamWellFormed, AnswerWhole
<1>3. CASE GeminiClaudeFollows(up, tr)
  <2>1. ~tr.c.fault /\ tr.c.phase = "open" /\ up.ended = ""
    BY <1>3 DEF GeminiClaudeFollows, OneBlock
  <2> QED
    BY <1>1, <2>1 DEF StreamWellFormed, AnswerWhole
<1>4. CASE GeminiClaudeOver(up, tr)
  <2>1. /\ ~tr.c.fault
        /\ tr.c.phase = "stop" \/ (tr.c.announced = {} /\ tr.c.phase = "open")
        /\ tr.c.phase = "stop" => (tr.c.reason = "tool_use" <=> tr.c.announced \cap Tools # {})
        /\ up.begun \subseteq tr.c.announced
        /\ up.odd \subseteq {"signed text"}
        /\ up.odd = {} => ~tr.c.torn /\ tr.c.got = up.sent
    BY <1>4 DEF GeminiClaudeOver
  <2>2. tr.c.reason # "tool_calls"
    BY <1>4 DEF GeminiClaudeOver, ClaudeClients
  <2>3. StreamWellFormed
    BY <1>1, <2>1, <2>2 DEF StreamWellFormed
  <2>4. AnswerWhole
    <3>1. CASE up.odd = {}
      <4>1. \A ch \in Lanes \ (Dropped \cup up.odd) : tr.c.got[ch] = up.sent[ch]
        BY <2>1, <3>1
      <4>2. up.begun \subseteq tr.c.announced \cup up.odd /\ ~tr.c.torn
        BY <2>1, <3>1
      <4> QED
        BY <4>1, <4>2 DEF AnswerWhole
    <3>2. CASE up.odd # {}
      <4>1. "signed text" \in up.odd
        BY <2>1, <3>2
      <4> QED
        BY <4>1 DEF AnswerWhole
    <3> QED
      BY <3>1, <3>2
  <2> QED
    BY <2>3, <2>4
<1> QED
  BY <1>2, <1>3, <1>4 DEF GeminiClaude

LEMMA CodexGeminiWell ==
    ASSUME route \in {<<"codex", "gemini">>, <<"responses", "gemini">>}, NEW h, NEW c, tr.c = c, CodexGemini(up, h, c)
    PROVE  StreamWellFormed /\ AnswerWhole
<1>1. route[2] = "gemini" /\ route[1] # "openai" /\ route[2] \notin {"claude", "openai"}
  OBVIOUS
<1>2. /\ ~c.fault /\ ~c.torn
      /\ c.early => c.announced # {}
      /\ up.ended = "end" => c.phase = "stop" /\ up.begun \subseteq c.announced \cup up.odd
      /\ \A ch \in Spoken \ up.odd : c.got[ch] = up.sent[ch]
      /\ \A t \in c.announced : c.got[t] = up.sent[t]
      /\ \A t \in Tools \ c.announced : c.got[t] = 0
      /\ \A t \in Tools \ up.begun : up.sent[t] = 0
  BY DEF CodexGemini, GeminiShape, GeminiHeard
<1>3. StreamWellFormed
  BY <1>1, <1>2 DEF StreamWellFormed
<1>4. Dropped = {"search"}
  BY <1>1 DEF Dropped
<1>5. ASSUME up.ended = "end"
      PROVE  /\ \A ch \in Lanes \ (Dropped \cup up.odd) : c.got[ch] = up.sent[ch]
             /\ up.begun \subseteq c.announced \cup up.odd
  <2>1. ASSUME NEW ch \in Lanes, ch # "search", ch \notin up.odd
        PROVE  c.got[ch] = up.sent[ch]
    <3>1. ch \in Spoken \/ ch \in Tools
      BY <2>1 DEF Lanes, Spoken
    <3>2. CASE ch \in Spoken
      BY <1>2, <2>1, <3>2
    <3>3. CASE ch \in c.announced
      BY <1>2, <3>3
    <3>4. CASE ch \in Tools \ c.announced
      <4>1. ch \notin up.begun
        BY <1>2, <1>5, <2>1, <3>4
      <4>2. c.got[ch] = 0 /\ up.sent[ch] = 0
        BY <1>2, <3>4, <4>1
      <4> QED
        BY <4>2
    <3> QED
      BY <3>1, <3>2, <3>3, <3>4
  <2> QED
    BY <1>2, <1>4, <1>5, <2>1
<1>6. AnswerWhole
  BY <1>1, <1>2, <1>5 DEF AnswerWhole
<1> QED
  BY <1>3, <1>6

LEMMA ProvedRoutesWell ==
    ASSUME TranslationInv, route \in ProvedRoutes
    PROVE  StreamWellFormed /\ AnswerWhole
<1>1. CASE route = <<"gemini", "claude">>
  BY <1>1, GeminiClaudeWell DEF TranslationInv
<1>2. CASE route = <<"codex", "gemini">>
  <2>1. PICK h, c : tr = Hearing(h, c) /\ CodexGemini(up, h, c)
    BY <1>2 DEF TranslationInv, CodexHeard
  <2>2. tr.c = c
    BY <2>1, HearingParts
  <2> QED
    BY <1>2, <2>1, <2>2, CodexGeminiWell
<1>3. CASE route = <<"responses", "gemini">>
  <2>1. PICK b, h, c : b \in BOOLEAN /\ tr = OverChunks(b, h, c) /\ CodexGemini(up, h, c)
    BY <1>3 DEF TranslationInv, ResponsesHeard
  <2>2. tr.c = c
    BY <2>1 DEF OverChunks
  <2> QED
    BY <1>3, <2>1, <2>2, CodexGeminiWell
<1> QED
  BY <1>1, <1>2, <1>3 DEF ProvedRoutes

LEMMA TranslationInvariant == TranslationSpec => []TranslationInv
<1>1. TranslationInit => TranslationInv
  BY RouteInit
<1>2. TranslationInv /\ [TranslationNext]_TranslationVars => TranslationInv'
  BY RouteNext
<1> QED
  BY <1>1, <1>2, PTL DEF TranslationSpec

\* Whatever a Gemini upstream sends, the Anthropic client of
\* ConvertGeminiResponseToClaude, and whatever an upstream of the Responses
\* protocol sends, on a channel of its own or of the OpenAI protocol, the Gemini
\* client of ConvertCodexResponseToGemini gets a well-formed stream, concluded
\* when the answer is, for any tools and answers of any length.
THEOREM TranslatedStreamWellFormed == TranslationSpec => [](route \in ProvedRoutes => StreamWellFormed)
<1>1. TranslationInv => (route \in ProvedRoutes => StreamWellFormed)
  BY ProvedRoutesWell
<1> QED
  BY <1>1, TranslationInvariant, PTL

\* What the clients of these translators have got when the answer is concluded is
\* the whole answer: every piece once and in order, and every call.
THEOREM TranslatedAnswerWhole == TranslationSpec => [](route \in ProvedRoutes => AnswerWhole)
<1>1. TranslationInv => (route \in ProvedRoutes => AnswerWhole)
  BY ProvedRoutesWell
<1> QED
  BY <1>1, TranslationInvariant, PTL

===============================================================================
