---------------------------- MODULE UpstreamLimits ----------------------------
(***************************************************************************)
(* The two per-channel limits every upstream request passes:               *)
(*   channelConcurrencyLimiter  - at most MaxConcurrency requests in       *)
(*                                flight (0 = unlimited);                  *)
(*   channelRPMLimiter          - at most RPMLimit reservations in a       *)
(*                                sliding minute (0 = unlimited).          *)
(* reserveUpstreamRequest refuses at once, waitForUpstreamRequest parks    *)
(* until a slot frees and sleeps until the window moves.                   *)
(*                                                                         *)
(* Time is relative: a time stamp is its AGE in ticks, the minute is       *)
(* Window ticks.  reserve() reads the clock before it takes the mutex, so  *)
(* a reservation carries the age its clock reading has when the lock is    *)
(* taken, at most MaxSkew ticks (the bound on how long a goroutine is kept *)
(* from running between the two statements).                               *)
(*                                                                         *)
(* A request is admitted once at most, so the reservation it leaves in the *)
(* limiter's slice goes by its name; the slice is the set of these, in the *)
(* order in which they took the lock, but for those of one tick.           *)
(***************************************************************************)
EXTENDS Integers, FiniteSets, FiniteSetsExt

CONSTANTS
    Requests,        \* goroutines, each performing one upstream request
    Channels,        \* channel IDs
    MaxConcurrency,  \* cfg.MaxConcurrency per channel, 0 = unlimited
    RPMLimit,        \* cfg.RPMLimit per channel, 0 = unlimited
    Window,          \* one minute, in ticks
    MaxSkew          \* bound: ticks between reading the clock and the lock

ASSUME LimitsAssumption ==
    /\ IsFiniteSet(Requests)
    /\ MaxConcurrency \in [Channels -> Nat]
    /\ RPMLimit \in [Channels -> Nat]
    /\ Window \in Nat \ {0}
    /\ MaxSkew \in Nat

VARIABLES
    pc,       \* where each request is
    chan,     \* the channel it was routed to
    waits,    \* TRUE: waitForUpstreamRequest, FALSE: reserveUpstreamRequest
    active,   \* limiter.active: slots counted per channel
    held,     \* requests whose release func has not run (sync.Once not spent)
    events,   \* limiter.requests: whose reservations are kept, per channel
    stamp,    \* age of a request's clock reading, the one it reserves with
    locked,   \* age of its admission by lock time
    timer,    \* ticks left of a refused waiter's retryAfter timer
    admits    \* history: requests admitted, per channel

slotVars == <<chan, waits, active, held>>
rateVars == <<events, stamp, locked, timer, admits>>
vars == <<pc, chan, waits, active, held, events, stamp, locked, timer, admits>>

Idle     == {"idle"}
Waiting  == {"slot", "parked", "clock", "reserve", "timer"}
InFlight == {"sending", "body"}
Settled  == {"refused", "canceled", "failed", "closed"}
PCs      == Idle \cup Waiting \cup InFlight \cup Settled
MaxAge   == Window + MaxSkew

SlotTypeOK ==
    /\ pc \in [Requests -> PCs]
    /\ chan \in [Requests -> Channels]
    /\ waits \in [Requests -> BOOLEAN]
    /\ active \in [Channels -> Nat]
    /\ held \in SUBSET Requests

RateTypeOK ==
    /\ events \in [Channels -> SUBSET Requests]
    /\ stamp \in [Requests -> 0..MaxAge]
    /\ locked \in [Requests -> 0..MaxAge]
    /\ timer \in [Requests -> 0..MaxAge]
    /\ admits \in [Channels -> SUBSET Requests]

\* Every variable has its type.
TypeOK == SlotTypeOK /\ RateTypeOK

Init ==
    /\ pc = [r \in Requests |-> "idle"]
    /\ chan \in [Requests -> Channels]
    /\ waits \in [Requests -> BOOLEAN]
    /\ active = [c \in Channels |-> 0]
    /\ held = {}
    /\ events = [c \in Channels |-> {}]
    /\ stamp = [r \in Requests |-> 0]
    /\ locked = [r \in Requests |-> 0]
    /\ timer = [r \in Requests |-> 0]
    /\ admits = [c \in Channels |-> {}]

Goto(r, from, to) == pc[r] = from /\ pc' = [pc EXCEPT ![r] = to]

(***************************************************************************)
(* Concurrency slots.                                                      *)
(***************************************************************************)
\* Mutant of TakeSlot: the count may reach the limit plus one.
TakeSlotLoose(r) ==
    /\ active[chan[r]] <= MaxConcurrency[chan[r]]
    /\ active' = [active EXCEPT ![chan[r]] = @ + 1]
    /\ held' = held \cup {r}

\* acquire / acquireContext take a slot when the count is below the limit;
\* a channel without a limit hands out a release func that does nothing.
TakeSlot(r) ==
    LET c == chan[r]
    IN  \/ /\ MaxConcurrency[c] = 0
           /\ UNCHANGED <<active, held>>
        \/ /\ MaxConcurrency[c] > 0
           /\ active[c] < MaxConcurrency[c]
           /\ active' = [active EXCEPT ![c] = @ + 1]
           /\ held' = held \cup {r}

SlotFull(c) == MaxConcurrency[c] > 0 /\ active[c] >= MaxConcurrency[c]

\* Mutant of Release: no sync.Once and no clamp at zero.
ReleaseUnguarded(r, to) ==
    /\ active' = [active EXCEPT ![chan[r]] = @ - 1]
    /\ held' = held \ {r}
    /\ pc' = [pc EXCEPT ![r] = to]

\* Mutant of Release: the "changed" channel is not closed.
ReleaseSilent(r, to) ==
    /\ pc' = [pc EXCEPT ![r] = to]
    /\ held' = held \ {r}
    /\ active' = IF r \in held THEN [active EXCEPT ![chan[r]] = @ - 1] ELSE active

\* The release func: once only, it gives the slot back and closes the
\* "changed" channel, which wakes every request parked on it.
Release(r, to) ==
    LET c == chan[r]
    IN  IF r \in held
        THEN /\ active' = [active EXCEPT ![c] = IF @ <= 1 THEN 0 ELSE @ - 1]
             /\ held' = held \ {r}
             /\ pc' = [q \in Requests |->
                          CASE q = r -> to
                            [] q # r /\ pc[q] = "parked" /\ chan[q] = c -> "slot"
                            [] OTHER -> pc[q]]
        ELSE /\ pc' = [pc EXCEPT ![r] = to]
             /\ UNCHANGED <<active, held>>

Start(r) == Goto(r, "idle", "slot") /\ UNCHANGED <<slotVars, rateVars>>

Acquire(r) ==
    /\ Goto(r, "slot", "clock")
    /\ TakeSlot(r)
    /\ UNCHANGED <<chan, waits, rateVars>>

RefuseSlot(r) ==
    /\ SlotFull(chan[r])
    /\ ~waits[r]
    /\ Goto(r, "slot", "refused")
    /\ UNCHANGED <<slotVars, rateVars>>

Park(r) ==
    /\ SlotFull(chan[r])
    /\ waits[r]
    /\ Goto(r, "slot", "parked")
    /\ UNCHANGED <<slotVars, rateVars>>

\* ctx.Done() while parked, or while the retryAfter timer runs.
Cancel(r) ==
    /\ pc[r] \in {"parked", "timer"}
    /\ pc' = [pc EXCEPT ![r] = "canceled"]
    /\ UNCHANGED <<slotVars, rateVars>>

(***************************************************************************)
(* The sliding window.                                                     *)
(***************************************************************************)
ReadClock(r) ==
    /\ Goto(r, "clock", "reserve")
    /\ stamp' = [stamp EXCEPT ![r] = 0]
    /\ UNCHANGED <<slotVars, events, locked, timer, admits>>

\* Mutant of Kept: the cutoff is one tick late.
KeptShort(c, k) == {q \in events[c] : stamp[q] < Window + k - 1}

\* Reservations after the cutoff of a clock reading of age k.
Kept(c, k) == {q \in events[c] : stamp[q] < Window + k}

\* Who has a reservation in the limiter or was admitted within the last minute.
Remembered(r) == \E c \in Channels : r \in events[c] \cup admits[c]

\* An age nobody will look at is 0.
Ages(aged(_)) ==
    /\ stamp' = [r \in Requests |-> IF (pc[r] = "reserve" \/ Remembered(r))' THEN aged(stamp[r]) ELSE 0]
    /\ locked' = [r \in Requests |-> IF Remembered(r)' THEN aged(locked[r]) ELSE 0]

Same(age) == age
Older(age) == IF age < MaxAge THEN age + 1 ELSE age

\* The first of the slice: no other has waited longer since it took the lock.
Foremost(S) == {q \in S : \A p \in S : locked[p] <= locked[q]}

Admit(r, evs) ==
    /\ pc' = [pc EXCEPT ![r] = "sending"]
    /\ events' = evs
    /\ admits' = [admits EXCEPT ![chan[r]] = @ \cup {r}]
    /\ Ages(Same)
    /\ UNCHANGED <<active, held, timer>>

Reserve(r) ==
    LET c == chan[r]
        kept == Kept(c, stamp[r])
    IN  /\ pc[r] = "reserve"
        /\ RPMLimit[c] = 0 \/ Cardinality(kept) < RPMLimit[c]
        /\ Admit(r, IF RPMLimit[c] = 0 THEN events
                    ELSE [events EXCEPT ![c] = kept \cup {r}])
        /\ UNCHANGED <<chan, waits>>

\* The window is full: the slot goes back before the caller returns the
\* error (reserveUpstreamRequest) or sleeps until the first kept time stamp
\* leaves the window (waitForUpstreamRequest).
RefuseRate(r) ==
    LET c == chan[r]
        kept == Kept(c, stamp[r])
    IN  /\ pc[r] = "reserve"
        /\ RPMLimit[c] > 0 /\ Cardinality(kept) >= RPMLimit[c]
        /\ events' = [events EXCEPT ![c] = kept]
        /\ Release(r, IF waits[r] THEN "timer" ELSE "refused")
        /\ \E q \in Foremost(kept) :
             timer' = [timer EXCEPT ![r] =
                          IF waits[r] THEN Max({Window + stamp[r] - stamp[q], 0}) ELSE 0]
        /\ UNCHANGED <<chan, waits, admits>>
        /\ Ages(Same)

TimerFires(r) ==
    /\ timer[r] = 0
    /\ Goto(r, "timer", "slot")
    /\ UNCHANGED <<slotVars, rateVars>>

\* snapshot and CleanupExpired drop what left the window of their own clock
\* reading.
Prune(c) ==
    /\ \E k \in 0..MaxSkew : events' = [events EXCEPT ![c] = Kept(c, k)]
    /\ UNCHANGED <<pc, slotVars, timer, admits>>
    /\ Ages(Same)

\* A deleted channel is forgotten (its history ends with it); requests that
\* were already routed to it carry on.
RemoveChannel(c) ==
    /\ events' = [events EXCEPT ![c] = {}]
    /\ admits' = [admits EXCEPT ![c] = {}]
    /\ UNCHANGED <<pc, slotVars, timer>>
    /\ Ages(Same)

(***************************************************************************)
(* doReservedUpstreamRequest: the slot is held until the call fails or     *)
(* the response body is closed; closing a body twice is legal.             *)
(***************************************************************************)
SendFails(r) ==
    /\ pc[r] = "sending"
    /\ Release(r, "failed")
    /\ UNCHANGED <<chan, waits, rateVars>>

Respond(r) == Goto(r, "sending", "body") /\ UNCHANGED <<slotVars, rateVars>>

CloseBody(r) ==
    /\ pc[r] \in {"body", "closed"}
    /\ Release(r, "closed")
    /\ UNCHANGED <<chan, waits, rateVars>>

(***************************************************************************)
(* A tick of the clock ages every time stamp; beyond MaxAge none matters.  *)
(***************************************************************************)
Tick ==
    /\ \A r \in Requests : pc[r] = "reserve" => stamp[r] < MaxSkew
    /\ admits' = [c \in Channels |-> {r \in admits[c] : locked[r] + 1 < Window}]
    /\ timer' = [r \in Requests |-> IF timer[r] > 0 THEN timer[r] - 1 ELSE 0]
    /\ UNCHANGED <<pc, slotVars, events>>
    /\ Ages(Older)

Step(r) ==
    \/ Start(r) \/ Acquire(r) \/ RefuseSlot(r) \/ Park(r) \/ Cancel(r)
    \/ ReadClock(r) \/ Reserve(r) \/ RefuseRate(r) \/ TimerFires(r)
    \/ SendFails(r) \/ Respond(r) \/ CloseBody(r)

Next ==
    \/ \E r \in Requests : Step(r)
    \/ \E c \in Channels : Prune(c) \/ RemoveChannel(c)
    \/ Tick

Spec == Init /\ [][Next]_vars

(***************************************************************************)
(* Fairness.  A runnable goroutine runs; the clock moves; an upstream call *)
(* ends because the HTTP client and the stream carry timeouts, and every   *)
(* caller closes the body it was given.  Clients need not cancel.          *)
(***************************************************************************)
Progress(r) ==
    \/ Acquire(r) \/ RefuseSlot(r) \/ Park(r) \/ ReadClock(r) \/ Reserve(r)
    \/ RefuseRate(r) \/ TimerFires(r) \/ SendFails(r) \/ Respond(r)
    \/ (pc[r] = "body" /\ CloseBody(r))

FairSpec == Spec /\ WF_vars(Tick) /\ \A r \in Requests : WF_vars(Progress(r))
-------------------------------------------------------------------------------
\* Holders of a slot of channel c: the requests whose release func is unspent.
Holders(c) == {r \in held : chan[r] = c}

\* The slot count of a channel is the number of requests that still owe a
\* release: no path (refusal, failed call, double close) releases twice or
\* forgets to release.
SlotAccounting ==
    /\ \A c \in Channels : active[c] = Cardinality(Holders(c))
    /\ \A r \in Requests :
         (r \in held) <=> /\ MaxConcurrency[chan[r]] > 0
                          /\ pc[r] \in {"clock", "reserve"} \cup InFlight

\* A channel with a limit never has more than MaxConcurrency requests between
\* acquire and the close of the response body.
ConcurrencyBound ==
    \A c \in Channels : MaxConcurrency[c] > 0 =>
        Cardinality({r \in Requests : chan[r] = c /\ pc[r] \in InFlight}) <= MaxConcurrency[c]

\* A request stays parked only while its channel is full: the release that
\* makes room wakes it (no lost wake-up through the "changed" channel).
NoLostWakeup ==
    \A r \in Requests : pc[r] = "parked" => SlotFull(chan[r])

\* rpm_limit caps the admissions of every interval of a minute less the time
\* a goroutine may be delayed between reading the clock and locking the
\* limiter: of every minute when there is no such delay.
HardRPMCap ==
    \A c \in Channels : RPMLimit[c] > 0 =>
        Cardinality({q \in admits[c] : locked[q] < Window - MaxSkew}) <= RPMLimit[c]

\* Every request that starts is eventually admitted and finished, or refused:
\* no request waits for a slot or a window for ever.
EventuallySettled ==
    \A r \in Requests : (pc[r] = "slot") ~> (pc[r] \in Settled)
===============================================================================
