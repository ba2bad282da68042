------------------------------- MODULE Selection -------------------------------
(***************************************************************************)
(* The choice of candidates for a request: the filters and the rescue of   *)
(* filterCooldownChannelsInternal, the order by priority or by health, the *)
(* smooth weighted round robin that picks the first channel of each tier,  *)
(* and the sticky channel of the caller.                                   *)
(*                                                                         *)
(* A request sees a snapshot: what is open to it and when each cooldown    *)
(* ends (0: it has ended).  The channels are all that serve the model, so  *)
(* there is one universe of round-robin states, one state per tier.        *)
(***************************************************************************)
EXTENDS Integers, Sequences, FiniteSets, FiniteSetsExt, SequencesExt

CONSTANTS
    Channels,    \* channel IDs, positive integers
    Priority,    \* base priority of a channel
    KeyCount,    \* its enabled keys; 0 for an OAuth channel
    Snapshots,   \* what a request may see of the channels
    Penalties,   \* how far the health score may lower priorities
    Strategies,  \* route strategies: subset of {"balanced", "sticky"}
    MaxSkips,    \* bound claimed on skips of a channel in its tier
    Nil

ASSUME SelectionAssumption ==
    /\ IsFiniteSet(Channels) /\ Channels \subseteq Nat \ {0} /\ Nil \notin Channels
    /\ Priority \in [Channels -> Int] /\ KeyCount \in [Channels -> Nat]
    /\ \A s \in Snapshots : \A c \in Channels :
           /\ s[c].open \in BOOLEAN          \* in its hours, below its daily cost
           /\ s[c].ch \in Nat                \* end of the channel's cooldown
           /\ s[c].models \in Seq(Nat) \ {<<>>} \* of the models it may be sent as
           /\ s[c].keys \in [1..KeyCount[c] -> Nat]
    /\ Penalties \subseteq [Channels -> Nat]
    /\ MaxSkips \in Nat

VARIABLES
    strategy,   \* routeStrategyMode
    health,     \* the health score orders the channels
    weight,     \* currentWeights, per tier
    sticky,     \* the caller's entry: a channel, and whether it has expired
    dropping,   \* preferred() saw an expired entry and is about to forget it
    out,        \* the last selection
    skips       \* history: selections of a tier a live channel took part in
                \* since it was last put first
selectionVars == <<strategy, health, weight, sticky, dropping, out, skips>>

None == [ch |-> Nil, old |-> FALSE]
Zero == [c \in Channels |-> 0]
MaxPenalty == Max({p[c] : p \in Penalties, c \in Channels})
Tiers == Min(Range(Priority)) - MaxPenalty .. Max(Range(Priority))
NoSelection == [order |-> <<>>, rescue |-> FALSE, snap |-> <<>>]

SelectionInit ==
    /\ strategy \in Strategies /\ health \in BOOLEAN
    /\ weight = [t \in Tiers |-> Zero]
    /\ sticky = None /\ dropping = FALSE
    /\ out = NoSelection
    /\ skips = [t \in Tiers |-> Zero]

(***************************************************************************)
(* The filters, and the rescue when everything is cooled.                  *)
(***************************************************************************)
CoolsAt(s, c, t) ==
    \/ s[c].ch > t
    \/ \A m \in DOMAIN s[c].models : s[c].models[m] > t
    \/ KeyCount[c] > 0 /\ \A k \in 1..KeyCount[c] : s[c].keys[k] > t

Open(s) == {c \in Channels : s[c].open}
filterCooledChannels(s) == {c \in Open(s) : ~CoolsAt(s, c, 0)}

\* Mutant of getReadyAt: the last of the keys instead of the first.
getReadyAtLastKey(s, c) ==
    Max({s[c].ch, Min(Range(s[c].models))}
        \cup IF KeyCount[c] > 0 THEN {Max(Range(s[c].keys))} ELSE {})

getReadyAt(s, c) ==
    Max({s[c].ch, Min(Range(s[c].models))}
        \cup IF KeyCount[c] > 0 THEN {Min(Range(s[c].keys))} ELSE {})

EffPriority(p, c) == Priority[c] - IF health THEN p[c] ELSE 0

\* Earliest to recover, then effective, then base priority, then list order.
Better(s, p, c, d) ==
    LET rank(x) == <<getReadyAt(s, x), -EffPriority(p, x), -Priority[x], x>>
        i == Min({j \in 1..4 : rank(c)[j] # rank(d)[j]})
    IN  c = d \/ rank(c)[i] < rank(d)[i]
pickBestChannelWhenAllCooled(s, p) ==
    CHOOSE c \in Open(s) : \A d \in Open(s) : Better(s, p, c, d)

(***************************************************************************)
(* The order: tiers from the highest down, one chosen first in each.       *)
(***************************************************************************)
calcEffectiveKeyCount(s, c) ==
    Max({1, Cardinality({k \in 1..KeyCount[c] : s[c].keys[k] = 0})})

TierOf(s, p, t) == {c \in filterCooledChannels(s) : EffPriority(p, c) = t}

\* currentWeights with the weights of this round added.
Raised(s, group, cur) ==
    [c \in Channels |-> cur[c] + IF c \in group THEN calcEffectiveKeyCount(s, c) ELSE 0]
\* The largest, the smaller ID among equals.
Selected(group, cur) ==
    CHOOSE c \in group : \A d \in group : cur[c] > cur[d] \/ (cur[c] = cur[d] /\ c <= d)

\* Mutant of Before: the state belongs to the live channels, new ones start anew.
BeforeOfLive(group, cur) ==
    IF \E c \in Channels \ group : cur[c] # 0 THEN Zero ELSE cur

\* The weights a round starts from.
Before(group, cur) == cur

\* selectByWeight: a tier of one is not accounted for.
First(s, group, cur) ==
    IF Cardinality(group) = 1 THEN CHOOSE c \in group : TRUE
    ELSE Selected(group, Raised(s, group, Before(group, cur)))
Charged(s, group, cur) ==
    IF Cardinality(group) <= 1 THEN cur
    ELSE LET up == Raised(s, group, Before(group, cur))
             total == MapThenSumSet(LAMBDA c : calcEffectiveKeyCount(s, c), group)
         IN  [up EXCEPT ![Selected(group, up)] = @ - total]

ById(group) == SetToSortSeq(group, <)
\* balanceSamePriorityChannels: the chosen one moves to the front;
\* balanceScoredChannelsInPlace: it changes places with the first.
FrontMoved(seq, c) == <<c>> \o SelectSeq(seq, LAMBDA x : x # c)
FrontSwapped(seq, c) == [i \in DOMAIN seq |-> IF i = 1 THEN c ELSE IF seq[i] = c THEN seq[1] ELSE seq[i]]
TierOrder(s, p, t) ==
    LET group == TierOf(s, p, t)
        c == First(s, group, weight[t])
    IN  IF group = {} THEN <<>>
        ELSE IF health THEN FrontSwapped(ById(group), c) ELSE FrontMoved(ById(group), c)

Sorted(s, p) == FlattenSeq([i \in 1..Cardinality(Tiers) |-> TierOrder(s, p, Max(Tiers) - i + 1)])

applyStickyPreference(seq, c) ==
    IF c \in Range(seq) /\ Priority[c] = Priority[Head(seq)] THEN FrontMoved(seq, c) ELSE seq

Preferred == IF strategy = "sticky" /\ ~sticky.old THEN sticky.ch ELSE Nil

(***************************************************************************)
(* filterCooldownChannelsInternal.                                         *)
(***************************************************************************)
Select(s, p) ==
    /\ out = NoSelection /\ filterCooledChannels(s) # {}
    /\ out' = [order |-> applyStickyPreference(Sorted(s, p), Preferred),
               rescue |-> FALSE, snap |-> s]
    /\ weight' = [t \in Tiers |-> Charged(s, TierOf(s, p, t), weight[t])]
    /\ dropping' = (dropping \/ (strategy = "sticky" /\ sticky.old))
    /\ skips' = [t \in Tiers |->
          LET group == TierOf(s, p, t)
          IN  [c \in Channels |->
                 IF c \notin group \/ Cardinality(group) = 1 THEN skips[t][c]
                 ELSE IF c = First(s, group, weight[t]) THEN 0 ELSE skips[t][c] + 1]]
    /\ UNCHANGED <<strategy, health, sticky>>

\* Everything open is cooled: the strict passes find nothing, the last one
\* rescues one channel, unless cooldown_fallback_enabled is off.
SelectCooled(s, p) ==
    /\ out = NoSelection /\ filterCooledChannels(s) = {}
    /\ \/ /\ Open(s) # {}
          /\ LET c == pickBestChannelWhenAllCooled(s, p)
             IN  out' = [order |-> <<c>>, rescue |-> TRUE, snap |-> s]
       \/ out' = [NoSelection EXCEPT !.snap = s]
    /\ UNCHANGED <<strategy, health, weight, sticky, dropping, skips>>

\* The list goes to the failover loop.
HandOver ==
    /\ out # NoSelection /\ out' = NoSelection
    /\ UNCHANGED <<strategy, health, weight, sticky, dropping, skips>>

(***************************************************************************)
(* The sticky entry, between two selections: outcomes of requests that     *)
(* selected earlier, in any order, and the passing of time.                *)
(***************************************************************************)
Remember(c) ==
    /\ out = NoSelection
    /\ sticky' = [ch |-> c, old |-> FALSE]
    /\ UNCHANGED <<strategy, health, weight, dropping, out, skips>>

\* A failure, the deletion of the channel, or cleanup of an expired entry.
Forget ==
    /\ out = NoSelection
    /\ sticky # None /\ sticky' = None
    /\ UNCHANGED <<strategy, health, weight, dropping, out, skips>>

\* forget() after preferred() has read an expired entry and unlocked.
DropExpired ==
    /\ out = NoSelection
    /\ dropping /\ dropping' = FALSE
    /\ sticky' = None
    /\ UNCHANGED <<strategy, health, weight, out, skips>>

\* stickyEntryTTL passes.
Expire ==
    /\ out = NoSelection
    /\ sticky.ch # Nil /\ ~sticky.old
    /\ sticky' = [sticky EXCEPT !.old = TRUE]
    /\ UNCHANGED <<strategy, health, weight, dropping, out, skips>>

\* Cleanup: a tier not used for a day starts anew.
Cleanup(t) ==
    /\ out = NoSelection /\ weight[t] # Zero
    /\ weight' = [weight EXCEPT ![t] = Zero]
    /\ skips' = [skips EXCEPT ![t] = Zero]
    /\ UNCHANGED <<strategy, health, sticky, dropping, out>>

SelectionNext ==
    \/ \E s \in Snapshots, p \in Penalties : Select(s, p) \/ SelectCooled(s, p)
    \/ \E c \in Channels : Remember(c)
    \/ HandOver \/ Forget \/ DropExpired \/ Expire
    \/ \E t \in Tiers : Cleanup(t)

SelectionSpec == SelectionInit /\ [][SelectionNext]_selectionVars
-------------------------------------------------------------------------------
SelectionTypeOK ==
    /\ strategy \in Strategies /\ health \in BOOLEAN /\ dropping \in BOOLEAN
    /\ weight \in [Tiers -> [Channels -> Int]]
    /\ sticky.ch \in Channels \cup {Nil}
    /\ IsInjective(out.order)

\* No channel starves: it is first in its tier again after a bounded number of
\* rounds it took part in, also when other channels cool down and come back.
NoStarvation == \A t \in Tiers, c \in Channels : skips[t][c] <= MaxSkips

\* A rescued channel is one that comes back first: at the moment it passes the
\* filter no other channel would have passed it earlier.
RescueIsEarliest ==
    out.rescue => \A t \in 0..10, c \in Open(out.snap) :
        ~CoolsAt(out.snap, c, t) => \E u \in 0..t : ~CoolsAt(out.snap, Head(out.order), u)

===============================================================================
