------------------------------- MODULE Cooldown -------------------------------
(***************************************************************************)
(* The cooldown rows of one channel (channels, api_keys and                *)
(* channel_model_cooldowns) under concurrent requests: failures punish a   *)
(* key, a model or the channel (cooldown.Manager.ApplyEffect), exhausted   *)
(* resources are promoted to a channel cooldown, a success clears what it  *)
(* proved healthy (handleProxySuccess), an administrator resets or sets.   *)
(*                                                                         *)
(* A row keeps its distance to cooldown_until in ticks (left, 0 once it    *)
(* has passed) and cooldown_duration_ms (dur, the back-off history); set   *)
(* says that cooldown_until is not 0.  Every store call is one step,       *)
(* except the read-modify-write transactions, which lock their row.        *)
(***************************************************************************)
EXTENDS Integers, FiniteSets, FiniteSetsExt

CONSTANTS
    Requests,        \* goroutines using the channel
    Keys,            \* api_keys rows of the channel
    DisabledKeys,    \* those the administrator disabled
    Models,          \* model entries of the channel
    DisabledModels,  \* entries the administrator disabled
    Channel,         \* the channel's own row
    InitialDur,      \* initialCooldown values, one per status class
    ResetDurs,       \* explicit reset distances (headers, rules, manual)
    MinDur, MaxDur,  \* CooldownPolicy.minDuration, maxDuration
    StoreErrors,     \* TRUE: store calls may fail (SQLITE_BUSY, timeout)
    NoOne            \* the owner of an unlocked row

ASSUME CooldownAssumption ==
    /\ DisabledKeys \subseteq Keys /\ DisabledModels \subseteq Models
    /\ InitialDur \subseteq Nat \ {0} /\ ResetDurs \subseteq Nat \ {0}
    /\ IsFiniteSet(InitialDur) /\ IsFiniteSet(ResetDurs)
    /\ MinDur \in Nat /\ MaxDur \in Nat \ {0}
    /\ StoreErrors \in BOOLEAN
    /\ NoOne \notin Requests
    /\ Channel \notin Keys \cup Models
    /\ Keys \cap Models = {}

Rows == Keys \cup Models \cup {Channel}
EnabledKeys == Keys \ DisabledKeys
SendableModels == Models \ DisabledModels

VARIABLES
    row,      \* the rows
    lock,     \* who holds a row's lock (SELECT ... FOR UPDATE)
    pc,       \* where each request is
    key, mdl, \* the key and the model it uses
    target,   \* the row it punishes
    reset,    \* the explicit reset distance it carries, 0 = back off
    snap,     \* the row its transaction read
    keyLeft,  \* promoteExhaustedResources: earliest key, -1 = one is free
    expected, \* history: the back-off each row should have reached
    noticed   \* history: resources whose exhaustion a request has seen

reqVars == <<key, mdl, target, reset, snap, keyLeft>>
vars == <<row, lock, pc, reqVars, expected, noticed>>

Clear == [set |-> FALSE, left |-> 0, dur |-> 0]
Until(t) == [set |-> TRUE, left |-> t, dur |-> t]
Cap == Max(InitialDur \cup ResetDurs \cup {MaxDur})

PCs == {"idle", "sent", "cool", "locked", "keys", "models", "promote",
        "okChannel", "okKey", "okModel"}

RowType == [set : BOOLEAN, left : 0..Cap, dur : 0..Cap]

TypeOK ==
    /\ row \in [Rows -> RowType]
    /\ lock \in [Rows -> Requests \cup {NoOne}]
    /\ pc \in [Requests -> PCs]
    /\ key \in [Requests -> Keys]
    /\ mdl \in [Requests -> Models]
    /\ target \in [Requests -> Rows]
    /\ reset \in [Requests -> 0..Cap]
    /\ snap \in [Requests -> RowType]
    /\ keyLeft \in [Requests -> -1..Cap]
    /\ expected \in [Rows -> 0..Cap]
    /\ noticed \subseteq {"keys", "models"}

Init ==
    /\ row = [x \in Rows |-> Clear]
    /\ lock = [x \in Rows |-> NoOne]
    /\ pc = [r \in Requests |-> "idle"]
    /\ \E k \in Keys, m \in Models :
         /\ key = [r \in Requests |-> k]
         /\ mdl = [r \in Requests |-> m]
    /\ target = [r \in Requests |-> Channel]
    /\ reset = [r \in Requests |-> 0]
    /\ snap = [r \in Requests |-> Clear]
    /\ keyLeft = [r \in Requests |-> -1]
    /\ expected = [x \in Rows |-> 0]
    /\ noticed = {}

(***************************************************************************)
(* The exhaustion test of promoteExhaustedResources.                       *)
(***************************************************************************)
Earliest(S, f) == Min({f[x].left : x \in S})

\* The distance to the earliest end of the rows in S, -1 unless all of them
\* are cooling down.
AllCooling(S, f) ==
    IF S # {} /\ \A x \in S : f[x].left > 0 THEN Earliest(S, f) ELSE -1

\* allEnabledKeysCooldownUntil skips disabled keys.
KeysLeft(f) == AllCooling(EnabledKeys, f)

\* configuredModelKeys lists every entry of the channel: ApplyEffect does not
\* pass the sendable models on to allConfiguredModelsCooldownUntil.
ModelsLeft(f) == AllCooling(Models, f)

\* History: a resource stays noticed while it stays exhausted.
Note(seen) ==
    noticed' = (IF AllCooling(EnabledKeys, row') > 0
                THEN (noticed \cup seen) \cap {"keys"} ELSE {})
               \cup
               (IF AllCooling(SendableModels, row') > 0
                THEN (noticed \cup seen) \cap {"models"} ELSE {})

(***************************************************************************)
(* Store operations.                                                       *)
(***************************************************************************)
Unlocked(x) == lock[x] = NoOne

\* SetChannelCooldown, SetKeyCooldown, SetModelCooldown: overwrite.
SetRow(x, t) ==
    /\ Unlocked(x)
    /\ row' = [row EXCEPT ![x] = Until(t)]
    /\ expected' = [expected EXCEPT ![x] = t]

\* ResetChannelCooldown, ResetKeyCooldown, ResetModelCooldown.
ResetRow(x) ==
    /\ Unlocked(x)
    /\ row' = [row EXCEPT ![x] = IF @.set THEN Clear ELSE @]
    /\ expected' = [expected EXCEPT ![x] = IF row[x].set THEN 0 ELSE @]

\* CalculateBackoffDuration, given the first failure's initial cooldown.
Doubled(d) == Min({Max({2 * d, MinDur}), MaxDur})
Backoff(w, initial) ==
    IF w.dur > 0 THEN Doubled(w.dur)
    ELSE IF w.left > 0 THEN Doubled(w.left) ELSE initial

(***************************************************************************)
(* Requests.                                                               *)
(***************************************************************************)
Start(r, k, m) ==
    /\ pc[r] = "idle"
    /\ k \in EnabledKeys /\ m \in SendableModels
    /\ pc' = [pc EXCEPT ![r] = "sent"]
    /\ key' = [key EXCEPT ![r] = k]
    /\ mdl' = [mdl EXCEPT ![r] = m]
    /\ UNCHANGED <<row, lock, target, reset, snap, keyLeft, expected, noticed>>

\* The decision names the effect (CoolKey, CoolModel, CoolChannel) and may
\* carry an explicit end.
Fail(r, x, t) ==
    /\ pc[r] = "sent"
    /\ x \in {key[r], mdl[r], Channel}
    /\ pc' = [pc EXCEPT ![r] = "cool"]
    /\ target' = [target EXCEPT ![r] = x]
    /\ reset' = [reset EXCEPT ![r] = t]
    /\ UNCHANGED <<row, lock, key, mdl, snap, keyLeft, expected, noticed>>

\* Mutant of AfterCool: a cooled key is not followed by the exhaustion test.
AfterCool_ModelsOnly(r) == IF target[r] \in Models THEN "keys" ELSE "idle"

\* Where ApplyEffect goes once the row is written.
AfterCool(r) == IF target[r] = Channel THEN "idle" ELSE "keys"

ApplySet(r) ==
    /\ pc[r] = "cool" /\ reset[r] > 0
    /\ SetRow(target[r], reset[r])
    /\ pc' = [pc EXCEPT ![r] = AfterCool(r)]
    /\ reset' = [reset EXCEPT ![r] = 0]
    /\ Note({})
    /\ UNCHANGED <<lock, key, mdl, target, snap, keyLeft>>

\* Mutant of BumpRead: the read takes no row lock.
BumpReadUnlocked(r) ==
    /\ pc[r] = "cool" /\ reset[r] = 0
    /\ snap' = [snap EXCEPT ![r] = row[target[r]]]
    /\ pc' = [pc EXCEPT ![r] = "locked"]
    /\ UNCHANGED <<row, lock, key, mdl, target, reset, keyLeft, expected, noticed>>

\* BumpXxxCooldown, first half of the transaction: SELECT ... FOR UPDATE.
BumpRead(r) ==
    /\ pc[r] = "cool" /\ reset[r] = 0
    /\ Unlocked(target[r])
    /\ lock' = [lock EXCEPT ![target[r]] = r]
    /\ snap' = [snap EXCEPT ![r] = row[target[r]]]
    /\ pc' = [pc EXCEPT ![r] = "locked"]
    /\ UNCHANGED <<row, key, mdl, target, reset, keyLeft, expected, noticed>>

\* Second half: UPDATE and commit.
BumpWrite(r, initial) ==
    LET x == target[r]
    IN  /\ pc[r] = "locked"
        /\ row' = [row EXCEPT ![x] = Until(Backoff(snap[r], initial))]
        /\ expected' = [expected EXCEPT ![x] =
                          Backoff([row[x] EXCEPT !.dur = expected[x]], initial)]
        /\ lock' = [lock EXCEPT ![x] = NoOne]
        /\ snap' = [snap EXCEPT ![r] = Clear]
        /\ pc' = [pc EXCEPT ![r] = AfterCool(r)]
        /\ Note({})
        /\ UNCHANGED <<key, mdl, target, reset, keyLeft>>

\* promoteExhaustedResources reads the keys, then the model cooldowns, then
\* writes the channel row with what it read.
ReadKeys(r) ==
    /\ pc[r] = "keys"
    /\ keyLeft' = [keyLeft EXCEPT ![r] = KeysLeft(row)]
    /\ pc' = [pc EXCEPT ![r] = "models"]
    /\ UNCHANGED row
    /\ Note(IF KeysLeft(row) > 0 THEN {"keys"} ELSE {})
    /\ target' = [target EXCEPT ![r] = Channel]
    /\ UNCHANGED <<lock, key, mdl, reset, snap, expected>>

\* Mutant of ReadModels: models are looked at only once the keys are used up.
ReadModelsLate(r) ==
    /\ pc[r] = "models"
    /\ pc' = [pc EXCEPT ![r] = IF keyLeft[r] >= 0 THEN "promote" ELSE "idle"]
    /\ reset' = [reset EXCEPT ![r] = Max({keyLeft[r], 0})]
    /\ keyLeft' = [keyLeft EXCEPT ![r] = -1]
    /\ UNCHANGED row
    /\ Note({})
    /\ UNCHANGED <<lock, key, mdl, target, snap, expected>>

ReadModels(r) ==
    LET channelUntil == Max({keyLeft[r], ModelsLeft(row)})
    IN  /\ pc[r] = "models"
        /\ pc' = [pc EXCEPT ![r] = IF channelUntil >= 0 THEN "promote" ELSE "idle"]
        /\ reset' = [reset EXCEPT ![r] = Max({channelUntil, 0})]
        /\ keyLeft' = [keyLeft EXCEPT ![r] = -1]
        /\ UNCHANGED row
        /\ Note(IF ModelsLeft(row) > 0 THEN {"models"} ELSE {})
        /\ UNCHANGED <<lock, key, mdl, target, snap, expected>>

Promote(r) ==
    /\ pc[r] = "promote"
    /\ SetRow(Channel, reset[r])
    /\ pc' = [pc EXCEPT ![r] = "idle"]
    /\ reset' = [reset EXCEPT ![r] = 0]
    /\ UNCHANGED <<lock, key, mdl, target, snap, keyLeft, noticed>>

\* handleProxySuccess clears the channel, the key and, when the cached model
\* cooldowns (which may lag) show one, the model.
Succeed(r) ==
    /\ pc[r] = "sent"
    /\ pc' = [pc EXCEPT ![r] = "okChannel"]
    /\ UNCHANGED <<row, lock, reqVars, expected, noticed>>

ClearChannel(r) ==
    /\ pc[r] = "okChannel"
    /\ ResetRow(Channel)
    /\ pc' = [pc EXCEPT ![r] = "okKey"]
    /\ UNCHANGED <<lock, reqVars, noticed>>

ClearKey(r) ==
    /\ pc[r] = "okKey"
    /\ ResetRow(key[r])
    /\ pc' = [pc EXCEPT ![r] = "okModel"]
    /\ Note({})
    /\ UNCHANGED <<lock, reqVars>>

ClearModel(r) ==
    /\ pc[r] = "okModel"
    /\ \/ ResetRow(mdl[r])
       \/ UNCHANGED <<row, expected>>
    /\ pc' = [pc EXCEPT ![r] = "idle"]
    /\ Note({})
    /\ UNCHANGED <<lock, reqVars>>

\* A failed store call is logged and the handler carries on: an unread
\* resource counts as not exhausted, an unwritten row stays as it was.
AfterError(r) ==
    CASE pc[r] \in {"cool", "locked"} -> AfterCool(r)
      [] pc[r] = "keys" -> "models"
      [] pc[r] = "models" -> IF keyLeft[r] >= 0 THEN "promote" ELSE "idle"
      [] pc[r] = "okChannel" -> "okKey"
      [] pc[r] = "okKey" -> "okModel"
      [] OTHER -> "idle"

StoreError(r) ==
    /\ StoreErrors
    /\ pc[r] \notin {"idle", "sent"}
    /\ pc' = [pc EXCEPT ![r] = AfterError(r)]
    /\ lock' = [x \in Rows |-> IF lock[x] = r THEN NoOne ELSE lock[x]]
    /\ snap' = [snap EXCEPT ![r] = Clear]
    /\ reset' = [reset EXCEPT ![r] = IF pc[r] = "models" THEN Max({keyLeft[r], 0}) ELSE 0]
    /\ keyLeft' = [keyLeft EXCEPT ![r] = -1]
    /\ target' = [target EXCEPT ![r] = IF pc[r] = "keys" THEN Channel ELSE @]
    /\ UNCHANGED <<row, key, mdl, expected>>
    /\ Note({pc[r]})

(***************************************************************************)
(* The administrator and the clock.                                        *)
(***************************************************************************)
\* ResetAllCooldowns: one transaction over the three tables.
ResetAll ==
    /\ \A x \in Rows : Unlocked(x)
    /\ row' = [x \in Rows |-> Clear]
    /\ expected' = [x \in Rows |-> 0]
    /\ noticed' = {}
    /\ UNCHANGED <<lock, pc, reqVars>>

\* HandleSetChannelCooldown, HandleSetKeyCooldown: they promote nothing, who
\* cools the last key by hand is taken to know.
SetManually(x, t) ==
    /\ SetRow(x, t)
    /\ Note({"keys"})
    /\ UNCHANGED <<lock, pc, reqVars>>

\* No tick falls inside a transaction: its context ends after 3 s.
Tick ==
    /\ \A x \in Rows : Unlocked(x)
    /\ row' = [x \in Rows |-> [row[x] EXCEPT !.left = Max({@ - 1, 0})]]
    /\ keyLeft' = [r \in Requests |->
                     IF keyLeft[r] > 0 THEN keyLeft[r] - 1 ELSE keyLeft[r]]
    /\ reset' = [r \in Requests |->
                   IF pc[r] = "promote" THEN Max({reset[r] - 1, 0}) ELSE reset[r]]
    /\ Note({})
    /\ UNCHANGED <<lock, pc, key, mdl, target, snap, expected>>

Step(r) ==
    \/ \E k \in Keys, m \in Models : Start(r, k, m)
    \/ \E x \in Rows, t \in ResetDurs \cup {0} : Fail(r, x, t)
    \/ ApplySet(r) \/ BumpRead(r) \/ (\E d \in InitialDur : BumpWrite(r, d))
    \/ ReadKeys(r) \/ ReadModels(r) \/ Promote(r)
    \/ Succeed(r) \/ ClearChannel(r) \/ ClearKey(r) \/ ClearModel(r)
    \/ StoreError(r)

Next ==
    \/ \E r \in Requests : Step(r)
    \/ ResetAll
    \/ \E x \in Keys \cup {Channel}, t \in ResetDurs : SetManually(x, t)
    \/ Tick

Spec == Init /\ [][Next]_vars
-------------------------------------------------------------------------------
\* No failure is lost: every row carries the back-off that its failures,
\* counted one by one since the last reset, must have reached.  Two requests
\* bumping the same row never both start from the same old value.
NoLostFailure == \A x \in Rows : row[x].dur = expected[x]

\* Of the requests that cool the last free keys at the same time, at least
\* one sees that no key is left (and promotes): whenever all enabled keys
\* are cooling down, that was seen, somebody is about to look, or the read
\* that would have seen it failed (which the code only logs).
KeyExhaustionSeen ==
    AllCooling(EnabledKeys, row) > 0 =>
        "keys" \in noticed \/ \E r \in Requests : pc[r] = "keys"

\* The same for the models the channel can send, with no entry disabled.
ModelExhaustionSeen ==
    AllCooling(SendableModels, row) > 0 =>
        "models" \in noticed \/ \E r \in Requests : pc[r] \in {"keys", "models"}

\* A channel whose last free key or model goes is promoted by somebody.
ExhaustionSeen == KeyExhaustionSeen /\ ModelExhaustionSeen
===============================================================================
