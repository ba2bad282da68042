----------------------------- MODULE ChannelCache -----------------------------
(***************************************************************************)
(* storage.ChannelCache beside its database: the enabled-channel list      *)
(* (TTL, refreshes serialised by refreshMutex), the cooldown maps (TTL 30  *)
(* s, unserialised) and the API keys (no TTL).  A reader that misses loads *)
(* outside the lock and stores afterwards; a writer commits and then       *)
(* invalidates.  The content of a cache is the version of the table it was *)
(* read from.  The caches share nothing, so a behaviour exercises one; in  *)
(* "oauth" and "login" it is the channel list again, with the steps of     *)
(* OAuthCredentials and OAuthLogin.                                        *)
(***************************************************************************)
EXTENDS Integers, FiniteSets, FiniteSetsExt

CONSTANTS
    Readers, Writers,
    Caches,       \* the caches this instance exercises
    TTL,          \* c.ttl and cooldownCache.ttl, in ticks
    MaxLoad,      \* bound: ticks a load may take until its result is stored
    MaxWrites,    \* bound: committed writes of the table
    LoadErrors    \* TRUE: a load may fail

NoReader == "nobody"

ASSUME CacheAssumption ==
    /\ NoReader \notin Readers
    /\ Caches \subseteq {"channels", "cooldowns", "apiKeys", "oauth", "login"}
    /\ TTL \in Nat /\ MaxLoad \in Nat /\ MaxWrites \in Nat
    /\ LoadErrors \in BOOLEAN

Horizon == TTL + MaxLoad + 1      \* ages are told apart up to here
Versions == 0..MaxWrites

VARIABLES
    cache,     \* the cache exercised
    db,        \* committed version of its table
    wrote,     \* ticks since each version was committed (capped)
    cached,    \* cached version and ticks since lastUpdate, TTL + 1 = zero time
    refresh,   \* who holds refreshMutex
    pc,        \* readers and writers
    got,       \* version a reader has loaded
    took,      \* ticks since it was loaded
    safe,      \* history: version invalidated before a reader's call began, 0 if
               \* the entry was overtaken by then
    invalidated, \* history: highest version whose Invalidate has returned
    overtaken, \* history: the entry was loaded before the last invalidation and
               \* stored after it
    result     \* version a reader returned, -1 before

vars == <<cache, db, wrote, cached, refresh, pc, got, took, safe, invalidated, overtaken, result>>

Timed == cache \in {"channels", "cooldowns"}
Invalid == [ver |-> 0, age |-> TTL + 1]
Fresh == cached.age <= TTL

TypeOK ==
    /\ cache \in Caches
    /\ db \in Versions
    /\ wrote \in [Versions -> 0..Horizon]
    /\ cached \in [ver : Versions, age : 0..TTL + 1]
    /\ refresh \in Readers \cup {NoReader}
    /\ pc \in [Readers \cup Writers ->
                 {"idle", "refresh", "recheck", "load", "store", "returned", "invalidate"}]
    /\ got \in [Readers -> Versions]
    /\ took \in [Readers -> 0..MaxLoad]
    /\ safe \in [Readers -> Versions]
    /\ invalidated \in Versions
    /\ overtaken \in BOOLEAN
    /\ result \in [Readers -> Versions \cup {-1}]

Init ==
    /\ cache \in Caches
    /\ db = 0
    /\ wrote = [v \in Versions |-> 0]
    /\ cached = Invalid
    /\ refresh = NoReader
    /\ pc = [p \in Readers \cup Writers |-> "idle"]
    /\ got = [r \in Readers |-> 0]
    /\ took = [r \in Readers |-> 0]
    /\ safe = [r \in Readers |-> 0]
    /\ invalidated = 0
    /\ overtaken = FALSE
    /\ result = [r \in Readers |-> -1]

Goto(p, to) == pc' = [pc EXCEPT ![p] = to]

Return(r, v) ==
    /\ result' = [result EXCEPT ![r] = v]
    /\ got' = [got EXCEPT ![r] = 0]
    /\ took' = [took EXCEPT ![r] = 0]

(***************************************************************************)
(* Readers: GetEnabledChannels*, GetAll*Cooldowns, GetAPIKeys.             *)
(***************************************************************************)
\* Mutant of AfterMiss: the channel list is refreshed without refreshMutex.
AfterMissUnserialised == "load"

\* A missed channel list goes through refreshMutex, the others load at once.
AfterMiss == IF cache = "channels" THEN "refresh" ELSE "load"

\* The lookup under RLock.
Lookup(r) ==
    /\ pc[r] = "idle"
    /\ safe' = [safe EXCEPT ![r] = IF overtaken THEN 0 ELSE invalidated]
    /\ IF Fresh
       THEN Goto(r, "returned") /\ Return(r, cached.ver)
       ELSE Goto(r, AfterMiss) /\ UNCHANGED <<result, got, took>>
    /\ UNCHANGED <<cache, db, wrote, cached, refresh, invalidated, overtaken>>

\* refreshIfNeeded: take refreshMutex and check again.
TakeRefresh(r) ==
    /\ pc[r] = "refresh"
    /\ refresh = NoReader
    /\ refresh' = r
    /\ Goto(r, "recheck")
    /\ UNCHANGED <<cache, db, wrote, cached, got, took, safe, invalidated, overtaken, result>>

Recheck(r) ==
    /\ pc[r] = "recheck"
    /\ IF Fresh
       THEN /\ refresh' = NoReader
            /\ Goto(r, "returned")
            /\ Return(r, cached.ver)
       ELSE Goto(r, "load") /\ UNCHANGED <<refresh, result, got, took>>
    /\ UNCHANGED <<cache, db, wrote, cached, safe, invalidated, overtaken>>

\* The query, outside every lock.
Load(r) ==
    /\ pc[r] = "load"
    /\ got' = [got EXCEPT ![r] = db]
    /\ took' = [took EXCEPT ![r] = 0]
    /\ Goto(r, "store")
    /\ UNCHANGED <<cache, db, wrote, cached, refresh, safe, invalidated, overtaken, result>>

Unhold(r) == IF refresh = r THEN NoReader ELSE refresh

\* A failed channel-list query falls back to a query of its own, the others
\* return the error.
LoadFails(r) ==
    /\ LoadErrors
    /\ pc[r] = "load"
    /\ refresh' = Unhold(r)
    /\ IF cache = "channels"
       THEN Return(r, db) /\ Goto(r, "returned") /\ UNCHANGED safe
       ELSE UNCHANGED <<result, got, took>> /\ Goto(r, "idle") /\ safe' = [safe EXCEPT ![r] = 0]
    /\ UNCHANGED <<cache, db, wrote, cached, invalidated, overtaken>>

\* Store under the write lock and return what was loaded.
Store(r) ==
    /\ pc[r] = "store"
    /\ cached' = [ver |-> got[r], age |-> 0]
    /\ refresh' = Unhold(r)
    /\ Goto(r, "returned")
    /\ Return(r, got[r])
    /\ overtaken' = (got[r] < invalidated)
    /\ UNCHANGED <<cache, db, wrote, safe, invalidated>>

NextCall(r) ==
    /\ pc[r] = "returned"
    /\ Goto(r, "idle")
    /\ result' = [result EXCEPT ![r] = -1]
    /\ safe' = [safe EXCEPT ![r] = 0]
    /\ UNCHANGED <<cache, db, wrote, cached, refresh, got, took, invalidated, overtaken>>

(***************************************************************************)
(* Writers: a committed change, then InvalidateCache,                      *)
(* InvalidateCooldownCache or InvalidateAPIKeysCache.                      *)
(***************************************************************************)
WriteTable ==
    /\ db < MaxWrites
    /\ db' = db + 1
    /\ wrote' = [wrote EXCEPT ![db + 1] = 0]

DropCache ==
    /\ cached' = [cached EXCEPT !.age = TTL + 1]
    /\ invalidated' = db
    /\ overtaken' = FALSE

Commit(w) ==
    /\ pc[w] = "idle"
    /\ WriteTable
    /\ Goto(w, "invalidate")
    /\ UNCHANGED <<cache, cached, refresh, got, took, safe, invalidated, overtaken, result>>

Invalidate(w) ==
    /\ pc[w] = "invalidate"
    /\ DropCache
    /\ Goto(w, "idle")
    /\ UNCHANGED <<cache, db, wrote, refresh, got, took, safe, result>>

(***************************************************************************)
(* Time: the timed caches age, the API keys do not.                        *)
(***************************************************************************)
\* Mutant of Aged: the TTL never expires an entry.
AgedNever == cached

Aged == IF Timed THEN [cached EXCEPT !.age = Min({@ + 1, TTL + 1})] ELSE cached

Tick ==
    /\ \A r \in Readers : pc[r] = "store" => took[r] < MaxLoad
    /\ \A r \in Readers : pc[r] # "returned"
    /\ cached' = Aged
    /\ wrote' = [v \in Versions |-> IF Timed /\ v \in 1..db THEN Min({wrote[v] + 1, Horizon}) ELSE 0]
    /\ took' = [r \in Readers |-> IF pc[r] = "store" THEN took[r] + 1 ELSE took[r]]
    /\ UNCHANGED <<cache, db, refresh, pc, got, safe, invalidated, overtaken, result>>

Next ==
    \/ \E r \in Readers :
         \/ Lookup(r) \/ TakeRefresh(r) \/ Recheck(r) \/ Load(r) \/ LoadFails(r) \/ Store(r) \/ NextCall(r)
    \/ \E w \in Writers : Commit(w) \/ Invalidate(w)
    \/ Tick

Spec == Init /\ [][Next]_vars
-------------------------------------------------------------------------------
\* Ticks since version v of the table stopped being the current one.
Outdated(v) == IF v >= db THEN 0 ELSE wrote[v + 1]

\* A cache with a TTL never returns data that was superseded longer ago than
\* the TTL plus the time its load was under way, even when a write and its
\* invalidation fall between the load and the store.  The API keys, which have
\* no TTL, are at least as new as the last invalidation before the call, unless
\* such a load left its older list in the cache (cache.go:222-229).
StalenessBounded ==
    \A r \in Readers : result[r] >= 0 =>
        IF Timed THEN Outdated(result[r]) <= TTL + MaxLoad
        ELSE result[r] >= safe[r]

\* refreshMutex: the cached channel list never goes back to an older version,
\* not even when an invalidation came between two refreshes.
ChannelListMonotone ==
    [][cache = "channels" /\ cached'.age = 0 => cached'.ver >= cached.ver]_vars

===============================================================================
