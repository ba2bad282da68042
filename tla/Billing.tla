------------------------------- MODULE Billing --------------------------------
(***************************************************************************)
(* From a finished request to the books: the token's cost limit and        *)
(* concurrency slot (AuthService), the bounded token-statistics queue and  *)
(* its worker (updateTokenStatsAsync, tokenStatsWorker), the reload of the *)
(* token's limits, and Server.Shutdown, which stops the worker and closes  *)
(* the store.                                                              *)
(*                                                                         *)
(* One token; every successful request costs 1.  A handler may outlive the *)
(* HTTP server: main closes connections after 5 s without waiting for it.  *)
(***************************************************************************)
EXTENDS Integers, Sequences, FiniteSets, FiniteSetsExt

CONSTANTS
    Requests,        \* handlers, one request each
    Callers,         \* callers of Server.Shutdown
    Limits,          \* cost limits an administrator sets, 0 = none
    MaxConcurrency,  \* the token's max_concurrency, 0 = unlimited
    StatsCap,        \* capacity of tokenStatsCh
    StoreErrors,     \* TRUE: writes to the open store may fail
    MaxEdits,        \* bound: edits of the token by the administrator
    Nil

ASSUME BillingAssumption ==
    /\ IsFiniteSet(Requests) /\ Nil \notin Requests /\ Nil \notin Callers
    /\ Limits \subseteq Nat /\ MaxConcurrency \in Nat
    /\ StatsCap \in Nat \ {0}
    /\ StoreErrors \in BOOLEAN /\ MaxEdits \in Nat

VARIABLES
    pc,        \* handlers
    ok,        \* the request succeeded (and costs 1)
    statsQ,    \* tokenStatsCh
    stats,     \* tokenStatsWorker: its step and the update in hand
    limit, used,       \* authTokenCostLimits entry (limit 0 = no entry)
    dbLimit, dbUsed,   \* auth_tokens row
    reload,    \* ReloadAuthTokens in progress: what it listed, Nil = none
    edits,
    flag,      \* isShuttingDown
    sig,       \* shutdownCh closed
    open,      \* the store is open
    down,      \* callers of Shutdown
    clean,     \* Shutdown saw every worker exit
    charged,   \* times a request's update reached the database
    dropped,   \* updates given up with a counter or an error log
    early,     \* history: updates queued before shutdownCh was closed,
    raced      \* and handlers between isShuttingDown and the queue when it was set

bookVars == <<limit, used, dbLimit, dbUsed, reload, edits>>
downVars == <<flag, sig, open, down, clean, raced>>
outcome == <<charged, dropped, early>>
vars == <<pc, ok, statsQ, stats, bookVars, downVars,
          outcome>>

Active == {r \in Requests : pc[r] \notin {"new", "rejected", "done"}}
Costs == 0..2 * Cardinality(Requests)

TypeOK ==
    /\ pc \in [Requests -> {"new", "admit", "run", "stats", "send",
                            "count", "write", "release", "rejected", "done"}]
    /\ ok \in [Requests -> BOOLEAN]
    /\ statsQ \in Seq(Requests) /\ Len(statsQ) <= StatsCap
    /\ stats \in [at : {"run", "count", "write", "exited"}, item : Requests \cup {Nil},
                  draining : BOOLEAN]
    /\ limit \in Limits /\ dbLimit \in Limits /\ used \in Costs /\ dbUsed \in Costs
    /\ reload \in {Nil} \cup [limit : Limits, used : Costs]
    /\ edits \in 0..MaxEdits
    /\ flag \in BOOLEAN /\ sig \in BOOLEAN /\ open \in BOOLEAN /\ clean \in BOOLEAN
    /\ down \in [Callers -> {"idle", "signal", "wait", "close", "waitDone", "nil", "error"}]
    /\ charged \in [Requests -> 0..2]
    /\ dropped \subseteq Requests /\ early \subseteq Requests /\ raced \subseteq Requests

Init ==
    /\ pc = [r \in Requests |-> "new"]
    /\ ok = [r \in Requests |-> FALSE]
    /\ statsQ = <<>>
    /\ stats = [at |-> "run", item |-> Nil, draining |-> FALSE]
    /\ dbLimit \in Limits /\ limit = dbLimit /\ used = 0 /\ dbUsed = 0
    /\ reload = Nil /\ edits = 0
    /\ flag = FALSE /\ sig = FALSE /\ open = TRUE /\ clean = FALSE
    /\ down = [c \in Callers |-> "idle"]
    /\ charged = [r \in Requests |-> 0]
    /\ dropped = {} /\ early = {} /\ raced = {}

Goto(r, from, to) == pc[r] = from /\ pc' = [pc EXCEPT ![r] = to]

(***************************************************************************)
(* Admission: RequireAPIAuth takes a slot, enforceTokenLimits looks at the *)
(* cost cache.                                                             *)
(***************************************************************************)
\* acquireTokenConcurrencySlot; no request arrives once the listener is closed.
Arrive(r) ==
    /\ ~flag
    /\ Goto(r, "new", IF MaxConcurrency > 0 /\ Cardinality(Active) >= MaxConcurrency
                      THEN "rejected" ELSE "admit")
    /\ UNCHANGED <<ok, statsQ, stats, bookVars, downVars, outcome>>

IsCostLimitExceeded == limit > 0 /\ used >= limit

enforceTokenLimits(r) ==
    /\ Goto(r, "admit", IF IsCostLimitExceeded THEN "rejected" ELSE "run")
    /\ UNCHANGED <<ok, statsQ, stats, bookVars, downVars, outcome>>

Finish(r, success) ==
    /\ Goto(r, "run", "stats")
    /\ ok' = [ok EXCEPT ![r] = success]
    /\ UNCHANGED <<statsQ, stats, bookVars, downVars, outcome>>

(***************************************************************************)
(* applyTokenStatsUpdate: the cost cache first, then the database.         *)
(***************************************************************************)
AddCostToCache(r) == used' = IF ok[r] /\ limit > 0 THEN used + 1 ELSE used

\* Mutant of UpdateTokenStats: a failed write is not logged.
UpdateTokenStatsQuietly(r) ==
    \/ /\ open
       /\ charged' = [charged EXCEPT ![r] = @ + 1]
       /\ dbUsed' = IF ok[r] THEN dbUsed + 1 ELSE dbUsed
       /\ UNCHANGED dropped
    \/ UNCHANGED <<charged, dbUsed, dropped>>

UpdateTokenStats(r) ==
    \/ /\ open
       /\ charged' = [charged EXCEPT ![r] = @ + 1]
       /\ dbUsed' = IF ok[r] THEN dbUsed + 1 ELSE dbUsed
       /\ UNCHANGED dropped
    \/ /\ ~open \/ StoreErrors
       /\ dropped' = dropped \cup {r}
       /\ UNCHANGED <<charged, dbUsed>>

(***************************************************************************)
(* updateTokenStatsAsync.                                                  *)
(***************************************************************************)
\* Mutant of updateTokenStatsAsync: the queue is used during shutdown too.
updateTokenStatsQueued(r) ==
    /\ Goto(r, "stats", "send")
    /\ UNCHANGED <<ok, statsQ, stats, bookVars, downVars, outcome>>

\* Mutant of updateTokenStatsAsync: the synchronous write does not return.
updateTokenStatsTwice(r) ==
    /\ pc[r] = "stats"
    /\ pc' = [pc EXCEPT ![r] = IF flag THEN "count" ELSE "send"]
    /\ statsQ' = IF flag /\ Len(statsQ) < StatsCap THEN Append(statsQ, r) ELSE statsQ
    /\ UNCHANGED <<ok, stats, bookVars, downVars, outcome>>

\* During shutdown the update is applied by the handler itself.
updateTokenStatsAsync(r) ==
    /\ Goto(r, "stats", IF flag THEN "count" ELSE "send")
    /\ UNCHANGED <<ok, statsQ, stats, bookVars, downVars, outcome>>

CountSync(r) ==
    /\ Goto(r, "count", "write")
    /\ AddCostToCache(r)
    /\ UNCHANGED <<ok, statsQ, stats, limit, dbLimit, dbUsed, reload, edits, downVars, outcome>>

WriteSync(r) ==
    /\ Goto(r, "write", "release")
    /\ UpdateTokenStats(r)
    /\ UNCHANGED <<ok, statsQ, stats, limit, used, dbLimit, reload, edits, downVars, early>>

\* A success waits 100 ms for room, a failure does not; a full queue drops
\* the update and counts it.
SendStats(r) ==
    /\ Goto(r, "send", "release")
    /\ \/ /\ Len(statsQ) < StatsCap
          /\ statsQ' = Append(statsQ, r)
          /\ early' = IF sig THEN early ELSE early \cup {r}
          /\ UNCHANGED dropped
       \/ /\ Len(statsQ) = StatsCap
          /\ dropped' = dropped \cup {r}
          /\ UNCHANGED <<statsQ, early>>
    /\ UNCHANGED <<ok, stats, bookVars, downVars, charged>>

\* The handler returns and gives its slot back.
ReleaseSlot(r) ==
    /\ Goto(r, "release", "done")
    /\ UNCHANGED <<ok, statsQ, stats, bookVars, downVars, outcome>>

(***************************************************************************)
(* tokenStatsWorker and drainTokenStats.                                   *)
(***************************************************************************)
handlerVars == <<pc, ok>>

TakeStats ==
    /\ stats.at = "run" /\ statsQ # <<>>
    /\ stats' = [stats EXCEPT !.at = "count", !.item = Head(statsQ)]
    /\ statsQ' = Tail(statsQ)
    /\ UNCHANGED <<handlerVars, bookVars, downVars, outcome>>

CountStats ==
    /\ stats.at = "count"
    /\ AddCostToCache(stats.item)
    /\ stats' = [stats EXCEPT !.at = "write"]
    /\ UNCHANGED <<handlerVars, statsQ, limit, dbLimit, dbUsed, reload, edits, downVars, outcome>>

WriteStats ==
    /\ stats.at = "write"
    /\ UpdateTokenStats(stats.item)
    /\ stats' = [stats EXCEPT !.at = "run", !.item = Nil]
    /\ UNCHANGED <<handlerVars, statsQ, limit, used, dbLimit, reload, edits, downVars, early>>

\* Mutant of SeeSignal: the worker watches only its queue.
SeeSignalNever == FALSE /\ UNCHANGED vars

SeeSignal ==
    /\ stats.at = "run" /\ sig /\ ~stats.draining
    /\ stats' = [stats EXCEPT !.draining = TRUE]
    /\ UNCHANGED <<handlerVars, statsQ, bookVars, downVars, outcome>>

\* Mutant of StatsExit: the worker leaves without draining.
StatsExitAtOnce ==
    /\ stats.at = "run" /\ sig
    /\ stats' = [stats EXCEPT !.at = "exited"]
    /\ UNCHANGED <<handlerVars, statsQ, bookVars, downVars, outcome>>

StatsExit ==
    /\ stats.at = "run" /\ stats.draining /\ statsQ = <<>>
    /\ stats' = [stats EXCEPT !.at = "exited"]
    /\ UNCHANGED <<handlerVars, statsQ, bookVars, downVars, outcome>>

(***************************************************************************)
(* The administrator edits the token: HandleUpdateAuthToken writes the row *)
(* and reloads; ReloadAuthTokens lists outside the lock and swaps later.   *)
(***************************************************************************)
requestVars == <<pc, ok, statsQ, stats>>

EditToken(l) ==
    /\ open /\ ~flag /\ edits < MaxEdits /\ reload = Nil
    /\ edits' = edits + 1
    /\ dbLimit' = l
    /\ reload' = [limit |-> l, used |-> dbUsed]
    /\ UNCHANGED <<requestVars, limit, used, dbUsed, downVars, outcome>>

\* Mutant of ReloadAuthTokens: the listed value replaces the cached one.
ReloadOverwrites ==
    /\ reload # Nil
    /\ limit' = reload.limit
    /\ used' = IF reload.limit = 0 THEN 0 ELSE reload.used
    /\ reload' = Nil
    /\ UNCHANGED <<requestVars, dbLimit, dbUsed, edits, downVars, outcome>>

\* Mutant of ReloadAuthTokens: the listed value is added to the cached one.
ReloadAdds ==
    /\ reload # Nil
    /\ limit' = reload.limit
    /\ used' = IF reload.limit = 0 THEN 0 ELSE used + reload.used
    /\ reload' = Nil
    /\ UNCHANGED <<requestVars, dbLimit, dbUsed, edits, downVars, outcome>>

ReloadAuthTokens ==
    /\ reload # Nil
    /\ limit' = reload.limit
    /\ used' = CASE reload.limit = 0 -> 0
                 [] reload.limit > 0 /\ limit = 0 -> reload.used
                 [] OTHER -> Max({used, reload.used})
    /\ reload' = Nil
    /\ UNCHANGED <<requestVars, dbLimit, dbUsed, edits, downVars, outcome>>

(***************************************************************************)
(* Server.Shutdown.                                                        *)
(***************************************************************************)
Call(c) ==
    /\ down[c] = "idle"
    /\ flag' = TRUE
    /\ raced' = IF flag THEN raced ELSE {r \in Requests : pc[r] = "send"}
    /\ down' = [down EXCEPT ![c] = IF flag THEN "waitDone" ELSE "signal"]
    /\ UNCHANGED <<requestVars, bookVars, sig, open, clean, outcome>>

Signal(c) ==
    /\ down[c] = "signal"
    /\ sig' = TRUE
    /\ down' = [down EXCEPT ![c] = "wait"]
    /\ UNCHANGED <<requestVars, bookVars, flag, open, clean, raced, outcome>>

\* Until the worker is gone or the context ends.
Wait(c) ==
    /\ down[c] = "wait"
    /\ \/ stats.at = "exited" /\ clean' = TRUE
       \/ UNCHANGED clean
    /\ down' = [down EXCEPT ![c] = "close"]
    /\ UNCHANGED <<requestVars, bookVars, flag, sig, open, raced, outcome>>

CloseStore(c) ==
    /\ down[c] = "close"
    /\ open' = FALSE
    /\ down' = [down EXCEPT ![c] = IF clean THEN "nil" ELSE "error"]
    /\ UNCHANGED <<requestVars, bookVars, flag, sig, clean, raced, outcome>>

\* A second call waits for shutdownDone or its own context.
AwaitDone(c) ==
    /\ down[c] = "waitDone"
    /\ down' = [down EXCEPT ![c] = IF open THEN "error" ELSE "nil"]
    /\ UNCHANGED <<requestVars, bookVars, flag, sig, open, clean, raced, outcome>>

Handler(r) ==
    \/ Arrive(r) \/ enforceTokenLimits(r) \/ (\E b \in BOOLEAN : Finish(r, b))
    \/ updateTokenStatsAsync(r) \/ SendStats(r)
    \/ CountSync(r) \/ WriteSync(r) \/ ReleaseSlot(r)

StatsWorker == TakeStats \/ CountStats \/ WriteStats \/ SeeSignal \/ StatsExit
Shutdown(c) == Call(c) \/ Signal(c) \/ Wait(c) \/ CloseStore(c) \/ AwaitDone(c)

Next ==
    \/ \E r \in Requests : Handler(r)
    \/ StatsWorker
    \/ (\E l \in Limits : EditToken(l)) \/ ReloadAuthTokens
    \/ \E c \in Callers : Shutdown(c)

Spec == Init /\ [][Next]_vars

(***************************************************************************)
(* Fairness: the goroutines run; nobody has to call Shutdown, send a       *)
(* request or edit a token.  No fairness of the wait group: the context    *)
(* may end first.                                                          *)
(***************************************************************************)
FairSpec ==
    /\ Spec
    /\ WF_vars(StatsWorker)
    /\ \A c \in Callers : WF_vars(Signal(c) \/ Wait(c) \/ CloseStore(c) \/ AwaitDone(c))
-------------------------------------------------------------------------------
Queued(q) == {q[i] : i \in DOMAIN q}
Holds(b) == IF b THEN 1 ELSE 0

\* Updates in the queue when the worker is gone: nobody takes them, counts them or
\* logs them.
Stranded == IF stats.at = "exited" THEN Queued(statsQ) ELSE {}

\* Handlers that Shutdown overtook between their look at isShuttingDown
\* (proxy_error.go:463) and the queue, and that queued after shutdownCh was closed.
Overtaken == raced \ early

\* A finished request's usage is queued for a worker that is still there, in the
\* worker's hands, in the database, or was given up with a counter or an error.
\* It is lost without a trace only when Shutdown overtook its handler.
UpdatesConserved ==
    \A r \in Requests : pc[r] \in {"release", "done"} =>
        \/ r \in (Queued(statsQ) \ Stranded) \cup {stats.item} \cup dropped
        \/ charged[r] > 0
        \/ r \in Stranded \cap Overtaken

\* ... and it is booked at most once, whichever path took it.
ChargedOnce == \A r \in Requests : charged[r] + Holds(r \in Queued(statsQ) \cup {stats.item}) <= 1

\* The row has at most the cost of the requests booked, the cache that of the
\* requests that were booked, given up or are being written: neither counts a
\* request twice, whichever path, drain or reload took its cost there.
Booked == {r \in Requests : charged[r] > 0}
InWriting(r) == pc[r] = "write" \/ (stats.at = "write" /\ stats.item = r)
Counted == {r \in Requests : charged[r] > 0 \/ r \in dropped \/ InWriting(r)}

CostsEarned == dbUsed <= Cardinality(Booked) /\ used <= Cardinality(Counted)

\* Every finished request's usage is booked once or given up in the open, on
\* the queue, on the synchronous path past it and through the final drain, except
\* for handlers that Shutdown overtook between isShuttingDown and the queue; and
\* neither the token's row nor its cached cost counts it twice.
UsageBookedOnce == UpdatesConserved /\ ChargedOnce /\ CostsEarned

\* A reload never takes back charges of a token whose limit stays in force.
ReloadKeepsCharges == [][limit > 0 /\ limit' > 0 => used' >= used]_vars

\* Once somebody calls Shutdown the call returns, and the worker leaves even
\* when handlers go on queueing.
ShutdownEnds ==
    \A c \in Callers :
        (down[c] # "idle") ~> (down[c] \in {"nil", "error"} /\ stats.at = "exited")
===============================================================================
