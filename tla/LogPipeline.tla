----------------------------- MODULE LogPipeline ------------------------------
(***************************************************************************)
(* The way of a request log: LogService's bounded queue and batching       *)
(* workers, HybridStore's SQLite insert followed by the queue of copies to *)
(* the primary database, Server.Shutdown, and the start of the next        *)
(* process, which replaces SQLite's log window by the primary's.           *)
(*                                                                         *)
(* The retry of a batch and the size of a batch are those of the code, the *)
(* queues are shortened.  Retention is one step over a settled entry.      *)
(***************************************************************************)
EXTENDS Integers, Sequences, FiniteSets, SequencesExt

CONSTANTS
    Logs,         \* entries, one AddLogAsync call each
    Workers,      \* logWorker goroutines
    BufferSize,   \* capacity of logChan
    BatchSize,    \* LogBatchSize
    MaxRetries,   \* LogFlushMaxRetries
    SyncCap,      \* syncQueueSize
    MaxErrors,    \* bound: store calls that fail
    MaxRestarts   \* bound: ends of the process

ASSUME LogAssumption ==
    /\ IsFiniteSet(Logs) /\ IsFiniteSet(Workers)
    /\ {BufferSize, BatchSize, MaxRetries, SyncCap} \subseteq Nat \ {0}
    /\ MaxErrors \in Nat /\ MaxRestarts \in Nat

VARIABLES
    pc,        \* callers of AddLogAsync
    logChan,
    worker,    \* logWorkers: step, batch, attempts made and allowed, draining
    local,     \* logs table of SQLite
    inserts,   \* history: times an entry was inserted there
    syncCh,    \* batches for the primary
    copier,    \* syncWorker: step and batch in hand
    backup,    \* logs table of the primary
    stage,     \* Server.Shutdown and HybridStore.Close
    clean,     \* history: Shutdown saw every worker exit
    failed,    \* given up by flushLogs with an error log
    unsynced,  \* dropped, failed or left behind on the way to the primary
    gone,      \* in memory when the process died, or expired
    early,     \* history: queued before shutdownCh was closed
    errors, restarts

callVars == <<pc, logChan, early>>
tableVars == <<local, inserts, backup>>
fateVars == <<failed, unsynced, gone>>
vars == <<callVars, worker, tableVars, syncCh, copier, stage, clean, fateVars, errors, restarts>>

flag == stage # "up"                         \* isShuttingDown
sig == stage \notin {"up", "flag"}           \* shutdownCh closed
open == stage \notin {"closed", "dead"}      \* both databases open

IdleWorker == [at |-> "run", batch |-> {}, tries |-> 0, max |-> 0, draining |-> FALSE]
IdleCopier == [at |-> "run", task |-> {}]

TypeOK ==
    /\ pc \in [Logs -> {"idle", "send", "sent", "refused", "dropped"}]
    /\ logChan \in Seq(Logs) /\ Len(logChan) <= BufferSize
    /\ worker \in [Workers -> [at : {"run", "flush", "backoff", "enqueue", "exited"},
                               batch : SUBSET Logs, tries : 0..MaxRetries,
                               max : 0..MaxRetries, draining : BOOLEAN]]
    /\ local \subseteq Logs /\ backup \subseteq Logs /\ inserts \in [Logs -> Nat]
    /\ syncCh \in Seq(SUBSET Logs) /\ Len(syncCh) <= SyncCap
    /\ copier \in [at : {"run", "copy", "drain", "drainCopy", "exited"}, task : SUBSET Logs]
    /\ stage \in {"up", "flag", "wait", "stop", "closed", "dead"}
    /\ clean \in BOOLEAN
    /\ failed \subseteq Logs /\ unsynced \subseteq Logs
    /\ gone \subseteq Logs /\ early \subseteq Logs
    /\ errors \in 0..MaxErrors /\ restarts \in 0..MaxRestarts

Init ==
    /\ pc = [l \in Logs |-> "idle"] /\ logChan = <<>> /\ early = {}
    /\ worker = [w \in Workers |-> IdleWorker]
    /\ local = {} /\ inserts = [l \in Logs |-> 0] /\ backup = {}
    /\ syncCh = <<>> /\ copier = IdleCopier
    /\ stage = "up" /\ clean = FALSE
    /\ failed = {} /\ unsynced = {} /\ gone = {}
    /\ errors = 0 /\ restarts = 0

(***************************************************************************)
(* AddLogAsync: the flag is read first, the send comes later.              *)
(***************************************************************************)
CheckFlag(l) ==
    /\ pc[l] = "idle" /\ stage # "dead"
    /\ pc' = [pc EXCEPT ![l] = IF flag THEN "refused" ELSE "send"]
    /\ UNCHANGED <<logChan, early, worker, tableVars, syncCh, copier, stage, clean,
                   fateVars, errors, restarts>>

AddLogAsync(l) ==
    /\ pc[l] = "send" /\ stage # "dead"
    /\ IF Len(logChan) < BufferSize
       THEN /\ logChan' = Append(logChan, l)
            /\ pc' = [pc EXCEPT ![l] = "sent"]
            /\ early' = IF sig THEN early ELSE early \cup {l}
       ELSE /\ pc' = [pc EXCEPT ![l] = "dropped"]
            /\ UNCHANGED <<logChan, early>>
    /\ UNCHANGED <<worker, tableVars, syncCh, copier, stage, clean, fateVars, errors, restarts>>

(***************************************************************************)
(* logWorker.                                                              *)
(***************************************************************************)
\* flushLogs begins: no retries once shutdown has begun.
Flushing(rec) == [rec EXCEPT !.at = "flush", !.tries = 0, !.max = IF flag THEN 1 ELSE MaxRetries]

Receive(w) ==
    LET got == [worker[w] EXCEPT !.batch = @ \cup {Head(logChan)}] IN
    /\ worker[w].at = "run" /\ logChan # <<>> /\ stage # "dead"
    /\ logChan' = Tail(logChan)
    /\ worker' = [worker EXCEPT ![w] =
                     IF Cardinality(got.batch) >= BatchSize THEN Flushing(got) ELSE got]
    /\ UNCHANGED <<pc, early, tableVars, syncCh, copier, stage, clean, fateVars, errors, restarts>>

\* The ticker flushes what there is.
Tick(w) ==
    /\ worker[w].at = "run" /\ ~ worker[w].draining /\ worker[w].batch # {} /\ stage # "dead"
    /\ worker' = [worker EXCEPT ![w] = Flushing(@)]
    /\ UNCHANGED <<callVars, tableVars, syncCh, copier, stage, clean, fateVars, errors, restarts>>

\* Mutant: the worker leaves on the signal with what it has.
Drain_LeaveQueue(w) ==
    /\ worker[w].at = "run" /\ sig /\ stage # "dead"
    /\ worker' = [worker EXCEPT ![w] =
            IF worker[w].batch = {} THEN [worker[w] EXCEPT !.at = "exited", !.draining = TRUE]
            ELSE Flushing([worker[w] EXCEPT !.draining = TRUE])]
    /\ UNCHANGED <<callVars, tableVars, syncCh, copier, stage, clean, fateVars, errors, restarts>>

\* shutdownCh: take what is queued, flush it, leave when the queue is empty.
Drain(w) ==
    LET rec == [worker[w] EXCEPT !.draining = TRUE] IN
    /\ worker[w].at = "run" /\ sig /\ stage # "dead"
    /\ worker[w].draining => logChan = <<>>
    /\ worker' = [worker EXCEPT ![w] =
            IF logChan # <<>> THEN rec
            ELSE IF rec.batch = {} THEN [rec EXCEPT !.at = "exited"]
            ELSE Flushing(rec)]
    /\ UNCHANGED <<callVars, tableVars, syncCh, copier, stage, clean, fateVars, errors, restarts>>

\* flushLogs returns; the flush of what was left at the end of a drain, less
\* than a full batch, is the worker's last step.
Done(rec) ==
    [rec EXCEPT !.batch = {},
                !.at = IF rec.draining /\ Cardinality(rec.batch) < BatchSize THEN "exited" ELSE "run"]

\* One attempt: SQLite takes the batch in one transaction.
FlushInsert(w) ==
    /\ worker[w].at = "flush" /\ open
    /\ local' = local \cup worker[w].batch
    /\ inserts' = [l \in Logs |-> IF l \in worker[w].batch THEN inserts[l] + 1 ELSE inserts[l]]
    /\ worker' = [worker EXCEPT ![w].at = "enqueue"]
    /\ UNCHANGED <<callVars, backup, syncCh, copier, stage, clean, fateVars, errors, restarts>>

\* Mutant: the batch is kept for the next flush after its last attempt.
FlushError_KeepBatch(w) ==
    LET tries == worker[w].tries + 1 IN
    /\ worker[w].at = "flush" /\ stage # "dead"
    /\ (open => errors < MaxErrors) /\ errors' = IF open THEN errors + 1 ELSE errors
    /\ IF tries < worker[w].max /\ ~ flag
       THEN /\ worker' = [worker EXCEPT ![w].at = "backoff", ![w].tries = tries]
            /\ UNCHANGED failed
       ELSE /\ worker' = [worker EXCEPT ![w].at = "run"]
            /\ failed' = failed \cup worker[w].batch
    /\ UNCHANGED <<callVars, tableVars, syncCh, copier, stage, clean, unsynced, gone, restarts>>

\* The attempt fails, because the store is closed or for a reason of its own:
\* back off and retry, unless it was the last or shutdown has begun.
FlushError(w) ==
    LET tries == worker[w].tries + 1 IN
    /\ worker[w].at = "flush" /\ stage # "dead"
    /\ (open => errors < MaxErrors) /\ errors' = IF open THEN errors + 1 ELSE errors
    /\ IF tries < worker[w].max /\ ~ flag
       THEN /\ worker' = [worker EXCEPT ![w].at = "backoff", ![w].tries = tries]
            /\ UNCHANGED failed
       ELSE /\ worker' = [worker EXCEPT ![w] = Done(@)]
            /\ failed' = failed \cup worker[w].batch
    /\ UNCHANGED <<callVars, tableVars, syncCh, copier, stage, clean, unsynced, gone, restarts>>

\* The timer ends the back-off, or shutdownCh ends the retries.
Backoff(w) ==
    /\ worker[w].at = "backoff" /\ stage # "dead"
    /\ \/ /\ worker' = [worker EXCEPT ![w].at = "flush"]
          /\ UNCHANGED failed
       \/ /\ sig
          /\ worker' = [worker EXCEPT ![w] = Done(@)]
          /\ failed' = failed \cup worker[w].batch
    /\ UNCHANGED <<callVars, tableVars, syncCh, copier, stage, clean, unsynced, gone,
                   errors, restarts>>

\* Mutant: a full queue of copies is passed over without a count.
EnqueueLogSync_Silent(w) ==
    /\ worker[w].at = "enqueue" /\ stage # "dead"
    /\ syncCh' = IF Len(syncCh) < SyncCap THEN Append(syncCh, worker[w].batch) ELSE syncCh
    /\ worker' = [worker EXCEPT ![w] = Done(@)]
    /\ UNCHANGED <<callVars, tableVars, copier, stage, clean, failed, unsynced, gone, errors, restarts>>

\* enqueueLogSync: the rest of BatchAddLogs, never blocking.
EnqueueLogSync(w) ==
    /\ worker[w].at = "enqueue" /\ stage # "dead"
    /\ IF Len(syncCh) < SyncCap
       THEN syncCh' = Append(syncCh, worker[w].batch) /\ UNCHANGED unsynced
       ELSE unsynced' = unsynced \cup worker[w].batch /\ UNCHANGED syncCh
    /\ worker' = [worker EXCEPT ![w] = Done(@)]
    /\ UNCHANGED <<callVars, tableVars, copier, stage, clean, failed, gone, errors, restarts>>

(***************************************************************************)
(* syncWorker.                                                             *)
(***************************************************************************)
CopierTakes ==
    /\ copier.at \in {"run", "drain"} /\ syncCh # <<>> /\ stage # "dead"
    /\ copier' = [at |-> IF copier.at = "run" THEN "copy" ELSE "drainCopy", task |-> Head(syncCh)]
    /\ syncCh' = Tail(syncCh)
    /\ UNCHANGED <<callVars, worker, tableVars, stage, clean, fateVars, errors, restarts>>

\* executeSyncTask: an error is logged, the batch is not tried again.
ExecuteSyncTask ==
    /\ copier.at \in {"copy", "drainCopy"} /\ stage # "dead"
    /\ \/ /\ backup' = backup \cup copier.task
          /\ UNCHANGED <<unsynced, errors>>
       \/ /\ errors < MaxErrors /\ errors' = errors + 1
          /\ unsynced' = unsynced \cup copier.task
          /\ UNCHANGED backup
    /\ copier' = [at |-> IF copier.at = "copy" THEN "run" ELSE "drain", task |-> {}]
    /\ UNCHANGED <<callVars, worker, local, inserts, syncCh, stage, clean, failed, gone, restarts>>

\* stopCh, then drainSyncQueue until the queue is empty or its time is over.
DrainSyncQueue ==
    /\ stage = "stop"
    /\ \/ copier.at = "run" /\ copier' = [copier EXCEPT !.at = "drain"]
       \/ /\ copier.at = "drain"
          /\ copier' = [copier EXCEPT !.at = "exited"]
    /\ unsynced' = IF copier'.at = "exited"
                   THEN unsynced \cup UNION {syncCh[i] : i \in DOMAIN syncCh}
                   ELSE unsynced
    /\ UNCHANGED <<callVars, worker, tableVars, syncCh, stage, clean, failed, gone,
                   errors, restarts>>

(***************************************************************************)
(* Server.Shutdown, HybridStore.Close, the end of the process and the next *)
(* start.                                                                  *)
(***************************************************************************)
\* isShuttingDown is set, then shutdownCh is closed.
Shutdown ==
    /\ \/ stage = "up" /\ stage' = "flag"
       \/ stage = "flag" /\ stage' = "wait"
    /\ UNCHANGED <<callVars, worker, tableVars, syncCh, copier, clean, fateVars,
                   errors, restarts>>

\* Mutant: the store is closed without waiting for the workers.
WaitWorkers_Skip ==
    /\ stage = "wait"
    /\ clean' = TRUE
    /\ stage' = "stop"
    /\ UNCHANGED <<callVars, worker, tableVars, syncCh, copier, fateVars, errors, restarts>>

\* wg.Wait, or the context's deadline; then store.Close.
WaitWorkers ==
    /\ stage = "wait"
    /\ clean' = (\A w \in Workers : worker[w].at = "exited")
    /\ stage' = "stop"
    /\ UNCHANGED <<callVars, worker, tableVars, syncCh, copier, fateVars, errors, restarts>>

\* syncWg.Wait, then both databases are closed.
CloseDatabases ==
    /\ stage = "stop" /\ copier.at = "exited"
    /\ stage' = "closed"
    /\ UNCHANGED <<callVars, worker, tableVars, syncCh, copier, clean, fateVars,
                   errors, restarts>>

InMemory ==
    ToSet(logChan) \cup (UNION {worker[w].batch : w \in Workers}) \cup copier.task
    \cup (UNION {syncCh[i] : i \in DOMAIN syncCh}) \cup {l \in Logs : pc[l] = "send"}

\* The process ends: what is in memory is lost.
Exit ==
    /\ stage # "dead" /\ restarts < MaxRestarts
    /\ gone' = gone \cup InMemory
    /\ stage' = "dead"
    /\ restarts' = restarts + 1
    /\ pc' = [l \in Logs |-> IF pc[l] = "send" THEN "refused" ELSE pc[l]]
    /\ logChan' = <<>> /\ early' = {}
    /\ worker' = [w \in Workers |-> IdleWorker]
    /\ syncCh' = <<>> /\ copier' = IdleCopier
    /\ UNCHANGED <<tableVars, clean, failed, unsynced, errors>>

\* RestoreOnStartup: restoreLogsSnapshot replaces the log window of SQLite by
\* the primary's, in one transaction; an error, or logDays = 0, keeps it.
RestoreLogsSnapshot ==
    /\ stage = "dead"
    /\ local' \in {local, backup}
    /\ stage' = "up" /\ clean' = FALSE
    /\ UNCHANGED <<callVars, worker, inserts, backup, syncCh, copier, fateVars,
                   errors, restarts>>

\* cleanupOldLogsLoop, CleanupLogsBefore: first the primary, then SQLite,
\* whose error is only counted.  Retention is days: the entry is settled.
CleanupLogsBefore(l) ==
    /\ stage \in {"up", "flag"} /\ l \in (local \cup backup) \ InMemory
    /\ backup' = backup \ {l}
    /\ local' \in {local, local \ {l}}
    /\ gone' = gone \cup {l}
    /\ UNCHANGED <<callVars, worker, inserts, syncCh, copier, stage, clean, failed, unsynced,
                   errors, restarts>>

WorkerNext(w) ==
    \/ Receive(w) \/ Tick(w) \/ Drain(w) \/ FlushInsert(w) \/ FlushError(w)
    \/ Backoff(w) \/ EnqueueLogSync(w)

Next ==
    \/ \E l \in Logs : CheckFlag(l) \/ AddLogAsync(l) \/ CleanupLogsBefore(l)
    \/ \E w \in Workers : WorkerNext(w)
    \/ CopierTakes \/ ExecuteSyncTask \/ DrainSyncQueue
    \/ Shutdown \/ WaitWorkers \/ CloseDatabases \/ Exit \/ RestoreLogsSnapshot

Spec == Init /\ [][Next]_vars

\* The goroutine of every worker runs, and its ticker ticks.
FairSpec == Spec /\ \A w \in Workers : WF_vars(WorkerNext(w))
-------------------------------------------------------------------------------
(* Where an accepted entry is: exactly one of these, and in SQLite at most   *)
(* once, over retries, several workers, shutdown and restart.                *)
Places(l) ==
    {p \in {"queue", "batch", "table", "failed", "gone"} :
        CASE p = "queue" -> l \in ToSet(logChan)
          [] p = "batch" -> \E w \in Workers :
                              l \in worker[w].batch /\ worker[w].at # "enqueue"
          [] p = "table" -> inserts[l] = 1
          [] p = "failed" -> l \in failed
          [] OTHER -> l \in gone /\ inserts[l] = 0}
AcceptedOnce ==
    \A l \in Logs :
        /\ pc[l] = "sent" => Cardinality(Places(l)) = 1
        /\ inserts[l] <= 1

(* After a shutdown that saw its workers leave, every entry of SQLite has    *)
(* its copy in the primary or was counted or logged as missing there.        *)
CleanCloseCopies ==
    stage = "closed" /\ clean =>
        \A l \in Logs : inserts[l] > 0 => l \in backup \cup unsynced \cup gone

(* An entry of SQLite disappears from it, at the next start, only when its   *)
(* copy was counted or logged as missing, died with the process or expired.  *)
LocalLossExplained ==
    \A l \in Logs : inserts[l] > 0 => l \in local \cup unsynced \cup gone

(* The two log tables agree, or the difference was counted, logged or died   *)
(* with a process: across the copy queue, its drain and the snapshot a       *)
(* restart replaces SQLite's entries with.                                   *)
CopiesExplained == CleanCloseCopies /\ LocalLossExplained

(* No entry is lost without a trace or inserted twice between the handler    *)
(* that logs it (log_service.go), the queue of copies (hybrid_store.go) and  *)
(* the next start (sync_manager.go).                                         *)
LogsAccounted == AcceptedOnce /\ CopiesExplained

(* An entry queued before the signal is inserted or given up with an error,  *)
(* unless the process dies.                                                  *)
EarlyLogsSettle ==
    \A l \in Logs : l \in early ~> inserts[l] > 0 \/ l \in failed \/ l \in gone
===============================================================================
