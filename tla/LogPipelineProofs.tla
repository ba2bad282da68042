--------------------------- MODULE LogPipelineProofs ---------------------------
(***************************************************************************)
(* LogPipeline for every finite set of entries and workers, any capacities *)
(* of its queues, batch size and retries, and any failures and restarts.   *)
(***************************************************************************)
EXTENDS LogPipeline, FiniteSetTheorems, TLAPS

WorkerRecords ==
    [at : {"run", "flush", "backoff", "enqueue", "exited"}, batch : SUBSET Logs,
     tries : 0..MaxRetries, max : 0..MaxRetries, draining : BOOLEAN]
CopierRecords == [at : {"run", "copy", "drain", "drainCopy", "exited"}, task : SUBSET Logs]

\* What a worker is still to insert, and what it has inserted and is still to
\* offer to the copier.
Held(w) == IF worker[w].at = "enqueue" THEN {} ELSE worker[w].batch
Offered(w) == IF worker[w].at = "enqueue" THEN worker[w].batch ELSE {}
Copies(q) == UNION {q[i] : i \in DOMAIN q}

Distinct(q) == \A i, j \in DOMAIN q : q[i] = q[j] => i = j

\* An entry is nowhere before AddLogAsync queued it; then it is queued, in one
\* worker's hands, inserted, given up or gone.
Unsent(l) == l \notin ToSet(logChan) \cup failed /\ inserts[l] = 0 /\ \A w \in Workers : l \notin Held(w)
Fresh(l) == l \notin failed \cup gone /\ inserts[l] = 0

Stored == local \cup backup \cup Copies(syncCh) \cup copier.task

EntriesPlaced ==
    \A l \in Logs :
        /\ inserts[l] \in {0, 1}
        /\ pc[l] # "sent" => Unsent(l)
        /\ pc[l] \in {"idle", "send"} => l \notin gone
        /\ pc[l] = "sent" => ~ Unsent(l) \/ l \in gone
        /\ l \in ToSet(logChan) => Fresh(l) /\ \A w \in Workers : l \notin Held(w)
        /\ l \in failed => inserts[l] = 0 /\ l \notin gone
        /\ l \in Stored => inserts[l] = 1

BatchesPlaced ==
    \A w \in Workers : \A l \in Logs :
        /\ l \in Held(w) => Fresh(l) /\ \A v \in Workers \ {w} : l \notin Held(v)
        /\ l \in Offered(w) => inserts[l] = 1

\* What SQLite has is, or is still to come, in the primary, unless a trace says
\* why not; and it leaves SQLite only with such a trace.
Traced == unsynced \cup gone
Reached ==
    backup \cup Traced \cup Copies(syncCh) \cup copier.task
    \cup {l \in Logs : \E w \in Workers : l \in Offered(w)}

CopiesPlaced == \A l \in Logs : inserts[l] = 1 => l \in Reached /\ l \in local \cup Traced

\* The order of a shutdown: workers, copier, databases, end.
StagesOrdered ==
    /\ copier.at \in {"run", "drain", "exited"} => copier.task = {}
    /\ copier.at = "exited" => stage \in {"stop", "closed"}
    /\ stage = "closed" => copier.at = "exited"
    /\ clean => stage \in {"stop", "closed", "dead"}
    /\ clean /\ stage # "dead" => \A w \in Workers : worker[w].at = "exited"
    /\ clean /\ copier.at = "exited" => Copies(syncCh) \subseteq unsynced
    /\ stage = "dead" => /\ logChan = <<>> /\ syncCh = <<>> /\ copier = IdleCopier
                         /\ worker = [w \in Workers |-> IdleWorker]
                         /\ \A l \in Logs : pc[l] # "send"

Settled == Distinct(logChan) /\ EntriesPlaced /\ BatchesPlaced /\ CopiesPlaced /\ StagesOrdered

LogInv == TypeOK /\ Settled

-------------------------------------------------------------------------------
(* The two queues.                                                           *)

LEMMA Appending ==
    ASSUME NEW S, NEW q \in Seq(S), NEW x \in S
    PROVE  /\ Append(q, x) \in Seq(S) /\ Len(Append(q, x)) = Len(q) + 1 /\ Len(q) \in Nat
           /\ ToSet(Append(q, x)) = ToSet(q) \cup {x}
           /\ Copies(Append(q, x)) = Copies(q) \cup x
           /\ Distinct(q) /\ x \notin ToSet(q) => Distinct(Append(q, x))
<1>1. /\ Append(q, x) \in Seq(S) /\ Len(Append(q, x)) = Len(q) + 1 /\ Len(q) \in Nat
      /\ \A i \in 1..Len(q) : Append(q, x)[i] = q[i]
      /\ Append(q, x)[Len(q) + 1] = x
  OBVIOUS
<1>2. DOMAIN q = 1..Len(q) /\ DOMAIN Append(q, x) = 1..(Len(q) + 1)
  BY <1>1
<1>3. ToSet(Append(q, x)) = ToSet(q) \cup {x}
  BY <1>1, <1>2 DEF ToSet
<1>4. Copies(Append(q, x)) = Copies(q) \cup x
  <2>1. \A r : Copies(r) = UNION ToSet(r)
    BY DEF Copies, ToSet
  <2> QED
    BY <2>1, <1>3
<1>5. ASSUME Distinct(q), x \notin ToSet(q) PROVE Distinct(Append(q, x))
  BY <1>1, <1>2, <1>5 DEF ToSet, Distinct
<1> QED
  BY <1>1, <1>3, <1>4, <1>5

LEMMA Taking ==
    ASSUME NEW S, NEW q \in Seq(S), q # <<>>
    PROVE  /\ Head(q) \in S /\ Tail(q) \in Seq(S) /\ Len(Tail(q)) = Len(q) - 1 /\ Len(q) \in Nat
           /\ ToSet(q) = {Head(q)} \cup ToSet(Tail(q))
           /\ Copies(q) = Head(q) \cup Copies(Tail(q))
           /\ Distinct(q) => Distinct(Tail(q)) /\ Head(q) \notin ToSet(Tail(q))
<1>1. /\ Tail(q) \in Seq(S) /\ Len(Tail(q)) = Len(q) - 1 /\ Len(q) \in Nat \ {0}
      /\ Head(q) = q[1] /\ Head(q) \in S
      /\ \A i \in 1..(Len(q) - 1) : Tail(q)[i] = q[i + 1]
  OBVIOUS
<1>2. DOMAIN q = 1..Len(q) /\ DOMAIN Tail(q) = 1..(Len(q) - 1)
  BY <1>1
<1>3. ToSet(q) = {Head(q)} \cup ToSet(Tail(q))
  <2>1. ASSUME NEW i \in 1..Len(q), i # 1 PROVE q[i] \in ToSet(Tail(q))
    <3>1. i - 1 \in 1..(Len(q) - 1) /\ Tail(q)[i - 1] = q[i]
      BY <1>1, <2>1
    <3> QED
      BY <3>1, <1>2 DEF ToSet
  <2>2. 1 \in 1..Len(q) /\ \A i \in 1..(Len(q) - 1) : i + 1 \in 1..Len(q)
    BY <1>1
  <2>3. {Head(q)} \cup ToSet(Tail(q)) \subseteq ToSet(q)
    BY <1>1, <1>2, <2>2 DEF ToSet
  <2>4. ToSet(q) \subseteq {Head(q)} \cup ToSet(Tail(q))
    BY <1>1, <1>2, <2>1 DEF ToSet
  <2> QED
    BY <2>3, <2>4
<1>4. Copies(q) = Head(q) \cup Copies(Tail(q))
  <2>1. \A r : Copies(r) = UNION ToSet(r)
    BY DEF Copies, ToSet
  <2> QED
    BY <2>1, <1>3
<1>5. ASSUME Distinct(q) PROVE Distinct(Tail(q)) /\ Head(q) \notin ToSet(Tail(q))
  <2>1. \A i, j \in 1..Len(q) : q[i] = q[j] => i = j
    BY <1>5, <1>2 DEF Distinct
  <2>2. \A i \in 1..(Len(q) - 1) : i + 1 \in 1..Len(q) /\ i + 1 # 1 /\ 1 \in 1..Len(q)
    BY <1>1
  <2>3. Head(q) \notin ToSet(Tail(q))
    BY <1>1, <1>2, <2>1, <2>2 DEF ToSet
  <2>4. ASSUME NEW i \in 1..(Len(q) - 1), NEW j \in 1..(Len(q) - 1), Tail(q)[i] = Tail(q)[j] PROVE i = j
    <3>1. q[i + 1] = q[j + 1] /\ i + 1 \in 1..Len(q) /\ j + 1 \in 1..Len(q)
      BY <1>1, <2>4
    <3> QED
      BY <3>1, <2>1
  <2> QED
    BY <2>3, <2>4, <1>2 DEF Distinct
<1> QED
  BY <1>1, <1>3, <1>4, <1>5

LEMMA EmptyQueue ==
    /\ ToSet(<<>>) = {} /\ Copies(<<>>) = {} /\ Distinct(<<>>)
    /\ \A S : <<>> \in Seq(S) /\ Len(<<>>) = 0
BY DEF ToSet, Copies, Distinct

-------------------------------------------------------------------------------
(* Types.                                                                    *)

LEMMA Capacities ==
    /\ BufferSize \in Nat \ {0} /\ BatchSize \in Nat \ {0} /\ MaxRetries \in Nat \ {0}
    /\ SyncCap \in Nat \ {0} /\ MaxErrors \in Nat /\ MaxRestarts \in Nat
BY LogAssumption

LEMMA RecordsTyped ==
    ASSUME NEW rec \in WorkerRecords
    PROVE  /\ Done(rec) \in WorkerRecords /\ Done(rec).batch = {} /\ Done(rec).at \in {"run", "exited"}
           /\ Flushing(rec) \in WorkerRecords /\ Flushing(rec).batch = rec.batch /\ Flushing(rec).at = "flush"
<1>1. 0 \in 0..MaxRetries /\ 1 \in 0..MaxRetries /\ MaxRetries \in 0..MaxRetries
  BY Capacities
<1>2. \A a \in {"run", "exited"} : [rec EXCEPT !.batch = {}, !.at = a] \in WorkerRecords
  BY DEF WorkerRecords
<1>3. Done(rec) \in WorkerRecords /\ Done(rec).batch = {} /\ Done(rec).at \in {"run", "exited"}
  BY <1>2 DEF Done, WorkerRecords
<1>4. \A n \in 0..MaxRetries : [rec EXCEPT !.at = "flush", !.tries = 0, !.max = n] \in WorkerRecords
  BY <1>1 DEF WorkerRecords
<1>5. Flushing(rec) \in WorkerRecords
  BY <1>1, <1>4 DEF Flushing
<1>6. Flushing(rec).batch = rec.batch /\ Flushing(rec).at = "flush"
  BY DEF Flushing, WorkerRecords
<1> QED
  BY <1>3, <1>5, <1>6

LEMMA WorkerTypes ==
    ASSUME TypeOK, NEW w \in Workers, WorkerNext(w)
    PROVE  TypeOK'
<1>t. worker[w] \in WorkerRecords /\ worker \in [Workers -> WorkerRecords]
  BY DEF TypeOK, WorkerRecords
<1>1. CASE Receive(w)
  <2>1. Head(logChan) \in Logs /\ Tail(logChan) \in Seq(Logs) /\ Len(Tail(logChan)) <= BufferSize
    <3>1. logChan \in Seq(Logs) /\ logChan # <<>> /\ Len(logChan) <= BufferSize
      BY <1>1 DEF Receive, TypeOK
    <3> QED
      BY <3>1, Taking, LogAssumption
  <2> DEFINE got == [worker[w] EXCEPT !.batch = @ \cup {Head(logChan)}]
  <2>2. got \in WorkerRecords
    BY <1>t, <2>1 DEF WorkerRecords
  <2>3. worker' \in [Workers -> WorkerRecords]
    <3>1. Flushing(got) \in WorkerRecords
      BY <2>2, RecordsTyped
    <3> QED
      BY <1>1, <1>t, <2>2, <3>1 DEF Receive
  <2> QED
    BY <1>1, <2>1, <2>3 DEF Receive, TypeOK, tableVars, fateVars, WorkerRecords
<1>2. CASE Tick(w)
  <2>1. worker' \in [Workers -> WorkerRecords]
    BY <1>2, <1>t, RecordsTyped DEF Tick
  <2> QED
    BY <1>2, <2>1 DEF Tick, TypeOK, callVars, tableVars, fateVars, WorkerRecords
<1>3. CASE Drain(w)
  <2> DEFINE rec == [worker[w] EXCEPT !.draining = TRUE]
  <2>1. rec \in WorkerRecords /\ [rec EXCEPT !.at = "exited"] \in WorkerRecords
    BY <1>t DEF WorkerRecords
  <2>2. Flushing(rec) \in WorkerRecords
    BY <2>1, RecordsTyped
  <2>3. worker' \in [Workers -> WorkerRecords]
    BY <1>3, <1>t, <2>1, <2>2 DEF Drain
  <2> QED
    BY <1>3, <2>3 DEF Drain, TypeOK, callVars, tableVars, fateVars, WorkerRecords
<1>4. CASE FlushInsert(w)
  <2>1. worker' \in [Workers -> WorkerRecords]
    BY <1>4, <1>t DEF FlushInsert, WorkerRecords
  <2>2. local' \subseteq Logs /\ inserts' \in [Logs -> Nat]
    BY <1>4, <1>t DEF FlushInsert, TypeOK, WorkerRecords
  <2> QED
    BY <1>4, <2>1, <2>2 DEF FlushInsert, TypeOK, callVars, fateVars, WorkerRecords
<1>5. CASE FlushError(w)
  <2>1. worker' \in [Workers -> WorkerRecords]
    <3>1. CASE worker[w].tries + 1 < worker[w].max
      <4>1. worker[w].tries + 1 \in 0..MaxRetries
        BY <1>t, <3>1, LogAssumption DEF WorkerRecords
      <4> QED
        BY <1>5, <1>t, <4>1, RecordsTyped DEF FlushError, WorkerRecords
    <3>2. CASE ~ (worker[w].tries + 1 < worker[w].max)
      BY <1>5, <1>t, <3>2, RecordsTyped DEF FlushError
    <3> QED
      BY <3>1, <3>2
  <2>2. failed' \subseteq Logs /\ errors' \in 0..MaxErrors
    BY <1>5, <1>t, LogAssumption DEF FlushError, TypeOK, WorkerRecords
  <2> QED
    BY <1>5, <2>1, <2>2 DEF FlushError, TypeOK, callVars, tableVars, WorkerRecords
<1>6. CASE Backoff(w)
  <2>0. [worker[w] EXCEPT !.at = "flush"] \in WorkerRecords
    BY <1>t DEF WorkerRecords
  <2>1. worker' \in [Workers -> WorkerRecords]
    BY <1>6, <1>t, <2>0, RecordsTyped DEF Backoff
  <2>2. failed' \subseteq Logs
    BY <1>6, <1>t DEF Backoff, TypeOK, WorkerRecords
  <2> QED
    BY <1>6, <2>1, <2>2 DEF Backoff, TypeOK, callVars, tableVars, WorkerRecords
<1>7. CASE EnqueueLogSync(w)
  <2>1. worker' \in [Workers -> WorkerRecords]
    BY <1>7, <1>t, RecordsTyped DEF EnqueueLogSync
  <2>2. syncCh \in Seq(SUBSET Logs) /\ Len(syncCh) <= SyncCap /\ worker[w].batch \in SUBSET Logs
    BY <1>t DEF TypeOK, WorkerRecords
  <2>3. /\ Append(syncCh, worker[w].batch) \in Seq(SUBSET Logs)
        /\ Len(Append(syncCh, worker[w].batch)) = Len(syncCh) + 1 /\ Len(syncCh) \in Nat
    BY <2>2, Appending
  <2>4. syncCh' \in Seq(SUBSET Logs) /\ Len(syncCh') <= SyncCap /\ unsynced' \subseteq Logs
    <3>1. CASE Len(syncCh) < SyncCap
      <4>1. syncCh' = Append(syncCh, worker[w].batch) /\ unsynced' = unsynced
        BY <1>7, <3>1 DEF EnqueueLogSync
      <4>2. Len(syncCh) + 1 <= SyncCap
        BY <2>3, <3>1, Capacities
      <4> QED
        BY <4>1, <4>2, <2>3 DEF TypeOK
    <3>2. CASE ~ (Len(syncCh) < SyncCap)
      BY <1>7, <2>2, <3>2 DEF EnqueueLogSync, TypeOK
    <3> QED
      BY <3>1, <3>2
  <2> QED
    BY <1>7, <2>1, <2>4 DEF EnqueueLogSync, TypeOK, callVars, tableVars, WorkerRecords
<1> QED
  BY <1>1, <1>2, <1>3, <1>4, <1>5, <1>6, <1>7 DEF WorkerNext

LEMMA MemoryTyped ==
    ASSUME TypeOK
    PROVE  Copies(syncCh) \subseteq Logs /\ InMemory \subseteq Logs
<1>1. Copies(syncCh) \subseteq Logs
  BY DEF TypeOK, Copies
<1>2. ToSet(logChan) \subseteq Logs
  BY DEF TypeOK, ToSet
<1>3. (UNION {worker[w].batch : w \in Workers}) \subseteq Logs /\ copier.task \subseteq Logs
  BY DEF TypeOK
<1>4. InMemory = ToSet(logChan) \cup (UNION {worker[w].batch : w \in Workers}) \cup copier.task
                 \cup Copies(syncCh) \cup {l \in Logs : pc[l] = "send"}
  BY DEF InMemory, Copies
<1> QED
  BY <1>1, <1>2, <1>3, <1>4

LEMMA TypeStep == TypeOK /\ [Next]_vars => TypeOK'
<1> SUFFICES ASSUME TypeOK, [Next]_vars PROVE TypeOK'
  OBVIOUS
<1>1. ASSUME NEW l \in Logs, CheckFlag(l) PROVE TypeOK'
  BY <1>1 DEF CheckFlag, TypeOK, tableVars, fateVars
<1>2. ASSUME NEW l \in Logs, AddLogAsync(l) PROVE TypeOK'
  <2>1. /\ Append(logChan, l) \in Seq(Logs) /\ Len(Append(logChan, l)) = Len(logChan) + 1
        /\ Len(logChan) \in Nat
    BY Appending DEF TypeOK
  <2>2. logChan' \in Seq(Logs) /\ Len(logChan') <= BufferSize
    <3>1. CASE Len(logChan) < BufferSize
      <4>1. logChan' = Append(logChan, l)
        BY <1>2, <3>1 DEF AddLogAsync
      <4>2. Len(logChan) + 1 <= BufferSize
        BY <2>1, <3>1, Capacities
      <4> QED
        BY <4>1, <4>2, <2>1
    <3>2. CASE ~ (Len(logChan) < BufferSize)
      BY <1>2, <3>2 DEF AddLogAsync, TypeOK
    <3> QED
      BY <3>1, <3>2
  <2> QED
    BY <1>2, <2>2 DEF AddLogAsync, TypeOK, tableVars, fateVars
<1>3. ASSUME NEW l \in Logs, CleanupLogsBefore(l) PROVE TypeOK'
  BY <1>3 DEF CleanupLogsBefore, TypeOK, callVars
<1>4. ASSUME NEW w \in Workers, WorkerNext(w) PROVE TypeOK'
  BY <1>4, WorkerTypes
<1>5. CASE CopierTakes
  <2>1. syncCh \in Seq(SUBSET Logs) /\ syncCh # <<>> /\ Len(syncCh) <= SyncCap
    BY <1>5 DEF CopierTakes, TypeOK
  <2>2. Head(syncCh) \in SUBSET Logs /\ Tail(syncCh) \in Seq(SUBSET Logs) /\ Len(Tail(syncCh)) <= SyncCap
    BY <2>1, Taking, LogAssumption
  <2> QED
    BY <1>5, <2>2 DEF CopierTakes, TypeOK, callVars, tableVars, fateVars
<1>6. CASE ExecuteSyncTask
  BY <1>6, LogAssumption DEF ExecuteSyncTask, TypeOK, callVars
<1>7. CASE DrainSyncQueue
  <2>1. Copies(syncCh) \subseteq Logs
    BY MemoryTyped
  <2> QED
    BY <1>7, <2>1 DEF DrainSyncQueue, TypeOK, callVars, tableVars, Copies
<1>8. CASE Shutdown
  BY <1>8 DEF Shutdown, TypeOK, callVars, tableVars, fateVars
<1>9. CASE WaitWorkers
  BY <1>9 DEF WaitWorkers, TypeOK, callVars, tableVars, fateVars
<1>10. CASE CloseDatabases
  BY <1>10 DEF CloseDatabases, TypeOK, callVars, tableVars, fateVars
<1>11. CASE Exit
  <2>1. IdleWorker \in WorkerRecords /\ IdleCopier \in CopierRecords
    BY LogAssumption DEF IdleWorker, IdleCopier, WorkerRecords, CopierRecords
  <2>2. worker' \in [Workers -> WorkerRecords] /\ copier' \in CopierRecords
    BY <1>11, <2>1 DEF Exit
  <2>3. gone' \subseteq Logs /\ restarts' \in 0..MaxRestarts
    BY <1>11, MemoryTyped, LogAssumption DEF Exit, TypeOK
  <2>4. logChan' \in Seq(Logs) /\ Len(logChan') <= BufferSize /\ syncCh' \in Seq(SUBSET Logs) /\ Len(syncCh') <= SyncCap
    BY <1>11, EmptyQueue, LogAssumption DEF Exit
  <2> QED
    BY <1>11, <2>2, <2>3, <2>4 DEF Exit, TypeOK, tableVars, WorkerRecords, CopierRecords
<1>12. CASE RestoreLogsSnapshot
  BY <1>12 DEF RestoreLogsSnapshot, TypeOK, callVars, fateVars
<1>13. CASE UNCHANGED vars
  BY <1>13 DEF vars, TypeOK, callVars, tableVars, fateVars
<1> QED
  BY <1>1, <1>2, <1>3, <1>4, <1>5, <1>6, <1>7, <1>8, <1>9, <1>10, <1>11, <1>12, <1>13 DEF Next

-------------------------------------------------------------------------------
(* Steps that leave every entry where it is.                                 *)

LEMMA EntriesKept ==
    ASSUME LogInv, UNCHANGED <<pc, logChan, inserts, failed, gone>>,
           \A w \in Workers : Held(w)' = Held(w) /\ Offered(w)' \subseteq Offered(w),
           \A l \in Stored' : l \in Stored \/ inserts[l] = 1
    PROVE  EntriesPlaced' /\ BatchesPlaced' /\ Distinct(logChan)'
<1>1. EntriesPlaced'
  BY DEF LogInv, Settled, EntriesPlaced, Unsent, Fresh
<1>2. BatchesPlaced'
  BY DEF LogInv, Settled, BatchesPlaced, Fresh
<1> QED
  BY <1>1, <1>2 DEF LogInv, Settled

LEMMA CopiesKept ==
    ASSUME LogInv, UNCHANGED inserts, Reached \subseteq Reached',
           local \cup Traced \subseteq local' \cup Traced'
    PROVE  CopiesPlaced'
BY DEF LogInv, Settled, CopiesPlaced

\* What the step of a worker does to the batches of all.
LEMMA OneWorker ==
    ASSUME TypeOK, NEW w \in Workers, NEW rec, worker' = [worker EXCEPT ![w] = rec]
    PROVE  /\ worker'[w] = rec
           /\ \A v \in Workers \ {w} :
                worker'[v] = worker[v] /\ Held(v)' = Held(v) /\ Offered(v)' = Offered(v)
BY DEF TypeOK, Held, Offered

\* The stages say nothing of a step that leaves these alone but for the workers.
LEMMA WorkerStages ==
    ASSUME LogInv, NEW w \in Workers, worker[w].at # "exited", stage # "dead",
           UNCHANGED <<copier, stage, clean>>,
           syncCh' = syncCh
    PROVE  StagesOrdered'
BY DEF LogInv, Settled, StagesOrdered

\* A step that takes a batch on without inserting it or giving it up.
LEMMA BatchKept ==
    ASSUME LogInv, NEW w \in Workers, NEW rec, worker' = [worker EXCEPT ![w] = rec],
           UNCHANGED <<callVars, tableVars, syncCh, copier, stage, clean, fateVars>>,
           worker[w].at # "enqueue", worker[w].at # "exited", stage # "dead",
           rec.at # "enqueue", rec.batch = worker[w].batch
    PROVE  Settled'
<1>1. \A v \in Workers : Held(v)' = Held(v) /\ Offered(v)' = Offered(v)
  BY OneWorker DEF LogInv, Held, Offered
<1>2. EntriesPlaced' /\ BatchesPlaced' /\ Distinct(logChan)'
  BY <1>1, EntriesKept DEF Stored, callVars, tableVars, fateVars
<1>3. CopiesPlaced'
  BY <1>1, CopiesKept DEF Reached, Traced, tableVars, fateVars
<1>4. StagesOrdered'
  BY WorkerStages
<1> QED
  BY <1>2, <1>3, <1>4 DEF Settled

\* A worker gives its batch up with an error.
LEMMA BatchGivenUp ==
    ASSUME LogInv, NEW w \in Workers, NEW rec, worker' = [worker EXCEPT ![w] = rec],
           UNCHANGED <<callVars, tableVars, syncCh, copier, stage, clean, unsynced, gone>>,
           worker[w].at \in {"flush", "backoff"}, stage # "dead",
           rec.at \in {"run", "exited"}, rec.batch = {}, failed' = failed \cup worker[w].batch
    PROVE  Settled'
<1>1. /\ Held(w) = worker[w].batch /\ Held(w)' = {} /\ Offered(w)' = {} /\ Offered(w) = {}
      /\ \A v \in Workers \ {w} : Held(v)' = Held(v) /\ Offered(v)' = Offered(v)
  BY OneWorker DEF LogInv, Held, Offered
<1>2. EntriesPlaced'
  <2> SUFFICES ASSUME NEW l \in Logs PROVE EntriesPlaced!(l)'
    BY DEF EntriesPlaced
  <2>1. CASE l \in worker[w].batch
    <3>1. Fresh(l) /\ \A v \in Workers \ {w} : l \notin Held(v)
      BY <1>1, <2>1 DEF LogInv, Settled, BatchesPlaced
    <3>2. pc[l] = "sent" /\ l \notin ToSet(logChan) /\ l \notin Stored
      BY <1>1, <2>1, <3>1 DEF LogInv, Settled, EntriesPlaced, Unsent, Fresh
    <3> QED
      BY <1>1, <2>1, <3>1, <3>2 DEF Unsent, Fresh, Stored, callVars, tableVars
  <2>2. CASE l \notin worker[w].batch
    <3>1. EntriesPlaced!(l)
      BY DEF LogInv, Settled, EntriesPlaced
    <3> QED
      BY <1>1, <2>2, <3>1 DEF Unsent, Fresh, Stored, callVars, tableVars
  <2> QED
    BY <2>1, <2>2
<1>3. BatchesPlaced'
  BY <1>1 DEF LogInv, Settled, BatchesPlaced, Fresh, tableVars
<1>4. CopiesPlaced'
  BY <1>1, CopiesKept DEF Reached, Traced, tableVars
<1>5. StagesOrdered'
  BY WorkerStages
<1> QED
  BY <1>2, <1>3, <1>4, <1>5 DEF LogInv, Settled, callVars

LEMMA InsertSettles ==
    ASSUME LogInv, NEW w \in Workers, FlushInsert(w)
    PROVE  Settled'
<1> DEFINE rec == [worker[w] EXCEPT !.at = "enqueue"]
<1>0. /\ worker' = [worker EXCEPT ![w] = rec] /\ worker[w].at = "flush"
      /\ rec.at = "enqueue" /\ rec.batch = worker[w].batch /\ stage # "dead"
      /\ UNCHANGED <<callVars, backup, syncCh, copier, stage, clean, fateVars>>
      /\ local' = local \cup worker[w].batch
      /\ \A l \in Logs : inserts'[l] = IF l \in worker[w].batch THEN inserts[l] + 1 ELSE inserts[l]
  BY DEF FlushInsert, LogInv, TypeOK, open
<1>1. /\ Held(w) = worker[w].batch /\ Held(w)' = {} /\ Offered(w)' = worker[w].batch /\ Offered(w) = {}
      /\ \A v \in Workers \ {w} : Held(v)' = Held(v) /\ Offered(v)' = Offered(v)
  <2> HIDE DEF rec
  <2> QED
    BY <1>0, OneWorker DEF LogInv, Held, Offered
<1> HIDE DEF rec
<1>b. ASSUME NEW l \in worker[w].batch
      PROVE  /\ l \in Logs /\ pc[l] = "sent" /\ l \notin ToSet(logChan) /\ l \notin failed \cup gone
             /\ inserts'[l] = 1 /\ \A v \in Workers \ {w} : l \notin Held(v)
  <2>1. l \in Logs
    BY DEF LogInv, TypeOK
  <2>2. Fresh(l) /\ \A v \in Workers \ {w} : l \notin Held(v)
    BY <1>1, <2>1 DEF LogInv, Settled, BatchesPlaced
  <2> QED
    BY <1>0, <1>1, <2>1, <2>2 DEF LogInv, Settled, EntriesPlaced, Unsent, Fresh
<1>2. EntriesPlaced'
  <2> SUFFICES ASSUME NEW l \in Logs PROVE EntriesPlaced!(l)'
    BY DEF EntriesPlaced
  <2>1. CASE l \in worker[w].batch
    BY <1>0, <1>b, <2>1 DEF Unsent, Fresh, callVars, fateVars
  <2>2. CASE l \notin worker[w].batch
    <3>1. EntriesPlaced!(l)
      BY DEF LogInv, Settled, EntriesPlaced
    <3> QED
      BY <1>0, <1>1, <2>2, <3>1 DEF Unsent, Fresh, Stored, callVars, fateVars
  <2> QED
    BY <2>1, <2>2
<1>3. BatchesPlaced'
  BY <1>0, <1>1, <1>b DEF LogInv, Settled, BatchesPlaced, Fresh, fateVars
<1>4. CopiesPlaced'
  <2> SUFFICES ASSUME NEW l \in Logs, inserts'[l] = 1 PROVE l \in Reached' /\ l \in (local \cup Traced)'
    BY DEF CopiesPlaced
  <2>1. CASE l \in worker[w].batch
    BY <1>0, <1>1, <2>1 DEF Reached
  <2>2. CASE l \notin worker[w].batch
    BY <1>0, <1>1, <2>2 DEF LogInv, Settled, CopiesPlaced, Reached, Traced, fateVars
  <2> QED
    BY <2>1, <2>2
<1>5. StagesOrdered'
  BY <1>0, WorkerStages
<1> QED
  BY <1>0, <1>2, <1>3, <1>4, <1>5 DEF LogInv, Settled, callVars

LEMMA ReceiveSettles ==
    ASSUME LogInv, NEW w \in Workers, Receive(w)
    PROVE  Settled'
<1> DEFINE x == Head(logChan)
<1> DEFINE got == [worker[w] EXCEPT !.batch = @ \cup {x}]
<1>0. /\ worker[w].at = "run" /\ logChan' = Tail(logChan) /\ stage # "dead"
      /\ UNCHANGED <<pc, early, tableVars, syncCh, copier, stage, clean, fateVars>>
      /\ \E rec : /\ worker' = [worker EXCEPT ![w] = rec] /\ rec.at # "enqueue"
                  /\ rec.batch = worker[w].batch \cup {x}
  <2>1. worker[w] \in WorkerRecords
    BY DEF LogInv, TypeOK, WorkerRecords
  <2>2. x \in Logs
    BY Taking DEF Receive, LogInv, TypeOK
  <2>3. got \in WorkerRecords /\ got.batch = worker[w].batch \cup {x} /\ got.at = worker[w].at
    BY <2>1, <2>2 DEF WorkerRecords
  <2>4. Flushing(got).batch = got.batch /\ Flushing(got).at = "flush"
    BY <2>3, RecordsTyped
  <2> QED
    BY <2>3, <2>4 DEF Receive
<1>1. /\ x \in Logs /\ ToSet(logChan) = {x} \cup ToSet(logChan') /\ x \notin ToSet(logChan')
      /\ Distinct(logChan')
  BY <1>0, Taking DEF Receive, LogInv, Settled, TypeOK
<1>2. /\ Held(w) = worker[w].batch /\ Held(w)' = worker[w].batch \cup {x}
      /\ Offered(w)' = {} /\ Offered(w) = {}
      /\ \A v \in Workers \ {w} : Held(v)' = Held(v) /\ Offered(v)' = Offered(v)
  <2> PICK rec : /\ worker' = [worker EXCEPT ![w] = rec] /\ rec.at # "enqueue"
                 /\ rec.batch = worker[w].batch \cup {x}
    BY <1>0
  <2> HIDE DEF x
  <2>1. worker'[w] = rec /\ \A v \in Workers \ {w} : Held(v)' = Held(v) /\ Offered(v)' = Offered(v)
    BY OneWorker DEF LogInv
  <2> QED
    BY <1>0, <2>1 DEF Held, Offered
<1> HIDE DEF x, got
<1>3. pc[x] = "sent" /\ Fresh(x) /\ \A v \in Workers : x \notin Held(v)
  BY <1>1 DEF LogInv, Settled, EntriesPlaced, Unsent
<1>4. EntriesPlaced'
  <2> SUFFICES ASSUME NEW l \in Logs PROVE EntriesPlaced!(l)'
    BY DEF EntriesPlaced
  <2>1. EntriesPlaced!(l)
    BY DEF LogInv, Settled, EntriesPlaced
  <2> QED
    BY <1>0, <1>1, <1>2, <1>3, <2>1 DEF Unsent, Fresh, Stored, tableVars, fateVars
<1>5. BatchesPlaced'
  BY <1>0, <1>1, <1>2, <1>3 DEF LogInv, Settled, BatchesPlaced, Fresh, tableVars, fateVars
<1>6. CopiesPlaced'
  BY <1>0, <1>2, CopiesKept DEF Reached, Traced, tableVars, fateVars
<1>7. StagesOrdered'
  <2> PICK rec : worker' = [worker EXCEPT ![w] = rec]
    BY <1>0
  <2> QED
    BY <1>0, WorkerStages
<1> QED
  BY <1>1, <1>4, <1>5, <1>6, <1>7 DEF Settled

LEMMA OfferSettles ==
    ASSUME LogInv, NEW w \in Workers, EnqueueLogSync(w)
    PROVE  Settled'
<1>0. /\ worker' = [worker EXCEPT ![w] = Done(worker[w])] /\ worker[w].at = "enqueue" /\ stage # "dead"
      /\ UNCHANGED <<callVars, tableVars, copier, stage, clean, failed, gone>>
  BY DEF EnqueueLogSync
<1>1. /\ Held(w) = {} /\ Held(w)' = {} /\ Offered(w)' = {} /\ Offered(w) = worker[w].batch
      /\ \A v \in Workers \ {w} : Held(v)' = Held(v) /\ Offered(v)' = Offered(v)
  <2>1. worker[w] \in WorkerRecords
    BY DEF LogInv, TypeOK, WorkerRecords
  <2>2. Done(worker[w]).batch = {} /\ Done(worker[w]).at \in {"run", "exited"}
    BY <2>1, RecordsTyped
  <2> QED
    BY <1>0, <2>2, OneWorker DEF LogInv, Held, Offered
<1>3. worker[w].batch \subseteq Logs /\ syncCh \in Seq(SUBSET Logs)
  BY DEF LogInv, TypeOK
<1>2. EntriesPlaced' /\ BatchesPlaced' /\ Distinct(logChan)'
  <2>1. Copies(Append(syncCh, worker[w].batch)) = Copies(syncCh) \cup worker[w].batch
    BY <1>3, Appending
  <2>2. Copies(syncCh') \subseteq Copies(syncCh) \cup worker[w].batch
    BY <2>1 DEF EnqueueLogSync
  <2>3. \A l \in worker[w].batch : inserts[l] = 1
    BY <1>1, <1>3 DEF LogInv, Settled, BatchesPlaced
  <2> QED
    BY <1>0, <1>1, <2>2, <2>3, EntriesKept DEF Stored, callVars, tableVars
<1>4. Copies(syncCh) \cup unsynced \cup worker[w].batch = Copies(syncCh') \cup unsynced'
  <2>1. Copies(Append(syncCh, worker[w].batch)) = Copies(syncCh) \cup worker[w].batch
    BY <1>3, Appending
  <2> QED
    BY <2>1 DEF EnqueueLogSync
<1>5. unsynced \subseteq unsynced'
  BY DEF EnqueueLogSync
<1>6. CopiesPlaced'
  BY <1>0, <1>1, <1>4, <1>5, CopiesKept DEF Reached, Traced, tableVars
<1>7. StagesOrdered'
  BY <1>0 DEF LogInv, Settled, StagesOrdered
<1> QED
  BY <1>2, <1>6, <1>7 DEF Settled

LEMMA WorkerSettles ==
    ASSUME LogInv, NEW w \in Workers, WorkerNext(w)
    PROVE  Settled'
<1>t. worker[w] \in WorkerRecords
  BY DEF LogInv, TypeOK, WorkerRecords
<1>d. Done(worker[w]).batch = {} /\ Done(worker[w]).at \in {"run", "exited"}
  BY <1>t, RecordsTyped
<1>1. CASE Tick(w)
  <2>1. Flushing(worker[w]).batch = worker[w].batch /\ Flushing(worker[w]).at = "flush"
    BY <1>t, RecordsTyped
  <2> QED
    BY <1>1, <2>1, BatchKept DEF Tick
<1>2. CASE Drain(w)
  <2> DEFINE rec == [worker[w] EXCEPT !.draining = TRUE]
  <2>1. rec \in WorkerRecords /\ rec.batch = worker[w].batch /\ rec.at = worker[w].at
    BY <1>t DEF WorkerRecords
  <2>2. Flushing(rec).batch = rec.batch /\ Flushing(rec).at = "flush"
    BY <2>1, RecordsTyped
  <2>3. [rec EXCEPT !.at = "exited"].batch = worker[w].batch /\ [rec EXCEPT !.at = "exited"].at = "exited"
    BY <1>t DEF WorkerRecords
  <2>4. \E r : /\ worker' = [worker EXCEPT ![w] = r] /\ r.batch = worker[w].batch /\ r.at # "enqueue"
    BY <1>2, <2>1, <2>2, <2>3 DEF Drain
  <2> QED
    BY <1>2, <2>4, BatchKept DEF Drain
<1>3. CASE FlushError(w)
  <2>1. CASE worker[w].tries + 1 < worker[w].max /\ ~ flag
    <3> DEFINE rec == [worker[w] EXCEPT !.at = "backoff", !.tries = worker[w].tries + 1]
    <3>1. rec.batch = worker[w].batch /\ rec.at = "backoff"
      BY <1>t DEF WorkerRecords
    <3>2. worker' = [worker EXCEPT ![w] = rec]
      BY <1>3, <1>t, <2>1 DEF FlushError, LogInv, TypeOK
    <3> QED
      BY <1>3, <2>1, <3>1, <3>2, BatchKept DEF FlushError, fateVars
  <2>2. CASE ~ (worker[w].tries + 1 < worker[w].max /\ ~ flag)
    BY <1>3, <1>d, <2>2, BatchGivenUp DEF FlushError
  <2> QED
    BY <2>1, <2>2
<1>4. CASE Backoff(w)
  <2>1. CASE worker' = [worker EXCEPT ![w].at = "flush"] /\ UNCHANGED failed
    <3> DEFINE rec == [worker[w] EXCEPT !.at = "flush"]
    <3>1. rec.batch = worker[w].batch /\ rec.at = "flush"
      BY <1>t DEF WorkerRecords
    <3> QED
      BY <1>4, <2>1, <3>1, BatchKept DEF Backoff, fateVars
  <2>2. CASE worker' = [worker EXCEPT ![w] = Done(@)] /\ failed' = failed \cup worker[w].batch
    BY <1>4, <1>d, <2>2, BatchGivenUp DEF Backoff
  <2> QED
    BY <1>4, <2>1, <2>2 DEF Backoff
<1> QED
  BY <1>1, <1>2, <1>3, <1>4, ReceiveSettles, InsertSettles, OfferSettles DEF WorkerNext

-------------------------------------------------------------------------------
(* The callers, the copier, shutdown, the end of the process and its start.  *)

LEMMA CallerSettles ==
    ASSUME LogInv, NEW l \in Logs, CheckFlag(l) \/ AddLogAsync(l)
    PROVE  Settled'
<1>0. /\ pc[l] \in {"idle", "send"} /\ stage # "dead"
      /\ UNCHANGED <<worker, tableVars, syncCh, copier, stage, clean, fateVars>>
  BY DEF CheckFlag, AddLogAsync
<1>1. \A w \in Workers : Held(w)' = Held(w) /\ Offered(w)' = Offered(w)
  BY <1>0 DEF Held, Offered
<1>2. CopiesPlaced'
  BY <1>0, <1>1, CopiesKept DEF Reached, Traced, tableVars, fateVars
<1>3. StagesOrdered'
  <2>1. syncCh' = syncCh /\ copier' = copier /\ stage' = stage /\ clean' = clean /\ worker' = worker
    BY <1>0
  <2> QED
    BY <1>0, <2>1 DEF LogInv, Settled, StagesOrdered, fateVars
<1>4. pc' \in [Logs -> {"idle", "send", "sent", "refused", "dropped"}] /\ \A k \in Logs \ {l} : pc'[k] = pc[k]
  BY DEF CheckFlag, AddLogAsync, LogInv, TypeOK
<1>5. Unsent(l) /\ l \notin gone
  BY <1>0 DEF LogInv, Settled, EntriesPlaced
<1>6. CASE logChan' = logChan /\ pc'[l] # "sent"
  <2>1. EntriesPlaced'
    <3> SUFFICES ASSUME NEW k \in Logs PROVE EntriesPlaced!(k)'
      BY DEF EntriesPlaced
    <3>1. EntriesPlaced!(k)
      BY DEF LogInv, Settled, EntriesPlaced
    <3> QED
      BY <1>0, <1>1, <1>4, <1>5, <1>6, <3>1 DEF Unsent, Fresh, Stored, tableVars, fateVars
  <2>2. BatchesPlaced' /\ Distinct(logChan)'
    BY <1>0, <1>1, <1>6 DEF LogInv, Settled, BatchesPlaced, Fresh, tableVars, fateVars
  <2> QED
    BY <1>2, <1>3, <2>1, <2>2 DEF Settled
<1>7. CASE logChan' = Append(logChan, l) /\ pc'[l] = "sent"
  <2>1. ToSet(logChan') = ToSet(logChan) \cup {l} /\ Distinct(logChan')
    BY <1>5, <1>7, Appending DEF LogInv, Settled, TypeOK, Unsent
  <2>2. EntriesPlaced'
    <3> SUFFICES ASSUME NEW k \in Logs PROVE EntriesPlaced!(k)'
      BY DEF EntriesPlaced
    <3>1. EntriesPlaced!(k)
      BY DEF LogInv, Settled, EntriesPlaced
    <3> QED
      BY <1>0, <1>1, <1>4, <1>5, <1>7, <2>1, <3>1 DEF Unsent, Fresh, Stored, tableVars, fateVars
  <2>3. BatchesPlaced'
    BY <1>0, <1>1 DEF LogInv, Settled, BatchesPlaced, Fresh, tableVars, fateVars
  <2> QED
    BY <1>2, <1>3, <2>1, <2>2, <2>3 DEF Settled
<1>8. \/ logChan' = logChan /\ pc'[l] # "sent"
      \/ logChan' = Append(logChan, l) /\ pc'[l] = "sent"
  BY DEF CheckFlag, AddLogAsync, LogInv, TypeOK
<1> QED
  BY <1>6, <1>7, <1>8

LEMMA CopierSettles ==
    ASSUME LogInv, CopierTakes \/ ExecuteSyncTask \/ DrainSyncQueue
    PROVE  Settled'
<1>0. UNCHANGED <<callVars, worker, local, inserts, stage, clean, failed, gone>>
  BY DEF CopierTakes, ExecuteSyncTask, DrainSyncQueue, tableVars, fateVars
<1>1. \A w \in Workers : Held(w)' = Held(w) /\ Offered(w)' = Offered(w)
  BY <1>0 DEF Held, Offered
<1>t. copier \in CopierRecords /\ syncCh \in Seq(SUBSET Logs)
  BY DEF LogInv, TypeOK, CopierRecords
<1>2. CASE CopierTakes
  <2>1. Copies(syncCh) = Head(syncCh) \cup Copies(syncCh')
    BY <1>2, <1>t, Taking DEF CopierTakes
  <2>2. copier.task = {} /\ copier'.task = Head(syncCh) /\ copier'.at \in {"copy", "drainCopy"}
    BY <1>2 DEF CopierTakes, LogInv, Settled, StagesOrdered
  <2>3. EntriesPlaced' /\ BatchesPlaced' /\ Distinct(logChan)'
    BY <1>2, <1>0, <1>1, <2>1, <2>2, EntriesKept DEF callVars, CopierTakes, Stored, tableVars
  <2>4. CopiesPlaced'
    BY <1>2, <1>0, <1>1, <2>1, <2>2, CopiesKept DEF CopierTakes, Reached, Traced, tableVars, fateVars
  <2>5. StagesOrdered'
    BY <1>2, <1>0, <2>2 DEF CopierTakes, LogInv, Settled, StagesOrdered
  <2> QED
    BY <2>3, <2>4, <2>5 DEF Settled
<1>3. CASE ExecuteSyncTask
  <2>1. /\ copier'.task = {} /\ copier'.at \in {"run", "drain"} /\ stage # "dead" /\ syncCh' = syncCh
        /\ copier.at \in {"copy", "drainCopy"}
        /\ backup \cup unsynced \cup copier.task = backup' \cup unsynced'
        /\ backup \subseteq backup' /\ unsynced \subseteq unsynced' /\ backup' \subseteq backup \cup copier.task
    BY <1>3 DEF ExecuteSyncTask
  <2>2. EntriesPlaced' /\ BatchesPlaced' /\ Distinct(logChan)'
    BY <1>0, <1>1, <2>1, EntriesKept DEF callVars, Stored
  <2>3. CopiesPlaced'
    BY <1>0, <1>1, <2>1, CopiesKept DEF Reached, Traced
  <2>4. StagesOrdered'
    BY <1>0, <2>1 DEF LogInv, Settled, StagesOrdered
  <2> QED
    BY <2>2, <2>3, <2>4 DEF Settled
<1>4. CASE DrainSyncQueue
  <2>1. /\ copier.at \in {"run", "drain"} /\ copier'.at \in {"drain", "exited"} /\ copier'.task = copier.task
        /\ stage = "stop" /\ syncCh' = syncCh /\ backup' = backup
        /\ unsynced \subseteq unsynced'
        /\ copier'.at = "exited" => unsynced' = unsynced \cup Copies(syncCh)
    BY <1>4, <1>t DEF DrainSyncQueue, CopierRecords, tableVars, Copies
  <2>2. EntriesPlaced' /\ BatchesPlaced' /\ Distinct(logChan)'
    BY <1>0, <1>1, <2>1, EntriesKept DEF callVars, Stored
  <2>3. CopiesPlaced'
    BY <1>0, <1>1, <2>1, CopiesKept DEF Reached, Traced
  <2>4. StagesOrdered'
    BY <1>0, <2>1 DEF LogInv, Settled, StagesOrdered
  <2> QED
    BY <2>2, <2>3, <2>4 DEF Settled
<1> QED
  BY <1>2, <1>3, <1>4

LEMMA StageSettles ==
    ASSUME LogInv, Shutdown \/ WaitWorkers \/ CloseDatabases \/ RestoreLogsSnapshot
    PROVE  Settled'
<1>0. UNCHANGED <<callVars, worker, inserts, backup, syncCh, copier, fateVars>>
  BY DEF Shutdown, WaitWorkers, CloseDatabases, RestoreLogsSnapshot, tableVars
<1>1. \A w \in Workers : Held(w)' = Held(w) /\ Offered(w)' = Offered(w)
  BY <1>0 DEF Held, Offered
<1>2. Reached' = Reached /\ Traced' = Traced /\ Copies(syncCh)' = Copies(syncCh)
  BY <1>0, <1>1 DEF Reached, Traced, fateVars
<1>3. local' \in {local, backup}
  BY DEF Shutdown, WaitWorkers, CloseDatabases, RestoreLogsSnapshot, tableVars
<1>4. EntriesPlaced' /\ BatchesPlaced' /\ Distinct(logChan)'
  BY <1>0, <1>1, <1>2, <1>3, EntriesKept DEF callVars, fateVars, Stored
<1>5. CopiesPlaced'
  <2>1. CASE local' = local
    BY <1>0, <1>2, <2>1, CopiesKept
  <2>2. CASE stage = "dead" /\ local' = backup
    <3>1. Copies(syncCh) = {} /\ copier.task = {} /\ \A w \in Workers : Offered(w) = {}
      BY <2>2, EmptyQueue DEF LogInv, Settled, StagesOrdered, IdleCopier, IdleWorker, Offered
    <3>2. Reached \subseteq backup \cup Traced
      BY <3>1 DEF Reached
    <3> QED
      BY <1>0, <1>2, <2>2, <3>2 DEF LogInv, Settled, CopiesPlaced
  <2>3. local' = local \/ (stage = "dead" /\ local' = backup)
    BY DEF Shutdown, WaitWorkers, CloseDatabases, RestoreLogsSnapshot, tableVars
  <2> QED
    BY <2>1, <2>2, <2>3
<1>6. StagesOrdered'
  <2>1. copier' = copier /\ syncCh' = syncCh /\ worker' = worker /\ pc' = pc /\ logChan' = logChan /\ unsynced' = unsynced
    BY <1>0 DEF callVars, fateVars
  <2>2. CASE Shutdown
    BY <2>1, <2>2 DEF LogInv, Settled, StagesOrdered, Shutdown
  <2>3. CASE WaitWorkers
    BY <2>1, <2>3 DEF LogInv, Settled, StagesOrdered, WaitWorkers
  <2>4. CASE CloseDatabases
    BY <2>1, <2>4 DEF LogInv, Settled, StagesOrdered, CloseDatabases
  <2>5. CASE RestoreLogsSnapshot
    BY <2>1, <2>5 DEF LogInv, Settled, StagesOrdered, RestoreLogsSnapshot, IdleCopier
  <2> QED
    BY <2>2, <2>3, <2>4, <2>5
<1> QED
  BY <1>4, <1>5, <1>6 DEF Settled

LEMMA ExitSettles ==
    ASSUME LogInv, Exit
    PROVE  Settled'
<1>0. /\ logChan' = <<>> /\ syncCh' = <<>> /\ copier' = IdleCopier /\ stage' = "dead"
      /\ worker' = [w \in Workers |-> IdleWorker]
      /\ pc' = [l \in Logs |-> IF pc[l] = "send" THEN "refused" ELSE pc[l]]
      /\ gone' = gone \cup InMemory
      /\ local' = local /\ inserts' = inserts /\ backup' = backup
      /\ failed' = failed /\ unsynced' = unsynced /\ clean' = clean
  BY DEF Exit, tableVars
<1>1. /\ Copies(syncCh)' = {} /\ ToSet(logChan)' = {} /\ Distinct(logChan)' /\ copier'.task = {}
      /\ \A w \in Workers : Held(w)' = {} /\ Offered(w)' = {}
  BY <1>0, EmptyQueue DEF IdleCopier, IdleWorker, Held, Offered
<1>2. /\ ToSet(logChan) \cup copier.task \cup Copies(syncCh) \subseteq InMemory
      /\ \A l \in Logs : pc[l] = "send" => l \in InMemory
      /\ \A w \in Workers : worker[w].batch \subseteq InMemory
  BY DEF InMemory, Copies
<1>3. \A w \in Workers : Held(w) \subseteq InMemory /\ Offered(w) \subseteq InMemory
  BY <1>2 DEF Held, Offered
<1>4. ASSUME NEW l \in Logs, l \in InMemory PROVE l \notin failed /\ pc[l] # "idle"
  <2>1. \/ l \in ToSet(logChan) \/ l \in copier.task \/ l \in Copies(syncCh) \/ pc[l] = "send"
        \/ \E w \in Workers : l \in Held(w) \/ l \in Offered(w)
    BY <1>4 DEF InMemory, Copies, Held, Offered
  <2>2. EntriesPlaced!(l)
    BY DEF LogInv, Settled, EntriesPlaced
  <2>3. \A w \in Workers : /\ l \in Held(w) => Fresh(l) /\ pc[l] # "idle"
                           /\ l \in Offered(w) => inserts[l] = 1
    BY <2>2 DEF LogInv, Settled, BatchesPlaced, Unsent
  <2> QED
    BY <2>1, <2>2, <2>3 DEF Unsent, Fresh, Stored
<1>5. EntriesPlaced'
  <2> SUFFICES ASSUME NEW l \in Logs PROVE EntriesPlaced!(l)'
    BY DEF EntriesPlaced
  <2>1. EntriesPlaced!(l)
    BY DEF LogInv, Settled, EntriesPlaced
  <2>2. pc'[l] = IF pc[l] = "send" THEN "refused" ELSE pc[l]
    BY <1>0
  <2>3. CASE l \in InMemory
    BY <1>0, <1>1, <1>4, <2>1, <2>2, <2>3 DEF Unsent, Fresh, Stored
  <2>4. CASE l \notin InMemory
    BY <1>0, <1>1, <1>2, <1>3, <2>1, <2>2, <2>4 DEF Unsent, Fresh, Stored
  <2> QED
    BY <2>3, <2>4
<1>6. BatchesPlaced'
  BY <1>1 DEF BatchesPlaced
<1>7. CopiesPlaced'
  <2> SUFFICES ASSUME NEW l \in Logs, inserts[l] = 1 PROVE l \in Reached' /\ l \in (local \cup Traced)'
    BY <1>0 DEF CopiesPlaced
  <2>1. l \in Reached /\ l \in local \cup Traced
    BY DEF LogInv, Settled, CopiesPlaced
  <2>2. l \in backup \cup Traced \cup InMemory
    BY <1>2, <1>3, <2>1 DEF Reached
  <2> QED
    BY <1>0, <2>1, <2>2 DEF Reached, Traced
<1>8. StagesOrdered'
  <2>1. \A l \in Logs : pc'[l] # "send"
    BY <1>0
  <2> QED
    BY <1>0, <2>1 DEF StagesOrdered, IdleCopier
<1> QED
  BY <1>1, <1>5, <1>6, <1>7, <1>8 DEF Settled

LEMMA CleanupSettles ==
    ASSUME LogInv, NEW l \in Logs, CleanupLogsBefore(l)
    PROVE  Settled'
<1>0. /\ UNCHANGED <<callVars, worker, inserts, syncCh, copier, stage, clean, failed, unsynced>>
      /\ gone' = gone \cup {l} /\ backup' = backup \ {l} /\ local' \in {local, local \ {l}}
      /\ l \in local \cup backup /\ l \notin InMemory
  BY DEF CleanupLogsBefore
<1>1. \A w \in Workers : Held(w)' = Held(w) /\ Offered(w)' = Offered(w)
  BY <1>0 DEF Held, Offered
<1>2. Copies(syncCh)' = Copies(syncCh)
  BY <1>0
<1>3. /\ inserts[l] = 1 /\ l \notin ToSet(logChan) /\ pc[l] = "sent" /\ l \notin failed
      /\ \A w \in Workers : l \notin Held(w)
  <2>1. inserts[l] = 1
    BY <1>0 DEF LogInv, Settled, EntriesPlaced, Stored
  <2> QED
    BY <2>1 DEF LogInv, Settled, EntriesPlaced, BatchesPlaced, Unsent, Fresh
<1>4. EntriesPlaced'
  <2> SUFFICES ASSUME NEW k \in Logs PROVE EntriesPlaced!(k)'
    BY DEF EntriesPlaced
  <2>1. EntriesPlaced!(k)
    BY DEF LogInv, Settled, EntriesPlaced
  <2> QED
    BY <1>0, <1>1, <1>2, <1>3, <2>1 DEF Unsent, Fresh, Stored, callVars
<1>5. BatchesPlaced'
  BY <1>0, <1>1, <1>3 DEF LogInv, Settled, BatchesPlaced, Fresh
<1>6. CopiesPlaced'
  BY <1>0, <1>1, <1>2 DEF LogInv, Settled, CopiesPlaced, Reached, Traced
<1>7. StagesOrdered'
  <2>1. /\ copier' = copier /\ syncCh' = syncCh /\ worker' = worker /\ pc' = pc /\ logChan' = logChan
        /\ unsynced' = unsynced /\ stage' = stage /\ clean' = clean
    BY <1>0 DEF callVars
  <2> QED
    BY <2>1 DEF LogInv, Settled, StagesOrdered
<1> QED
  BY <1>0, <1>4, <1>5, <1>6, <1>7 DEF LogInv, Settled, callVars

LEMMA LogNext == LogInv /\ [Next]_vars => LogInv'
<1> SUFFICES ASSUME LogInv, [Next]_vars PROVE LogInv'
  OBVIOUS
<1>1. TypeOK'
  BY TypeStep DEF LogInv
<1>2. CASE UNCHANGED vars
  <2>1. \A w \in Workers : Held(w)' = Held(w) /\ Offered(w)' = Offered(w)
    BY <1>2 DEF vars, Held, Offered
  <2>2. EntriesPlaced' /\ BatchesPlaced' /\ Distinct(logChan)'
    BY <1>2, <2>1, EntriesKept DEF vars, callVars, tableVars, fateVars, Stored
  <2>3. CopiesPlaced'
    BY <1>2, <2>1, CopiesKept DEF vars, tableVars, fateVars, Reached, Traced
  <2>4. StagesOrdered'
    <3>1. /\ copier' = copier /\ syncCh' = syncCh /\ worker' = worker /\ pc' = pc /\ logChan' = logChan
          /\ unsynced' = unsynced /\ stage' = stage /\ clean' = clean
      BY <1>2 DEF vars, callVars, fateVars
    <3> QED
      BY <3>1 DEF LogInv, Settled, StagesOrdered
  <2> QED
    BY <1>1, <2>2, <2>3, <2>4 DEF LogInv, Settled
<1>3. CASE Next
  <2>1. Settled'
    BY <1>3, CallerSettles, CleanupSettles, WorkerSettles, CopierSettles, StageSettles, ExitSettles DEF Next
  <2> QED
    BY <1>1, <2>1 DEF LogInv
<1> QED
  BY <1>2, <1>3

LEMMA LogInit == Init => LogInv
<1> SUFFICES ASSUME Init PROVE LogInv
  OBVIOUS
<1>1. IdleWorker \in WorkerRecords /\ IdleCopier \in CopierRecords
  BY Capacities DEF IdleWorker, IdleCopier, WorkerRecords, CopierRecords
<1>2. TypeOK
  <2>1. worker \in [Workers -> WorkerRecords] /\ copier \in CopierRecords
    BY <1>1 DEF Init
  <2>2. logChan \in Seq(Logs) /\ Len(logChan) <= BufferSize /\ syncCh \in Seq(SUBSET Logs) /\ Len(syncCh) <= SyncCap
    BY EmptyQueue, Capacities DEF Init
  <2>3. pc \in [Logs -> {"idle", "send", "sent", "refused", "dropped"}] /\ inserts \in [Logs -> Nat]
    BY DEF Init
  <2>4. /\ stage \in {"up", "flag", "wait", "stop", "closed", "dead"} /\ clean \in BOOLEAN
        /\ local \subseteq Logs /\ backup \subseteq Logs /\ failed \subseteq Logs /\ unsynced \subseteq Logs
        /\ gone \subseteq Logs /\ early \subseteq Logs
    BY DEF Init
  <2>5. errors \in 0..MaxErrors /\ restarts \in 0..MaxRestarts
    BY Capacities DEF Init
  <2> QED
    BY <2>1, <2>2, <2>3, <2>4, <2>5 DEF TypeOK, WorkerRecords, CopierRecords
<1>3. /\ \A w \in Workers : Held(w) = {} /\ Offered(w) = {}
      /\ ToSet(logChan) = {} /\ Copies(syncCh) = {} /\ copier.task = {} /\ Distinct(logChan)
  BY EmptyQueue DEF Init, Held, Offered, IdleWorker, IdleCopier
<1>4. EntriesPlaced /\ BatchesPlaced /\ CopiesPlaced
  BY <1>3 DEF Init, EntriesPlaced, BatchesPlaced, CopiesPlaced, Unsent, Fresh, Stored
<1>5. StagesOrdered
  BY <1>3 DEF Init, StagesOrdered, IdleCopier
<1> QED
  BY <1>2, <1>3, <1>4, <1>5 DEF LogInv, Settled

\* Every variable keeps to its type; in particular both queues stay within their
\* capacity, whatever workers, copier and handlers do.
THEOREM LogPipelineTypeInvariant == Spec => []TypeOK
<1>1. LogInv => TypeOK
  BY DEF LogInv
<1> QED
  BY <1>1, LogInit, LogNext, PTL DEF Spec

-------------------------------------------------------------------------------
(* The accounts.                                                             *)

LEMMA OnePlace ==
    ASSUME LogInv, NEW l \in Logs, pc[l] = "sent"
    PROVE  \E p \in {"queue", "batch", "table", "failed", "gone"} : Places(l) = {p}
<1>1. EntriesPlaced!(l)
  BY DEF LogInv, Settled, EntriesPlaced
<1>2. /\ (\E w \in Workers : l \in worker[w].batch /\ worker[w].at # "enqueue")
         <=> (\E w \in Workers : l \in Held(w))
      /\ \A w \in Workers : l \in Held(w) => Fresh(l)
  BY DEF LogInv, Settled, BatchesPlaced, Held
<1>3. /\ "queue" \in Places(l) <=> l \in ToSet(logChan)
      /\ "batch" \in Places(l) <=> \E w \in Workers : l \in Held(w)
      /\ "table" \in Places(l) <=> inserts[l] = 1
      /\ "failed" \in Places(l) <=> l \in failed
      /\ "gone" \in Places(l) <=> l \in gone /\ inserts[l] = 0
      /\ Places(l) \subseteq {"queue", "batch", "table", "failed", "gone"}
  BY <1>2 DEF Places
<1>4. CASE l \in ToSet(logChan)
  <2>1. Places(l) = {"queue"}
    BY <1>1, <1>3, <1>4 DEF Fresh
  <2> QED
    BY <2>1
<1>5. CASE \E w \in Workers : l \in Held(w)
  <2>1. Places(l) = {"batch"}
    BY <1>1, <1>2, <1>3, <1>5 DEF Fresh
  <2> QED
    BY <2>1
<1>6. CASE inserts[l] = 1
  <2>1. Places(l) = {"table"}
    BY <1>1, <1>2, <1>3, <1>6 DEF Fresh
  <2> QED
    BY <2>1
<1>7. CASE l \in failed
  <2>1. Places(l) = {"failed"}
    BY <1>1, <1>2, <1>3, <1>7 DEF Fresh
  <2> QED
    BY <2>1
<1>8. CASE l \in gone /\ inserts[l] = 0
  <2>1. Places(l) = {"gone"}
    BY <1>1, <1>2, <1>3, <1>8 DEF Fresh
  <2> QED
    BY <2>1
<1> QED
  BY <1>1, <1>4, <1>5, <1>6, <1>7, <1>8 DEF Unsent

\* No entry is lost without a trace or inserted twice between the handler that
\* logs it (log_service.go), the queue of copies (hybrid_store.go) and the next
\* start (sync_manager.go).
THEOREM LogPipelineLogsAccounted == Spec => []LogsAccounted
<1>1. LogInv => LogsAccounted
  <2> SUFFICES ASSUME LogInv PROVE LogsAccounted
    OBVIOUS
  <2>1. AcceptedOnce
    <3> SUFFICES ASSUME NEW l \in Logs
                 PROVE  (pc[l] = "sent" => Cardinality(Places(l)) = 1) /\ inserts[l] <= 1
      BY DEF AcceptedOnce
    <3>1. inserts[l] <= 1
      BY DEF LogInv, Settled, EntriesPlaced
    <3>2. pc[l] = "sent" => Cardinality(Places(l)) = 1
      BY OnePlace, FS_Singleton
    <3> QED
      BY <3>1, <3>2
  <2>2. \A l \in Logs : inserts[l] > 0 => inserts[l] = 1
    BY DEF LogInv, Settled, EntriesPlaced
  <2>3. CleanCloseCopies
    <3> SUFFICES ASSUME stage = "closed", clean, NEW l \in Logs, inserts[l] > 0
                 PROVE  l \in backup \cup unsynced \cup gone
      BY DEF CleanCloseCopies
    <3>1. l \in Reached
      BY <2>2 DEF LogInv, Settled, CopiesPlaced
    <3>2. Copies(syncCh) \subseteq unsynced /\ copier.task = {} /\ \A w \in Workers : Offered(w) = {}
      BY DEF LogInv, Settled, StagesOrdered, Offered
    <3> QED
      BY <3>1, <3>2 DEF Reached, Traced
  <2>4. LocalLossExplained
    BY <2>2 DEF LogInv, Settled, CopiesPlaced, LocalLossExplained, Traced
  <2> QED
    BY <2>1, <2>3, <2>4 DEF LogsAccounted, CopiesExplained
<1> QED
  BY <1>1, LogInit, LogNext, PTL DEF Spec

================================================================================
