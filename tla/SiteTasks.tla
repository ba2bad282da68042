----------------------------- MODULE SiteTasks -----------------------------
(***************************************************************************)
(* The background tasks of site control: the scheduler's daily check-in,   *)
(* account refresh and announcement refresh, and the tasks an administrator *)
(* starts, for one account of one site during one local day                *)
(* (src/internal/app/site_scheduler.go, site_control.go, admin_sites.go,   *)
(* src/internal/storage/sql/site.go).                                      *)
(*                                                                         *)
(* Several instances may share the database.  Inside one instance the site *)
(* gate lets one task at a time reach the upstream; between instances only *)
(* the lease row of the task's key does.  A lease lasts ninety seconds and *)
(* a running task renews it every thirty, so it can run out only when its  *)
(* owner no longer renews: the owner is gone, or its context is cancelled. *)
(* The announcement lease is taken for twenty-six hours, longer than the   *)
(* day the model covers.                                                   *)
(***************************************************************************)
EXTENDS Naturals, FiniteSets

CONSTANTS Instances,      \* the processes that share the database
          Manual,         \* the instances whose administrator starts tasks
          TaskKinds,          \* the task kinds, of "checkin", "refresh", "announcements"
          RetryLimit,     \* siteCheckinRetryLimit
          BrowserLimit,   \* siteCheckinBrowserRetryLimit
          MaxTasks,       \* bound on the tasks started
          MaxFaults,      \* bound on failing store calls, shutdowns and crashes
          None, Gone      \* no owner, and a task that will never run again

ASSUME SiteAssumption ==
    /\ IsFiniteSet(Instances) /\ Manual \subseteq Instances
    /\ TaskKinds \subseteq {"checkin", "refresh", "announcements"} /\ TaskKinds # {}
    /\ BrowserLimit \in Nat /\ RetryLimit \in Nat \ {0} /\ BrowserLimit <= RetryLimit
    /\ MaxTasks \in Nat /\ MaxFaults \in Nat
    /\ None \notin Instances \X {"sched", "manual"}
    /\ Gone \notin Instances \X {"sched", "manual"} /\ Gone # None

\* The scheduler goroutine of the site and one task goroutine per administrator.
Workers == (Instances \X {"sched"}) \cup (Manual \X {"manual"})

Scheduled(w) == w[2] = "sched"

VARIABLES
    up,         \* an instance's state: "up", or "stopping" after its shutdown began
    gate,       \* the holder of an instance's site gate
    lease,      \* per kind, the lease row: its owner and what is left of it
    pc, kind,   \* per worker, where its task is and what it does
    live,       \* per worker, whether the task's context is not cancelled
    row,        \* per worker, its site_tasks row: open (queued or running) or closed
    unwritten,  \* history: per worker, its last task's final status was not stored
    seen,       \* per worker, the attempt number it read
    verdict,    \* per worker, the upstream's answer until it is recorded
    daily,      \* the daily check-in row: status, attempt number, time since it finished
    checked,    \* the upstream has granted today's check-in
    rounds,     \* history: scheduled check-ins sent to the upstream today
    announced,  \* history: announcement refreshes done today
    shortened,  \* history: a renewal has cut an announcement lease short
    tasks, faults

siteVars == <<up, gate, lease, pc, kind, live, row, unwritten, seen, verdict,
          daily, checked, rounds, announced, shortened, tasks, faults>>

worker == <<pc, kind, live, row, unwritten, seen, verdict>>
upstream == <<checked, rounds, announced, shortened>>
bounds == <<tasks, faults>>

\* A row is closed while there is none and once it has its final status,
\* success, partial, failed or cancelled.  Whether an open row says queued or
\* running decides nothing, nor does a write of "running" that fails.

\* The kind of a worker without a task is of no account.
Idle == CHOOSE k \in TaskKinds : TRUE

Free == [owner |-> None, term |-> "free"]

\* Who takes no lease: a refresh of the announcements started by hand.
Unleased(w) == ~Scheduled(w) /\ kind[w] = "announcements"

\* The steps during which leaseContext keeps the lease of a live task.
Running == {"begin", "read", "write", "call", "record", "finish"}

SiteTypeOK ==
    /\ up \in [Instances -> {"up", "stopping"}]
    /\ gate \in [Instances -> Workers \cup {None}]
    /\ lease \in [TaskKinds -> [owner : Workers \cup {None, Gone},
                            term : {"free", "short", "long"}]]
    /\ pc \in [Workers -> {"idle", "gate", "lease"} \cup Running]
    /\ kind \in [Workers -> TaskKinds]
    /\ live \in [Workers -> BOOLEAN]
    /\ row \in [Workers -> {"open", "closed"}]
    /\ unwritten \in [Workers -> BOOLEAN]
    /\ seen \in [Workers -> Nat]
    /\ verdict \in [Workers -> {"none", "success", "already", "browser", "failed"}]
    /\ daily \in [status : {"none", "running", "success", "already", "browser", "failed"},
                  no : Nat, age : 0..2]
    /\ checked \in BOOLEAN /\ rounds \in Nat /\ announced \in 0..2
    /\ shortened \in BOOLEAN
    /\ tasks \in 0..MaxTasks /\ faults \in 0..MaxFaults

SiteInit ==
    /\ up = [i \in Instances |-> "up"]
    /\ gate = [i \in Instances |-> None]
    /\ lease = [k \in TaskKinds |-> Free]
    /\ pc = [w \in Workers |-> "idle"]
    /\ kind = [w \in Workers |-> Idle]
    /\ live = [w \in Workers |-> FALSE]
    /\ row = [w \in Workers |-> "closed"]
    /\ unwritten = [w \in Workers |-> FALSE]
    /\ seen = [w \in Workers |-> 0]
    /\ verdict = [w \in Workers |-> "none"]
    /\ daily = [status |-> "none", no |-> 0, age |-> 0]
    /\ checked = FALSE /\ rounds = 0 /\ announced = 0 /\ shortened = FALSE
    /\ tasks = 0 /\ faults = 0

-----------------------------------------------------------------------------
(* Starting a task.                                                        *)

checkinSettled(status) == status \in {"success", "already"}

\* age counts retry intervals: 1 once an hour has passed, 2 once twelve have.
checkinRetryDue(attempt) ==
    \/ attempt.status = "none"
    \/ /\ ~checkinSettled(attempt.status)
       /\ attempt.no < (IF attempt.status = "browser" THEN BrowserLimit ELSE RetryLimit)
       /\ attempt.status = "running"
             \/ attempt.age >= (IF attempt.status = "browser" THEN 2 ELSE 1)

Fault == faults < MaxFaults /\ faults' = faults + 1

\* Two store calls, each of which may fail.
Faults(a, b) ==
    LET n == (IF a THEN 1 ELSE 0) + (IF b THEN 1 ELSE 0)
    IN  faults + n <= MaxFaults /\ faults' = faults + n

Start(w, k, status) ==
    /\ pc[w] = "idle" /\ up[w[1]] = "up"
    /\ tasks < MaxTasks /\ tasks' = tasks + 1
    /\ pc' = [pc EXCEPT ![w] = "gate"]
    /\ kind' = [kind EXCEPT ![w] = k]
    /\ live' = [live EXCEPT ![w] = TRUE]
    /\ row' = [row EXCEPT ![w] = status]
    /\ unwritten' = [unwritten EXCEPT ![w] = FALSE]
    /\ UNCHANGED <<up, gate, lease, seen, verdict, daily, upstream, faults>>

\* One tick of the scheduler starts at most one task at a time for a site; no
\* row exists before the lease is held.
RunSchedule(i) ==
    \E k \in TaskKinds :
        /\ k = "checkin" => checkinRetryDue(daily)
        /\ Start(<<i, "sched">>, k, "closed")

Enqueue(i) == \E k \in TaskKinds : Start(<<i, "manual">>, k, "open")

-----------------------------------------------------------------------------
(* The task's row, its gate and its lease.                                 *)

\* Plausible bug: the final status is written with the task's own context.
closeTask_OwnContext(w, lost) ==
    /\ row' = [row EXCEPT ![w] = IF @ = "open" /\ live[w] /\ ~lost THEN "closed" ELSE @]
    /\ unwritten' = [unwritten EXCEPT ![w] = lost]

\* UpdateSiteTask only changes an open row.  updateTask replaces a context that is
\* cancelled when it looks, so that the last status is stored nevertheless; its
\* error is discarded.  The write is lost when the store fails, or when the
\* context is cancelled between that look and the write.
closeTask(w, lost) ==
    /\ lost => row[w] = "open"
    /\ row' = [row EXCEPT ![w] = IF lost THEN @ ELSE "closed"]
    /\ unwritten' = [unwritten EXCEPT ![w] = lost]

\* Plausible bug: an early return without the deferred release.
FreeGate_Kept(w) ==
    gate' = [gate EXCEPT ![w[1]] = IF @ = w /\ pc[w] = "finish" THEN None ELSE @]

FreeGate(w) ==
    gate' = [gate EXCEPT ![w[1]] = IF @ = w THEN None ELSE @]

Return(w) ==
    /\ pc' = [pc EXCEPT ![w] = "idle"]
    /\ live' = [live EXCEPT ![w] = FALSE]
    /\ kind' = [kind EXCEPT ![w] = Idle]
    /\ seen' = [seen EXCEPT ![w] = 0]
    /\ UNCHANGED <<up, verdict, daily, upstream>>

\* Plausible bug: the row is deleted by its key.
Released_AnyOwner(w) == [lease EXCEPT ![kind[w]] = Free]

\* ReleaseSiteTaskLease deletes the row of its own task only.
Released(w) ==
    [k \in TaskKinds |-> IF lease[k].owner = w THEN Free ELSE lease[k]]

\* The lease rows of a task that ends without deleting its own.
Left(w) ==
    [k \in TaskKinds |-> IF lease[k].owner = w THEN [lease[k] EXCEPT !.owner = Gone] ELSE lease[k]]

\* A task waits for its site's gate until its context ends; a task started by
\* hand also gives up when its time in the queue is over.
GiveUp(w) ==
    /\ pc[w] = "gate"
    /\ ~live[w] \/ ~Scheduled(w)
    /\ \E lost \in BOOLEAN : closeTask(w, lost) /\ Faults(lost, FALSE)
    /\ Return(w)
    /\ UNCHANGED <<gate, lease, tasks>>

acquireSiteGate(w) ==
    /\ pc[w] = "gate" /\ gate[w[1]] = None
    /\ live[w] \/ Scheduled(w)
    /\ gate' = [gate EXCEPT ![w[1]] = w]
    /\ pc' = [pc EXCEPT ![w] = IF Unleased(w) THEN "call" ELSE "lease"]
    /\ UNCHANGED <<up, lease, kind, live, row, unwritten, seen, verdict, daily, upstream, bounds>>

\* An administrator's task is recorded already, the scheduler records its task
\* once it has the lease and hands the lease back when that fails.
AcquireSiteTaskLease(w) ==
    /\ pc[w] = "lease" /\ live[w]
    /\ lease[kind[w]].term = "free"
    /\ lease' = [lease EXCEPT ![kind[w]] =
                   [owner |-> w, term |-> IF kind[w] = "announcements" THEN "long" ELSE "short"]]
    /\ pc' = [pc EXCEPT ![w] = "begin"]
    /\ row' = [row EXCEPT ![w] = IF Scheduled(w) THEN "open" ELSE @]
    /\ UNCHANGED <<up, gate, kind, live, unwritten, seen, verdict, daily, upstream, bounds>>

persistTaskFails(w) ==
    /\ pc[w] = "lease" /\ live[w] /\ Scheduled(w)
    /\ lease[kind[w]].term = "free"
    /\ Fault
    /\ FreeGate(w)
    /\ Return(w)
    /\ UNCHANGED <<lease, row, unwritten, tasks>>

\* Another task owns the lease, the context is over, or the store fails.
LeaseRefused(w) ==
    /\ pc[w] = "lease"
    /\ \E lost, failed \in BOOLEAN :
         /\ failed \/ ~live[w] \/ lease[kind[w]].term # "free"
         /\ closeTask(w, lost)
         /\ Faults(lost, failed)
    /\ FreeGate(w)
    /\ Return(w)
    /\ UNCHANGED <<lease, tasks>>

-----------------------------------------------------------------------------
(* The task's work.                                                        *)

To(w, next) ==
    /\ pc' = [pc EXCEPT ![w] = next]
    /\ UNCHANGED <<up, gate, lease, kind, live, row, unwritten, bounds>>

\* The account, the site and the credentials are loaded, the latter with calls
\* to the upstream: any of them may fail, and no attempt is recorded then.
Begin(w) ==
    /\ pc[w] = "begin"
    /\ \/ live[w] /\ To(w, IF kind[w] = "checkin" /\ Scheduled(w) THEN "read" ELSE "call")
       \/ To(w, "finish")
    /\ UNCHANGED <<seen, verdict, daily, upstream>>

\* prepareCheckinAttempt reads the row of the day and then reuses it; an insert
\* is refused when the row exists by then.
PrepareRead(w) ==
    /\ pc[w] = "read"
    /\ seen' = [seen EXCEPT ![w] = daily.no]
    /\ To(w, IF live[w] THEN "write" ELSE "finish")
    /\ UNCHANGED <<verdict, daily, upstream>>

\* Plausible bug: a reused row keeps the number of its first attempt.
PrepareWrite_Uncounted(w) ==
    /\ pc[w] = "write"
    /\ IF live[w]
         THEN /\ daily' = [status |-> "running", no |-> 1, age |-> 0]
              /\ To(w, "call")
         ELSE UNCHANGED daily /\ To(w, "finish")
    /\ UNCHANGED <<seen, verdict, upstream>>

PrepareWrite(w) ==
    /\ pc[w] = "write"
    /\ IF live[w] /\ (seen[w] = 0 => daily.status = "none")
         THEN /\ daily' = [status |-> "running", no |-> seen[w] + 1, age |-> 0]
              /\ To(w, "call")
         ELSE UNCHANGED daily /\ To(w, "finish")
    /\ UNCHANGED <<seen, verdict, upstream>>

\* The check-in itself, with its retries.  The upstream grants one a day; a
\* request whose context ends may have been granted all the same.
Checkin(w) ==
    /\ pc[w] = "call" /\ kind[w] = "checkin"
    /\ \E v \in {"success", "already", "browser", "failed"} :
         /\ v = "success" => live[w] /\ ~checked
         /\ v = "already" => live[w] /\ checked
         /\ v = "browser" => live[w]
         /\ verdict' = [verdict EXCEPT ![w] = IF Scheduled(w) THEN v ELSE @]
         /\ checked' \in IF v = "success" THEN {TRUE}
                         ELSE IF live[w] THEN {checked} ELSE {checked, TRUE}
    /\ rounds' = IF Scheduled(w) THEN rounds + 1 ELSE rounds
    /\ To(w, IF Scheduled(w) THEN "record" ELSE "finish")
    /\ UNCHANGED <<seen, daily, announced, shortened>>

Refresh(w) ==
    /\ pc[w] = "call" /\ kind[w] # "checkin"
    /\ \/ UNCHANGED announced
       \/ /\ live[w] /\ Scheduled(w) /\ kind[w] = "announcements" /\ announced < 2
          /\ announced' = announced + 1
    /\ To(w, "finish")
    /\ UNCHANGED <<seen, verdict, daily, checked, rounds, shortened>>

\* UpdateCheckinAttempt uses the task's context, and its error is ignored.
Record(w) ==
    /\ pc[w] = "record"
    /\ pc' = [pc EXCEPT ![w] = "finish"]
    /\ \/ live[w] /\ daily' = [status |-> verdict[w], no |-> seen[w] + 1, age |-> 0]
                  /\ UNCHANGED faults
       \/ live[w] /\ Fault /\ UNCHANGED daily
       \/ ~live[w] /\ UNCHANGED <<daily, faults>>
    /\ seen' = [seen EXCEPT ![w] = 0]
    /\ verdict' = [verdict EXCEPT ![w] = "none"]
    /\ UNCHANGED <<up, gate, lease, kind, live, row, unwritten, upstream, tasks>>

\* Plausible bug: every task's lease goes with it, the announcement's too.
LeaseAfter_Freed(w) == Released(w)

\* The announcement lease stays for the day.
LeaseAfter(w) == IF kind[w] = "announcements" THEN Left(w) ELSE Released(w)

\* The row gets its status, then the lease goes, then the gate.  A failed
\* deletion leaves the lease to run out.
Finish(w) ==
    /\ pc[w] = "finish"
    /\ \E lost, kept \in BOOLEAN :
         /\ closeTask(w, lost)
         /\ kept => kind[w] # "announcements"
         /\ lease' = IF kept THEN Left(w) ELSE LeaseAfter(w)
         /\ Faults(lost, kept)
    /\ FreeGate(w)
    /\ Return(w)
    /\ UNCHANGED tasks

-----------------------------------------------------------------------------
(* Renewal, cancellation, stops and time.                                  *)

Renewing(w) == pc[w] \in Running /\ live[w] /\ ~Unleased(w)

\* Renewal gives the lease ninety seconds, whatever it had.
RenewSiteTaskLease(w) ==
    /\ Renewing(w) /\ lease[kind[w]].owner = w /\ lease[kind[w]].term = "long"
    /\ lease' = [lease EXCEPT ![kind[w]].term = "short"]
    /\ shortened' = TRUE
    /\ UNCHANGED <<up, gate, worker, daily, checked, rounds, announced, bounds>>

\* A renewal that fails, or finds another owner, cancels the task's context.
RenewFails(w) ==
    /\ Renewing(w)
    /\ IF lease[kind[w]].owner = w THEN Fault ELSE UNCHANGED faults
    /\ live' = [live EXCEPT ![w] = FALSE]
    /\ UNCHANGED <<up, gate, lease, pc, kind, row, unwritten, seen, verdict, daily, upstream, tasks>>

\* A lease runs out only when nobody renews it any more.
Expire(k) ==
    /\ lease[k].term = "short"
    /\ \/ lease[k].owner = Gone
       \/ lease[k].owner # Gone /\ ~Renewing(lease[k].owner)
    /\ lease' = [lease EXCEPT ![k] = Free]
    /\ UNCHANGED <<up, gate, worker, daily, upstream, bounds>>

\* The row is cancelled; the context only when the task was started by hand in
\* the instance that serves the request.
handleSiteTaskCancel(w) ==
    /\ row[w] = "open"
    /\ row' = [row EXCEPT ![w] = "closed"]
    /\ live' \in {live} \cup (IF Scheduled(w) THEN {} ELSE {[live EXCEPT ![w] = FALSE]})
    /\ UNCHANGED <<up, gate, lease, pc, kind, unwritten, seen, verdict, daily, upstream, bounds>>

Mine(i) == {w \in Workers : w[1] = i}

\* stopTasks and the end of the base context cancel every task of the instance.
Shutdown(i) ==
    /\ up[i] = "up" /\ Fault
    /\ up' = [up EXCEPT ![i] = "stopping"]
    /\ live' = [w \in Workers |-> live[w] /\ w \notin Mine(i)]
    /\ UNCHANGED <<gate, lease, pc, kind, row, unwritten, seen, verdict, daily, upstream, tasks>>

Restart(i) ==
    /\ up[i] = "stopping" /\ \A w \in Mine(i) : pc[w] = "idle"
    /\ up' = [up EXCEPT ![i] = "up"]
    /\ UNCHANGED <<gate, lease, worker, daily, upstream, bounds>>

\* The process dies and leaves its rows and leases to nobody.  The variable row
\* follows the rows of live tasks: the one of a dead task stays open for good.
InstanceCrash(i) ==
    /\ Fault
    /\ up' = [up EXCEPT ![i] = "up"]
    /\ gate' = [gate EXCEPT ![i] = None]
    /\ pc' = [w \in Workers |-> IF w \in Mine(i) THEN "idle" ELSE pc[w]]
    /\ live' = [w \in Workers |-> live[w] /\ w \notin Mine(i)]
    /\ row' = [w \in Workers |-> IF w \in Mine(i) THEN "closed" ELSE row[w]]
    /\ lease' = [k \in TaskKinds |-> IF lease[k].owner \in Mine(i)
                                   THEN [lease[k] EXCEPT !.owner = Gone] ELSE lease[k]]
    /\ kind' = [w \in Workers |-> IF w \in Mine(i) THEN Idle ELSE kind[w]]
    /\ seen' = [w \in Workers |-> IF w \in Mine(i) THEN 0 ELSE seen[w]]
    /\ verdict' = [w \in Workers |-> IF w \in Mine(i) THEN "none" ELSE verdict[w]]
    /\ UNCHANGED <<unwritten, daily, upstream, tasks>>

\* An hour, then twelve, pass since the attempt finished.
Wait ==
    /\ daily.status \notin {"none", "running"} /\ daily.age < 2
    /\ daily' = [daily EXCEPT !.age = @ + 1]
    /\ UNCHANGED <<up, gate, lease, worker, upstream, bounds>>

Step(w) ==
    \/ GiveUp(w) \/ acquireSiteGate(w) \/ AcquireSiteTaskLease(w) \/ LeaseRefused(w)
    \/ persistTaskFails(w) \/ Begin(w) \/ PrepareRead(w) \/ PrepareWrite(w)
    \/ Checkin(w) \/ Refresh(w) \/ Record(w) \/ Finish(w)

SiteNext ==
    \/ \E i \in Instances : RunSchedule(i) \/ Shutdown(i) \/ Restart(i) \/ InstanceCrash(i)
    \/ \E i \in Manual : Enqueue(i)
    \/ \E w \in Workers :
          Step(w) \/ RenewSiteTaskLease(w) \/ RenewFails(w) \/ handleSiteTaskCancel(w)
    \/ \E k \in TaskKinds : Expire(k)
    \/ Wait

SiteSpec == SiteInit /\ [][SiteNext]_siteVars

-----------------------------------------------------------------------------
(* Properties.                                                             *)

\* Two instances never run the same kind of task for the account together
\* while both may still write: leaseContext cancels a task whose lease cannot
\* be renewed before somebody else can take it (site_control.go:198).
LeaseExclusive ==
    \A v, w \in Workers :
        /\ Renewing(v) /\ pc[v] # "finish" /\ Renewing(w) /\ pc[w] # "finish"
        /\ kind[v] = kind[w]
        => v = w

\* Every scheduled check-in that reached the upstream is counted by the row of
\* the day, over crashes and lost results, and the cap of the day holds up to
\* one check-in for each further instance, whose scheduler decided before it
\* had the lease (site_scheduler.go:205).
RoundsBounded ==
    /\ rounds <= daily.no
    /\ daily.no <= RetryLimit + Cardinality(Instances) - 1

\* A task that has returned has left a final status in its row, also when its
\* context was cancelled, its lease was refused or it was cancelled while it
\* waited (site_control.go:180), unless that last write itself was lost: its error
\* is discarded (site_control.go:195), and the row stays open until somebody
\* cancels the task that no longer exists.
RowsSettled == \A w \in Workers : pc[w] = "idle" => row[w] = "closed" \/ unwritten[w]

\* The gate of a site is held by a task that is at work and gives it back.
GateComesBack ==
    \A i \in Instances : gate[i] # None => gate[i][1] = i /\ pc[gate[i]] \notin {"idle", "gate"}

\* Whatever way a task ends (an early return, a cancellation, a refused lease, a
\* shutdown), it leaves its row closed, up to a lost write of its final status, and
\* the site open to later tasks (site_control.go:180 and 230).
TasksReturn == RowsSettled /\ GateComesBack

\* The announcement lease decides whether today's refresh already ran
\* (site_scheduler.go:155): over crashes, failed tasks and several instances the
\* scheduler refreshes the announcements once a day.  The exception is a refresh
\* slow enough to have its lease renewed, which cuts its twenty-six hours to
\* ninety seconds (site_control.go:210).
AnnouncedOnce == announced <= 1 \/ shortened

\* What is due once a day is done once a day, whatever the other instances, a
\* crash or a lost result make of it (site_scheduler.go:155 and 205).
DailyWorkBounded == RoundsBounded /\ AnnouncedOnce

=============================================================================
