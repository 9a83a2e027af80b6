---------------------------- MODULE WorkerDrain ----------------------------
(***************************************************************************)
(* How one worker process comes to claim queued jobs: wake, schedule and   *)
(* the drain pass of createRuntimeJobWorker (runtime-job-worker.ts) with   *)
(* claimNextRuntimeJob (jobs.ts). RuntimeJobs assumes of it only that a    *)
(* job that can be claimed is claimed in the end.                          *)
(*                                                                         *)
(* A pass takes the hints it finds when it starts. It scans the sessions   *)
(* hinted at or, after a maintenance pass or a wake without a session, a   *)
(* snapshot of all jobs. Jobs are numbered in the order in which they are  *)
(* queued; rows are reduced to who works on them.                          *)
(***************************************************************************)
EXTENDS Integers, FiniteSets

CONSTANTS
  Jobs,         \* numbered in queueing order
  Sessions,
  SessionOf,
  RuntimeOf,    \* runtimeKey of a job
  Concurrency,  \* runs at the same time
  Gated,        \* the jobs that need credentials a request has to provide
  Environments  \* what surrounds the worker: see env

ASSUME DrainAssumption ==
  /\ Jobs \subseteq Nat
  /\ SessionOf \in [Jobs -> Sessions]
  /\ \A i, j \in Jobs : RuntimeOf[i] = RuntimeOf[j] => SessionOf[i] = SessionOf[j]
  /\ Concurrency \in Nat \ {0}
  /\ Gated \subseteq Jobs
  /\ Environments \subseteq
       [foreign : SUBSET Jobs,      \* the jobs nobody wakes this worker for
        timed : SUBSET Jobs,        \* the jobs with a queue deadline
        cancellable : SUBSET Jobs,  \* the jobs a user may cancel while they are queued
        others : BOOLEAN,           \* another worker claims jobs too
        maintenance : BOOLEAN,      \* maintenance falls due after the first, too
        mortal : BOOLEAN,           \* the worker may close
        maxFails : Nat]             \* bound: how often the store fails

VARIABLES
  env,         \* the environment, fixed from the start
  row,         \* where a job is
  ready,       \* the jobs prepareExecution has services for
  late,        \* the jobs past their queue deadline
  active,      \* the jobs of activeRuntimeKeys and activeCount
  hints,       \* hintedSessions
  fullScan,    \* fullScanRequested
  wakeReq,     \* wakeRequested
  scheduled,   \* a pass is scheduled
  timer,       \* wakeTimer: "none", "maintenance" or "retry"
  due,         \* nextMaintenanceAt has passed
  pc,          \* progress of the pass
  full,        \* scope is undefined: the pass scans its snapshot
  scope,       \* the sessions of the pass otherwise
  maintained,  \* the pass did maintenance
  failed,      \* the pass threw
  snap,        \* the jobs queued in the snapshot
  sess,        \* sessions claimNextRuntimeJob has not visited
  todo,        \* candidates of the visited session still to be tried
  closed,
  fails,
  owed,        \* jobs whose request has still to wake the worker
  told         \* history: jobs for which the worker was woken since they could run

wakeVars == <<hints, fullScan, wakeReq, scheduled, timer>>
passVars == <<pc, full, scope, maintained, failed, snap, sess, todo>>
vars == <<env, row, ready, late, active, wakeVars, due, passVars, closed, fails, owed, told>>

Init ==
  /\ env \in Environments
  /\ row = [j \in Jobs |-> "absent"]
  /\ ready = Jobs \ Gated
  /\ late = {} /\ active = {}
  /\ hints = {} /\ fullScan = TRUE /\ wakeReq = FALSE
  /\ scheduled = TRUE /\ timer = "none" /\ due = TRUE
  /\ pc = "idle" /\ full = FALSE /\ scope = {}
  /\ maintained = FALSE /\ failed = FALSE
  /\ snap = {} /\ sess = {} /\ todo = {}
  /\ closed = FALSE /\ fails = 0 /\ owed = {} /\ told = {}

-----------------------------------------------------------------------------
(* Waking *)

\* Mutant: a wake during a pass is left to the pass.
ScheduleUnlessDraining ==
  IF closed \/ pc # "idle" THEN UNCHANGED <<wakeReq, scheduled, timer>>
  ELSE scheduled' = TRUE /\ timer' = "none" /\ UNCHANGED wakeReq

\* A wake during a pass asks for another one after it.
Schedule ==
  IF closed THEN UNCHANGED <<wakeReq, scheduled, timer>>
  ELSE IF pc # "idle" THEN wakeReq' = TRUE /\ UNCHANGED <<scheduled, timer>>
  ELSE scheduled' = TRUE /\ timer' = "none" /\ UNCHANGED wakeReq

Wake(s) ==
  /\ hints' = IF closed THEN hints ELSE hints \cup {s}
  /\ Schedule
  /\ UNCHANGED fullScan

-----------------------------------------------------------------------------
(* Requests, time and other processes *)

SameRuntime(j) == {k \in Jobs : RuntimeOf[k] = RuntimeOf[j]}
Before(j) == {k \in SameRuntime(j) : k < j}

\* The row commits first; the request wakes the worker afterwards.
Enqueue(j) ==
  /\ row[j] = "absent"
  /\ \A k \in Jobs : k < j => row[k] # "absent"
  /\ row' = [row EXCEPT ![j] = "queued"]
  /\ owed' = owed \cup ({j} \ env.foreign)
  /\ UNCHANGED <<env, ready, late, active, wakeVars, due, passVars, closed, fails, told>>

\* A request hands over the credentials a job waits for.
Provide(j) ==
  /\ row[j] = "queued" /\ j \notin ready
  /\ ready' = ready \cup {j}
  /\ owed' = owed \cup ({j} \ env.foreign)
  /\ told' = told \ {j}
  /\ UNCHANGED <<env, row, late, active, wakeVars, due, passVars, closed, fails>>

Tell(j) ==
  /\ row[j] = "queued" /\ j \in owed
  /\ owed' = owed \ {j}
  /\ told' = told \cup {j}
  /\ Wake(SessionOf[j])
  /\ UNCHANGED <<env, row, ready, late, active, due, passVars, closed, fails>>

\* POST .../cancel of a queued job. It wakes nobody for the jobs behind it.
Cancel(j) ==
  /\ row[j] = "queued" /\ j \in env.cancellable
  /\ row' = [row EXCEPT ![j] = "done"]
  /\ told' = told \ SameRuntime(j)
  /\ UNCHANGED <<env, ready, late, active, wakeVars, due, passVars, closed, fails, owed>>

QueueDeadlinePasses(j) ==
  /\ row[j] = "queued" /\ j \in env.timed \ late
  /\ late' = late \cup {j}
  /\ UNCHANGED <<env, row, ready, active, wakeVars, due, passVars, closed, fails, owed, told>>

MaintenanceFallsDue ==
  /\ env.maintenance /\ ~due
  /\ due' = TRUE
  /\ UNCHANGED <<env, row, ready, late, active, wakeVars, passVars, closed, fails, owed, told>>

TimerFires ==
  /\ timer = "retry" \/ (timer = "maintenance" /\ due)
  /\ Schedule
  /\ UNCHANGED <<env, row, ready, late, active, hints, fullScan, due, passVars, closed,
                 fails, owed, told>>

\* No predecessor that is still queued or worked on.
First(j) == \A k \in Before(j) : row[k] = "done"

Steal(j) ==
  /\ env.others /\ row[j] = "queued" /\ First(j)
  /\ row' = [row EXCEPT ![j] = "theirs"]
  /\ UNCHANGED <<env, ready, late, active, wakeVars, due, passVars, closed, fails, owed, told>>

\* The other worker settles the job, or dies and leaves its lease behind.
OtherEnds(j) ==
  /\ row[j] = "theirs"
  /\ \E s \in {"done", "lapsed"} : row' = [row EXCEPT ![j] = s]
  /\ told' = told \ SameRuntime(j)
  /\ UNCHANGED <<env, ready, late, active, wakeVars, due, passVars, closed, fails, owed>>

-----------------------------------------------------------------------------
(* A pass *)

\* Mutant: the pass takes all hints it finds when it ends.
LeftWhenEnding == {}

\* What is hinted at during the pass belongs to the next one.
LeftForNext == hints

\* drainScheduled, and drain up to its first await.
PassStarts ==
  /\ scheduled
  /\ scheduled' = FALSE
  /\ hints' = {} /\ fullScan' = FALSE
  /\ full' = fullScan /\ scope' = hints
  /\ pc' = IF due THEN "recover"
           ELSE IF fullScan THEN "list"
           ELSE IF hints = {} THEN "touched" ELSE "loop"
  /\ maintained' = FALSE /\ failed' = FALSE
  /\ UNCHANGED <<env, row, ready, late, active, wakeReq, timer, due, snap, sess, todo,
                 closed, fails, owed, told>>

QueuedJobs == {j \in Jobs : row[j] = "queued"}

\* Mutant: lapsed leases are not recovered.
ExpiredQueued == {j \in Jobs : row[j] = "queued" /\ j \in late}

\* The jobs recoverExpiredRuntimeJobs ends.
Expired == {j \in Jobs : row[j] = "lapsed" \/ (row[j] = "queued" /\ j \in late)}

\* Maintenance reads all jobs, then times out queued ones and recovers lapsed
\* ones, of all workers; the snapshot is kept current with what it changes.
Recover ==
  /\ pc = "recover"
  /\ row' = [j \in Jobs |-> IF j \in Expired THEN "done" ELSE row[j]]
  /\ snap' = QueuedJobs \ Expired
  /\ pc' = "reconcile"
  /\ UNCHANGED <<env, ready, late, active, wakeVars, due, full, scope, maintained, failed,
                 sess, todo, closed, fails, owed, told>>

Reconcile ==
  /\ pc = "reconcile"
  /\ maintained' = TRUE /\ full' = TRUE /\ due' = FALSE
  /\ pc' = "loop"
  /\ UNCHANGED <<env, row, ready, late, active, wakeVars, scope, failed, snap, sess, todo,
                 closed, fails, owed, told>>

List ==
  /\ pc = "list"
  /\ snap' = QueuedJobs
  /\ pc' = "loop"
  /\ UNCHANGED <<env, row, ready, late, active, wakeVars, due, full, scope, maintained,
                 failed, sess, todo, closed, fails, owed, told>>

\* Mutant: a pass that finds no capacity drops its scope.
DeferDropped == UNCHANGED <<hints, fullScan>>

\* A finishing job wakes the worker; the scope of this pass is resumed then.
Defer ==
  /\ hints' = IF full THEN hints ELSE hints \cup scope
  /\ fullScan' = (fullScan \/ full)

\* Mutant: a pass fills up without counting.
RoomAlways == TRUE

Room == Cardinality(active) < Concurrency

\* Mutant: the loop goes on after close().
HaltedNever == FALSE

Halted == closed

\* The head of the loop: end, wait for capacity, or claim the next job.
Loop ==
  /\ pc = "loop"
  /\ IF Halted THEN pc' = "end" /\ UNCHANGED <<hints, fullScan, sess>>
     ELSE IF ~Room THEN pc' = "end" /\ Defer /\ UNCHANGED sess
     ELSE /\ pc' = "visit"
          /\ sess' = IF full THEN {SessionOf[j] : j \in snap} ELSE scope
          /\ UNCHANGED <<hints, fullScan>>
  /\ todo' = {}
  /\ UNCHANGED <<env, row, ready, late, active, wakeReq, scheduled, timer, due, full,
                 scope, maintained, failed, snap, closed, fails, owed, told>>

\* The candidates of the next session, from the snapshot or read now.
Visit(s) ==
  /\ pc = "visit" /\ todo = {} /\ s \in sess
  /\ sess' = sess \ {s}
  /\ todo' = {j \in (IF full THEN snap ELSE QueuedJobs) : SessionOf[j] = s}
  /\ UNCHANGED <<env, row, ready, late, active, wakeVars, due, pc, full, scope, maintained,
                 failed, snap, closed, fails, owed, told>>

KeyActive(j) == \E k \in active : RuntimeOf[k] = RuntimeOf[j]

\* One candidate: skipped, timed out, or claimed, which ends the search.
Try(j) ==
  /\ pc = "visit" /\ j \in todo /\ \A k \in todo : j <= k
  /\ LET tried == ~KeyActive(j) /\ j \in ready /\ row[j] = "queued" /\ First(j)
         claimed == tried /\ j \notin late
     IN  /\ row' = [row EXCEPT ![j] = IF claimed THEN "mine" ELSE IF tried THEN "done" ELSE @]
         /\ active' = IF claimed THEN active \cup {j} ELSE active
         /\ pc' = IF claimed THEN "loop" ELSE "visit"
  /\ todo' = todo \ {j}
  /\ UNCHANGED <<env, ready, late, wakeVars, due, full, scope, maintained, failed, snap,
                 sess, closed, fails, owed, told>>

NothingClaimed ==
  /\ pc = "visit" /\ todo = {} /\ sess = {}
  /\ pc' = IF maintained THEN "end" ELSE "touched"
  /\ UNCHANGED <<env, row, ready, late, active, wakeVars, due, full, scope, maintained, failed,
                 snap, sess, todo, closed, fails, owed, told>>

ReconcileTouched ==
  /\ pc = "touched"
  /\ pc' = "end"
  /\ UNCHANGED <<env, row, ready, late, active, wakeVars, due, full, scope, maintained, failed,
                 snap, sess, todo, closed, fails, owed, told>>

\* Mutant: the hints a failed pass took are gone.
ScanAfterFailure == fullScan

\* A failed pass may have used up hints: the next one scans everything.
ScanAll == TRUE

\* A read or write of the pass throws.
PassFails ==
  /\ fails < env.maxFails
  /\ pc \in {"recover", "reconcile", "list", "touched"} \/ (pc = "visit" /\ todo \cup sess # {})
  /\ fails' = fails + 1
  /\ pc' = "end" /\ failed' = TRUE
  /\ fullScan' = ScanAll
  /\ due' = (due /\ pc \notin {"recover", "reconcile"})
  /\ UNCHANGED <<env, row, ready, late, active, hints, wakeReq, scheduled, timer, full, scope,
                 maintained, snap, sess, todo, closed, owed, told>>

\* The finally of drainScheduled.
PassEnds ==
  /\ pc = "end"
  /\ pc' = "idle"
  /\ hints' = LeftForNext
  /\ IF closed THEN UNCHANGED <<wakeReq, scheduled, timer>>
     ELSE /\ wakeReq' = FALSE
          /\ scheduled' = wakeReq
          /\ timer' = IF wakeReq THEN "none" ELSE IF failed THEN "retry" ELSE "maintenance"
  /\ full' = FALSE /\ scope' = {} /\ maintained' = FALSE /\ failed' = FALSE
  /\ snap' = {} /\ sess' = {} /\ todo' = {}
  /\ UNCHANGED <<env, row, ready, late, active, fullScan, due, closed, fails, owed, told>>

-----------------------------------------------------------------------------
(* Runs, as far as the drain sees them *)

\* The row settles, goes back to the queue at shutdown, or the write fails.
Settles(j) ==
  /\ row[j] = "mine" /\ j \in active
  /\ \E s \in {"done"} \cup (IF closed THEN {"queued"} ELSE {})
              \cup (IF fails < env.maxFails THEN {"lapsed"} ELSE {}) :
       /\ row' = [row EXCEPT ![j] = s]
       /\ fails' = IF s = "lapsed" THEN fails + 1 ELSE fails
  /\ UNCHANGED <<env, ready, late, active, wakeVars, due, passVars, closed, owed, told>>

\* Mutant: a run that ends wakes nobody.
RunEndsQuietly(j) == UNCHANGED wakeVars

RunEndWakes(j) == Wake(SessionOf[j])

\* The finally of runOne.
RunEnds(j) ==
  /\ j \in active /\ row[j] # "mine"
  /\ active' = active \ {j}
  /\ RunEndWakes(j)
  /\ UNCHANGED <<env, row, ready, late, due, passVars, closed, fails, owed, told>>

Close ==
  /\ env.mortal /\ ~closed
  /\ closed' = TRUE
  /\ scheduled' = FALSE /\ timer' = "none"
  /\ UNCHANGED <<env, row, ready, late, active, hints, fullScan, wakeReq, due, passVars, fails,
                 owed, told>>

-----------------------------------------------------------------------------
PassStep ==
  \/ PassStarts \/ Recover \/ Reconcile \/ List \/ Loop
  \/ \E s \in Sessions : Visit(s)
  \/ \E j \in Jobs : Try(j)
  \/ NothingClaimed \/ ReconcileTouched \/ PassFails \/ PassEnds

Next ==
  \/ \E j \in Jobs : \/ Enqueue(j) \/ Provide(j) \/ Tell(j) \/ Cancel(j)
                     \/ QueueDeadlinePasses(j) \/ Steal(j) \/ OtherEnds(j)
                     \/ Settles(j) \/ RunEnds(j)
  \/ MaintenanceFallsDue \/ TimerFires
  \/ PassStep
  \/ Close

Spec == Init /\ [][Next]_vars

\* The event loop goes on, timers fire, time passes, runs end, and requests
\* that queued a job get to wake the worker.
FairSpec ==
  /\ Spec
  /\ WF_vars(PassStep) /\ WF_vars(TimerFires) /\ WF_vars(MaintenanceFallsDue)
  /\ \A j \in Jobs : /\ WF_vars(Settles(j)) /\ WF_vars(RunEnds(j)) /\ WF_vars(Tell(j))
                     /\ WF_vars(OtherEnds(j))

-----------------------------------------------------------------------------
(* Properties *)

TypeOK ==
  /\ env \in Environments
  /\ row \in [Jobs -> {"absent", "queued", "mine", "theirs", "lapsed", "done"}]
  /\ ready \subseteq Jobs /\ late \subseteq Jobs /\ active \subseteq Jobs
  /\ hints \subseteq Sessions /\ scope \subseteq Sessions /\ sess \subseteq Sessions
  /\ snap \subseteq Jobs /\ todo \subseteq Jobs /\ owed \cup told \subseteq Jobs
  /\ timer \in {"none", "maintenance", "retry"}
  /\ pc \in {"idle", "recover", "reconcile", "list", "loop", "visit", "touched", "end"}
  /\ {fullScan, wakeReq, scheduled, due, full, maintained, failed, closed} \subseteq BOOLEAN
  /\ fails \in 0..env.maxFails

\* activeCount never passes the limit, also when runs end and start during a
\* pass, no two runs of one runtime are active, and every row this worker has
\* claimed has a run.
CapacityKept ==
  /\ Cardinality(active) <= Concurrency
  /\ \A i, j \in active : RuntimeOf[i] = RuntimeOf[j] => i = j
  /\ \A j \in Jobs : row[j] = "mine" => j \in active

DrainInv == TypeOK /\ CapacityKept

\* No wake-up is lost: when the worker rests until its next maintenance, every
\* job it was woken for and could claim now waits only for capacity, and is
\* remembered for the run that ends next.
Resting == pc = "idle" /\ ~scheduled /\ timer # "retry" /\ ~closed

Claimable(j) ==
  row[j] = "queued" /\ j \in ready /\ First(j) /\ ~KeyActive(j)

WakeupsKept ==
  Resting =>
    \A j \in told : Claimable(j) => ~Room /\ (fullScan \/ SessionOf[j] \in hints)

\* A job and all before it of its runtime have what they need to run.
Serviceable(j) == Before(j) \cup {j} \subseteq ready

\* Every job the worker was woken for leaves the queue without the help of a
\* maintenance pass, unless the worker closes or a job before it keeps a lease
\* nobody works under (wake, schedule, drain). With maintenance
\* (recoverExpiredRuntimeJobs) every job does, also one that another process
\* queued, that waits behind a job of a worker that died, or that a cancelled
\* job held up.
QueuedIsTaken ==
  \A j \in Jobs :
    row[j] = "queued" /\ Serviceable(j) /\ (env.maintenance \/ j \in told)
      ~> \/ row[j] # "queued" \/ closed
         \/ ~env.maintenance /\ \E k \in Before(j) : row[k] = "lapsed"

\* close(): the pass and every run come to an end for good, although runs that
\* are stopped put their jobs back into the queue the pass claims from.
CloseEnds == closed ~> [](pc = "idle" /\ active = {} /\ ~scheduled)
=============================================================================
