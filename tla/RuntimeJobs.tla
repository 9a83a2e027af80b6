---------------------------- MODULE RuntimeJobs ----------------------------
(***************************************************************************)
(* Durable runtime jobs: the _runtime_jobs rows of one session and plugin  *)
(* (plugin-rpc/jobs.ts), the worker processes that claim, renew, execute   *)
(* and settle them (plugin-rpc/runtime-job-worker.ts), the detached        *)
(* execution a worker starts (plugin-rpc/runtime-job-executor.ts and       *)
(* runDetached in plugin-rpc/runtime-turn.ts) and the requests that act on *)
(* a job from outside: turn commits, cancel, retry, session changes.       *)
(*                                                                         *)
(* One run of a job by a worker (runOne) is four concurrent activities:    *)
(*   main   runOne itself: start, wait for the race, settle;               *)
(*   exec   the execution: runtime lock, session check, provider call,     *)
(*          commit barrier, commit transaction;                            *)
(*   renew  the lease renewal timer;                                       *)
(*   dl     the execution deadline timer.                                  *)
(* They meet only in the job row, whose updatedAt is the compare-and-set   *)
(* revision, in the abort signal, and in the two locks.                    *)
(*                                                                         *)
(* Time is abstracted to which bounds have passed: leaseLate holds the     *)
(* jobs whose leaseExpiresAt is in the past, queueLate those past their    *)
(* queue deadline. A lease may run out at any moment, renewal or not.      *)
(* The job-status rows and events a transition is reported with are a      *)
(* projection of the row and not part of this module; a report that fails  *)
(* is, where runOne's control flow depends on it.                          *)
(***************************************************************************)
EXTENDS Integers, FiniteSets

CONSTANTS
  Workers,      \* worker processes; a restarted process is a new owner id
  Mortal,       \* the workers that may close or crash
  Jobs,         \* job ids, each used at most once
  Runtimes,     \* runtime ids of the plugin
  RuntimeOf,    \* the runtime a job id is enqueued for
  QueueTimed,   \* the jobs with a queue deadline (maxQueueMs)
  ExecTimed,    \* the jobs with an execution deadline (maxExecutionMs)
  Settling,     \* the runtimes whose jobs settle "before-next-execution"
  NoWorker,     \* no owner
  Turn,         \* a foreground turn, as holder of the session lock
  NoHolder,     \* nobody holds the lock
  NoJob,        \* no follower
  Clock,        \* the clock readings (ms) a write may see
  QueueLimit,   \* maxQueuedPerSession
  Keep,         \* RETAINED_TERMINAL_RUNTIME_JOBS
  MaxRev,       \* bound: rows at this revision are not renewed
  MaxChanges,   \* bound: number of session changes
  LockLoss      \* TRUE: a lock connection may drop while its owner lives

Runs == Workers \X Jobs

ASSUME ConstantsAssumption ==
  /\ Mortal \subseteq Workers
  /\ RuntimeOf \in [Jobs -> Runtimes]
  /\ QueueTimed \subseteq Jobs /\ ExecTimed \subseteq Jobs
  /\ Settling \subseteq Runtimes
  /\ NoWorker \notin Workers
  /\ Turn \notin Runs /\ NoHolder \notin Runs /\ Turn # NoHolder
  /\ NoJob \notin Jobs
  /\ Clock \subseteq Nat
  /\ QueueLimit \in Nat \ {0}
  /\ Keep \in Nat /\ MaxRev \in Nat /\ MaxChanges \in Nat
  /\ LockLoss \in BOOLEAN

VARIABLES
  job,        \* the job rows
  counter,    \* the _runtime_job_control sequence counter
  queueLate,  \* jobs whose queue deadline has passed
  leaseLate,  \* jobs whose lease has passed
  scan,       \* revision at which a recovery scan saw the row lapsed
  up,         \* "up", "closing" or "down", per worker
  run,        \* runOne of a worker for a job
  sessLock,   \* holder of the session (commit) lock
  rtLock,     \* holder of the background-runtime lock, per runtime
  session,    \* [active, gen]: status; incarnation, scope and version
  changes,    \* session changes so far
  commits,    \* history: how often a job's domain writes committed
  verdict,    \* history: the status written in that transaction
  born,       \* history: value of changes when the job was enqueued
  origin      \* history: order of the source execution of the job

rowVars == <<job, counter, queueLate, leaseLate, scan>>
lockVars == <<sessLock, rtLock>>
sessionVars == <<session, changes>>
histVars == <<commits, verdict, born, origin>>
vars == <<job, counter, queueLate, leaseLate, scan, up, run, sessLock,
          rtLock, session, changes, commits, verdict, born, origin>>

Terminal == {"succeeded", "failed", "timed_out", "cancelled", "stale", "orphaned"}
Active == {"claimed", "running", "committing"}
Absent == {"absent", "pruned"}
Status == Absent \cup {"queued"} \cup Active \cup Terminal

\* LEGAL_RUNTIME_JOB_TRANSITIONS
Legal(from, to) ==
  \/ from = "queued" /\ to \in {"claimed", "failed", "timed_out", "cancelled"}
  \/ from = "claimed" /\ to \in {"queued", "running", "failed", "timed_out",
                                 "cancelled", "orphaned"}
  \/ from = "running" /\ to \in {"queued", "committing"} \cup Terminal
  \/ from = "committing" /\ to \in {"queued"} \cup Terminal

Row == [status : Status, owner : Workers \cup {NoWorker}, rev : Nat,
        attempt : Nat, seq : Nat, gen : Nat]

NoRow == [status |-> "absent", owner |-> NoWorker, rev |-> 0, attempt |-> 0,
          seq |-> 0, gen |-> 0]

NoRev == -1

\* Why runOne stopped: the abort reason, or the error its catch sees.
Reason == {"none", "closed", "stale", "lapsed", "timeout", "error"}

RunState ==
  [main : {"idle", "start", "race", "check", "catch", "settle", "requeue", "done"},
   exec : {"none", "admit", "lock", "pre", "call", "fin", "barrier", "cas",
           "mark", "tx", "ret"},
   renew : {"off", "timer", "read"},
   dl : {"off", "timer", "fired"},
   abort : Reason,                                  \* executionAbort.signal
   err : Reason,                                    \* what the catch caught
   cur : {"claimed", "running", "committing"},      \* current.status
   stopRenewing : BOOLEAN,
   readRev : Nat,                                   \* row the renewal read
   casRev : Nat]                                    \* row beforeCommit read

NoRun == [main |-> "idle", exec |-> "none", renew |-> "off", dl |-> "off",
          abort |-> "none", err |-> "none", cur |-> "claimed",
          stopRenewing |-> FALSE, readRev |-> 0, casRev |-> 0]

-----------------------------------------------------------------------------
(* The job row *)

\* Mutants: a revision that may repeat, and one that may step back.
NextRevisionClock(previous, now) == now
NextRevisionBack(previous, now) == IF now <= previous THEN previous - 1 ELSE now

\* nextRevision: the CAS revision is a timestamp, pushed past the previous
\* one when the clock did not move (or moved back).
NextRevision(previous, now) == IF now <= previous THEN previous + 1 ELSE now

Exists(j) == job[j].status \notin Absent

Queued == {j \in Jobs : job[j].status = "queued"}

\* The retained rows of j's runtime, j among them.
Group(j) == {k \in Jobs : Exists(k) /\ RuntimeOf[k] = RuntimeOf[j]}

\* Mutant: the owner is compared, the status is not.
HoldsOwnerOnly(w, j, from, to) == job[j].owner = w

\* A worker's transition(): the row is in one of `from`, the step is legal and
\* the worker still owns the row.
Holds(w, j, from, to) ==
  /\ job[j].status \in from
  /\ Legal(job[j].status, to)
  /\ job[j].owner = w

\* The row transitionRuntimeJob writes. Going back to the queue drops the
\* owner and the lease (withoutRun).
Moved(row, to, now) ==
  [row EXCEPT !.status = to,
              !.rev = NextRevision(@, now),
              !.owner = IF to = "queued" THEN NoWorker ELSE @]

\* A final or queued row has no lease to watch, and no scan of a final row
\* can act any more.
Rest(j, to) ==
  /\ leaseLate' = IF to \in Active THEN leaseLate ELSE leaseLate \ {j}
  /\ scan' = IF to \in Terminal THEN [scan EXCEPT ![j] = NoRev] ELSE scan

Transition(j, to) ==
  /\ \E now \in Clock : job' = [job EXCEPT ![j] = Moved(@, to, now)]
  /\ Rest(j, to)

\* The sequence createRuntimeJob allocates: above every retained row and
\* above the counter.
NextSeq ==
  LET taken == {job[j].seq : j \in {k \in Jobs : Exists(k)}} \cup {counter}
  IN  (CHOOSE m \in taken : \A n \in taken : n <= m) + 1

CanCreate(j) ==
  /\ job[j].status = "absent"
  /\ Cardinality(Queued) < QueueLimit

\* createRuntimeJob inside a transaction that has written `rows`, for the
\* source execution `source`.
Create(rows, j, source) ==
  /\ \E now \in Clock :
       job' = [rows EXCEPT ![j] =
                 [status |-> "queued", owner |-> NoWorker, rev |-> now,
                  attempt |-> 0, seq |-> NextSeq, gen |-> session.gen]]
  /\ counter' = NextSeq
  /\ born' = [born EXCEPT ![j] = changes]
  /\ origin' = [origin EXCEPT ![j] = source]

-----------------------------------------------------------------------------
Init ==
  /\ job = [j \in Jobs |-> NoRow]
  /\ counter = 0
  /\ queueLate = {}
  /\ leaseLate = {}
  /\ scan = [j \in Jobs |-> NoRev]
  /\ up = [w \in Workers |-> "up"]
  /\ run = [w \in Workers |-> [j \in Jobs |-> NoRun]]
  /\ sessLock = NoHolder
  /\ rtLock = [r \in Runtimes |-> NoHolder]
  /\ session = [active |-> TRUE, gen |-> 0]
  /\ changes = 0
  /\ commits = [j \in Jobs |-> 0]
  /\ verdict = [j \in Jobs |-> "none"]
  /\ born = [j \in Jobs |-> 0]
  /\ origin = [j \in Jobs |-> 0]

-----------------------------------------------------------------------------
(* Requests: foreground turns, cancel, retry, session changes *)

\* A foreground turn holds the session lock for its whole run; the jobs it
\* detaches are created in its commit transaction.
TurnBegin ==
  /\ session.active
  /\ sessLock = NoHolder
  /\ sessLock' = Turn
  /\ UNCHANGED <<rowVars, up, run, rtLock, sessionVars, histVars>>

TurnEnqueue(j) ==
  /\ sessLock = Turn
  /\ CanCreate(j)
  /\ Create(job, j, NextSeq)
  /\ UNCHANGED <<queueLate, leaseLate, scan, up, run, lockVars, sessionVars, commits, verdict>>

TurnEnd ==
  /\ sessLock = Turn
  /\ sessLock' = NoHolder
  /\ UNCHANGED <<rowVars, up, run, rtLock, sessionVars, histVars>>

\* POST .../cancel, under the session lock.
Cancel(j) ==
  /\ sessLock = NoHolder
  /\ job[j].status \in {"queued", "claimed", "running"}
  /\ Transition(j, "cancelled")
  /\ UNCHANGED <<counter, queueLate, up, run, lockVars,
                 sessionVars, histVars>>

\* Mutant: no superseded check.
NotSupersededNever(j) == TRUE

\* RuntimeJobSupersededError: a settling job is not retried over a later one
\* of its runtime.
NotSuperseded(j) ==
  RuntimeOf[j] \in Settling => \A i \in Group(j) : job[i].seq <= job[j].seq

\* POST .../retry, under the session lock: a new job with the live session's
\* identity.
Retry(j, k) ==
  /\ sessLock = NoHolder
  /\ session.active
  /\ job[j].status \in Terminal \ {"succeeded"}
  /\ RuntimeOf[k] = RuntimeOf[j]
  /\ CanCreate(k)
  /\ NotSuperseded(j)
  /\ Create(job, k, origin[j])
  /\ UNCHANGED <<queueLate, leaseLate, scan, up, run, lockVars, sessionVars, commits, verdict>>

\* Pausing or resuming the session, and rotating what a job was admitted
\* under, happen under the session lock.
ChangeStatus ==
  /\ sessLock = NoHolder
  /\ changes < MaxChanges
  /\ session' = [session EXCEPT !.active = ~@]
  /\ changes' = changes + 1
  /\ UNCHANGED <<rowVars, up, run, lockVars, histVars>>

ChangeScope ==
  /\ sessLock = NoHolder
  /\ changes < MaxChanges
  /\ session' = [session EXCEPT !.gen = @ + 1]
  /\ changes' = changes + 1
  /\ UNCHANGED <<rowVars, up, run, lockVars, histVars>>

-----------------------------------------------------------------------------
(* Time *)

QueueDeadlinePasses(j) ==
  /\ job[j].status = "queued"
  /\ j \in QueueTimed \ queueLate
  /\ queueLate' = queueLate \cup {j}
  /\ UNCHANGED <<job, counter, leaseLate, scan, up, run, lockVars, sessionVars, histVars>>

LeasePasses(j) ==
  /\ job[j].status \in Active
  /\ j \notin leaseLate
  /\ leaseLate' = leaseLate \cup {j}
  /\ UNCHANGED <<job, counter, queueLate, scan, up, run, lockVars, sessionVars, histVars>>

-----------------------------------------------------------------------------
(* Claiming and maintenance: the drain of a worker *)

\* runtimeKey(job) is in activeRuntimeKeys from the claim to runOne's finally.
Busy(w, j) ==
  \E k \in Jobs : /\ RuntimeOf[k] = RuntimeOf[j]
                  /\ run[w][k].main \notin {"idle", "done"}

\* Mutants: a requeued predecessor is overtaken; a cancelled one blocks.
NoActivePredecessor(j) ==
  \A k \in Group(j) : job[k].seq < job[j].seq => job[k].status \notin Active

NoUncancelledPredecessor(j) ==
  \A k \in Group(j) : job[k].seq < job[j].seq => job[k].status \in Terminal \ {"cancelled"}

NoPredecessor(j) ==
  \A k \in Group(j) : job[k].seq < job[j].seq => job[k].status \in Terminal

Claimed(row, w, now) ==
  [row EXCEPT !.status = "claimed",
              !.owner = w,
              !.rev = NextRevision(@, now),
              !.attempt = @ + 1]

\* claimRuntimeJob, one transaction; runOne starts on the claimed row.
Claim(w, j) ==
  /\ up[w] = "up"
  /\ job[j].status = "queued"
  /\ ~Busy(w, j)
  /\ run[w][j] = NoRun
  /\ NoPredecessor(j)
  /\ j \notin queueLate
  /\ \E now \in Clock :
       job' = [job EXCEPT ![j] = Claimed(@, w, now)]
  /\ leaseLate' = leaseLate \ {j}
  /\ run' = [run EXCEPT ![w][j].main = "start"]
  /\ UNCHANGED <<counter, queueLate, scan, up, lockVars, sessionVars, histVars>>

\* A queued job past its deadline times out, in claimRuntimeJob (once it has no
\* predecessor) or in recoverExpiredRuntimeJobs (whether it has or not).
QueueTimeout(w, j) ==
  /\ up[w] = "up"
  /\ job[j].status = "queued"
  /\ j \in queueLate
  /\ Transition(j, "timed_out")
  /\ UNCHANGED <<counter, queueLate, up, run, lockVars,
                 sessionVars, histVars>>

\* Mutant: committing rows are never recovered.
RecoverableBeforeCommit == {"claimed", "running"}

Recoverable == Active

\* recoverExpiredRuntimeJobs works on a snapshot: the row it finds lapsed may
\* be renewed, settled or committed before it acts.
RecoverScan(w, j) ==
  /\ up[w] = "up"
  /\ job[j].status \in Recoverable
  /\ j \in leaseLate
  /\ scan' = [scan EXCEPT ![j] = job[j].rev]
  /\ UNCHANGED <<job, counter, queueLate, leaseLate, up, run, lockVars,
                 sessionVars, histVars>>

\* Mutant: any scan will do.
ScanEver(j) == TRUE

\* expectedUpdatedAt: the row still has the revision the scan saw.
ScanCurrent(j) == scan[j] = job[j].rev

\* Mutant: the lease timestamp alone decides.
CommitLockIgnored(j) == TRUE

\* A committing row is recovered only under the session lock (tryWithCommitLock):
\* its owner holds that lock and no longer renews.
CommitLockFree(j) == job[j].status = "committing" => sessLock = NoHolder

Recover(w, j) ==
  /\ up[w] = "up"
  /\ scan[j] # NoRev
  /\ job[j].status \in Active
  /\ ScanCurrent(j)
  /\ CommitLockFree(j)
  /\ Transition(j, "orphaned")
  /\ UNCHANGED <<counter, queueLate, up, run, lockVars, sessionVars, histVars>>

\* pruneTerminalRuntimeJobs: only the latest Keep terminal rows of a runtime stay.
Prune(w, j) ==
  /\ up[w] = "up"
  /\ job[j].status \in Terminal
  /\ Cardinality({k \in Group(j) : job[k].status \in Terminal
                                   /\ job[k].seq > job[j].seq}) >= Keep
  /\ job' = [job EXCEPT ![j] = [NoRow EXCEPT !.status = "pruned"]]
  /\ UNCHANGED <<counter, queueLate, leaseLate, scan, up, run, lockVars,
                 sessionVars, histVars>>
-----------------------------------------------------------------------------
(* One run: runOne and its execution *)

\* executionAbort.abort(reason): the first reason stays, and the race of
\* runOne is lost to it.
Aborted(r, reason) ==
  IF r.abort # "none" THEN r
  ELSE [r EXCEPT !.abort = reason,
                 !.main = IF @ = "race" THEN "catch" ELSE @,
                 !.err = IF r.main = "race" THEN reason ELSE @]

\* stopLeaseRenewal up to its await: an armed timer is cleared, a renewal in
\* flight is left to finish.
RenewalStopped(r) ==
  [r EXCEPT !.stopRenewing = TRUE, !.renew = IF @ = "timer" THEN "off" ELSE @]

\* runOne's finally: the run record lives on while its execution unwinds.
Left(r) ==
  IF r.exec \in {"none", "ret"} THEN NoRun
  ELSE [r EXCEPT !.main = "done", !.renew = "off", !.dl = "off", !.stopRenewing = TRUE]

\* The execution promise settles, with a value ("none") or an error.
Returned(r, error) ==
  IF r.main = "done" THEN NoRun
  ELSE [r EXCEPT !.exec = "ret",
                 !.main = IF @ # "race" THEN @
                          ELSE IF error = "none" THEN "check" ELSE "catch",
                 !.err = IF r.main = "race" THEN error ELSE @]

Set(w, j, r) == run' = [run EXCEPT ![w][j] = r]

\* Mutant: a failed execution keeps its runtime lock.
ReturnLeaking(w, j, error) ==
  /\ Set(w, j, Returned(run[w][j], error))
  /\ sessLock' = IF sessLock = <<w, j>> THEN NoHolder ELSE sessLock
  /\ rtLock' = [r \in Runtimes |->
                  IF rtLock[r] = <<w, j>> /\ error = "none" THEN NoHolder ELSE rtLock[r]]

\* Leaving the execution releases the locks it still holds.
Return(w, j, error) ==
  /\ Set(w, j, Returned(run[w][j], error))
  /\ sessLock' = IF sessLock = <<w, j>> THEN NoHolder ELSE sessLock
  /\ rtLock' = [r \in Runtimes |->
                  IF rtLock[r] = <<w, j>> THEN NoHolder ELSE rtLock[r]]

\* What the execution re-reads of the session: live, active, and with the
\* incarnation, approval scope and plugin version the job was admitted under.
Admitted(j) == session.active /\ session.gen = job[j].gen

\* claimed -> running, then the execution, the renewal timer and the deadline
\* start. A claim that landed while the worker closed is not started.
Start(w, j) ==
  LET r == run[w][j] IN
  /\ r.main = "start"
  /\ IF r.abort # "none"
     THEN /\ Set(w, j, [r EXCEPT !.main = "catch", !.err = r.abort])
          /\ UNCHANGED <<job, leaseLate, scan>>
     ELSE IF Holds(w, j, {"claimed"}, "running")
     THEN /\ Transition(j, "running")
          /\ Set(w, j, [r EXCEPT !.main = "race", !.exec = "admit", !.cur = "running",
                                 !.renew = "timer",
                                 !.dl = IF j \in ExecTimed THEN "timer" ELSE "off"])
     ELSE /\ Set(w, j, Left(r))
          /\ UNCHANGED <<job, leaseLate, scan>>
  /\ UNCHANGED <<counter, queueLate, up, lockVars, sessionVars, histVars>>

\* Reporting the claim, or the move to running, fails.
StartFails(w, j) ==
  LET r == run[w][j] IN
  /\ r.main = "start"
  /\ r.abort = "none"
  /\ \/ UNCHANGED <<job, leaseLate, scan>>
     \/ Holds(w, j, {"claimed"}, "running") /\ Transition(j, "running")
  /\ Set(w, j, [r EXCEPT !.main = "catch", !.err = "error"])
  /\ UNCHANGED <<counter, queueLate, up, lockVars, sessionVars, histVars>>

\* admitJob, before any lock.
ExecAdmit(w, j) ==
  LET r == run[w][j] IN
  /\ r.exec = "admit"
  /\ IF Admitted(j)
     THEN Set(w, j, [r EXCEPT !.exec = "lock"]) /\ UNCHANGED lockVars
     ELSE Return(w, j, "stale")
  /\ UNCHANGED <<rowVars, up, sessionVars, histVars>>

\* Mutant: executions of one runtime are not serialised.
RuntimeLockIgnored(j) == TRUE

\* runDetached: withLock(backgroundRuntimeLockId(session, runtime)).
RuntimeLockFree(j) == rtLock[RuntimeOf[j]] = NoHolder

ExecLock(w, j) ==
  LET r == run[w][j] IN
  /\ r.exec = "lock"
  /\ RuntimeLockFree(j)
  /\ IF r.abort # "none"
     THEN Return(w, j, r.abort)
     ELSE /\ Set(w, j, [r EXCEPT !.exec = "pre"])
          /\ rtLock' = [rtLock EXCEPT ![RuntimeOf[j]] = <<w, j>>]
          /\ UNCHANGED sessLock
  /\ UNCHANGED <<rowVars, up, sessionVars, histVars>>

\* The bounded acquire of the PostgreSQL lock gives up.
ExecLockTimeout(w, j) ==
  /\ run[w][j].exec = "lock"
  /\ ~RuntimeLockFree(j)
  /\ Return(w, j, "error")
  /\ UNCHANGED <<rowVars, up, sessionVars, histVars>>

\* Both session-lock sections of runDetached nest in the runtime lock, on the
\* same connection.
NestedAcquire(w, j) == sessLock = NoHolder /\ rtLock[RuntimeOf[j]] = <<w, j>>

\* The brief section before the provider call: the session is re-read, then
\* assertCurrent re-reads the job row.
ExecAuthorize(w, j) ==
  LET r == run[w][j] IN
  /\ r.exec = "pre"
  /\ NestedAcquire(w, j)
  /\ IF r.abort # "none" THEN Return(w, j, r.abort)
     ELSE IF Admitted(j) /\ job[j].status = "running" /\ job[j].owner = w
     THEN Set(w, j, [r EXCEPT !.exec = "call"]) /\ UNCHANGED lockVars
     ELSE Return(w, j, "stale")
  /\ UNCHANGED <<rowVars, up, sessionVars, histVars>>

\* The provider call returns; executionFinished clears the deadline timer. A
\* deadline that already fired keeps its outcome.
ExecFinish(w, j) ==
  LET r == run[w][j] IN
  /\ r.exec = "call"
  /\ Set(w, j, [r EXCEPT !.exec = "fin", !.dl = IF @ = "timer" THEN "off" ELSE @])
  /\ UNCHANGED <<rowVars, up, lockVars, sessionVars, histVars>>

\* The provider call throws, or the runtime suspended.
ExecFail(w, j) ==
  /\ run[w][j].exec = "call"
  /\ Return(w, j, "error")
  /\ UNCHANGED <<rowVars, up, sessionVars, histVars>>

\* withBackgroundSessionLock: a wait that timed out ends if the run was aborted.
ExecGiveUp(w, j) ==
  LET r == run[w][j] IN
  /\ r.exec \in {"pre", "fin"}
  /\ r.abort # "none"
  /\ sessLock # NoHolder
  /\ Return(w, j, r.abort)
  /\ UNCHANGED <<rowVars, up, sessionVars, histVars>>

\* The connection of the outer lock is gone: the nested acquire throws.
ExecConnectionGone(w, j) ==
  /\ run[w][j].exec \in {"pre", "fin"}
  /\ rtLock[RuntimeOf[j]] # <<w, j>>
  /\ Return(w, j, "error")
  /\ UNCHANGED <<rowVars, up, sessionVars, histVars>>

\* Mutant: the session read before the provider call is trusted.
AdmittedEarlier(j) == TRUE

\* The session state read before the call is no longer trusted.
StillAdmitted(j) == Admitted(j)

\* The commit section: the session is re-read under its lock, then
\* beforeCommit stops the renewal.
ExecCommitLock(w, j) ==
  LET r == run[w][j] IN
  /\ r.exec = "fin"
  /\ NestedAcquire(w, j)
  /\ IF r.abort # "none" THEN Return(w, j, r.abort)
     ELSE IF ~StillAdmitted(j) THEN Return(w, j, "stale")
     ELSE /\ Set(w, j, [RenewalStopped(r) EXCEPT !.exec = "barrier"])
          /\ sessLock' = <<w, j>>
          /\ UNCHANGED rtLock
  /\ UNCHANGED <<rowVars, up, sessionVars, histVars>>

\* Mutant: a renewal in flight is not awaited.
DrainedNever(r) == TRUE

\* stopLeaseRenewal awaits the renewal in flight: lease and lifecycle share
\* one revision.
Drained(r) == r.renew # "read"

\* beforeCommit's transition reads the row ...
ExecBarrierRead(w, j) ==
  LET r == run[w][j] IN
  /\ r.exec = "barrier"
  /\ Drained(r)
  /\ IF r.abort # "none" THEN Return(w, j, r.abort)
     ELSE IF Holds(w, j, {"running"}, "committing")
     THEN Set(w, j, [r EXCEPT !.exec = "cas", !.casRev = job[j].rev]) /\ UNCHANGED lockVars
     ELSE Return(w, j, "stale")
  /\ UNCHANGED <<rowVars, up, sessionVars, histVars>>

\* ... and swaps it if no other write landed since.
ExecBarrierCas(w, j) ==
  LET r == run[w][j] IN
  /\ r.exec = "cas"
  /\ IF Exists(j) /\ job[j].rev = r.casRev
     THEN /\ Transition(j, "committing")
          /\ Set(w, j, [r EXCEPT !.exec = "mark", !.casRev = 0])
          /\ UNCHANGED lockVars
     ELSE Return(w, j, "stale") /\ UNCHANGED <<job, leaseLate, scan>>
  /\ UNCHANGED <<counter, queueLate, up, sessionVars, histVars>>

\* The row is committing but runOne learns of it only after the status report:
\* a close in between still aborts the run.
ExecMark(w, j) ==
  LET r == run[w][j] IN
  /\ r.exec = "mark"
  /\ IF r.abort # "none" THEN Return(w, j, r.abort)
     ELSE Set(w, j, [r EXCEPT !.exec = "tx", !.cur = "committing"]) /\ UNCHANGED lockVars
  /\ UNCHANGED <<rowVars, up, sessionVars, histVars>>

ExecMarkFails(w, j) ==
  /\ run[w][j].exec = "mark"
  /\ Return(w, j, "error")
  /\ UNCHANGED <<rowVars, up, sessionVars, histVars>>

\* The commit transaction: domain writes, the final status (completeInTx, or
\* failInTx for a failure the runtime reported) and a follower job, together.
\* Its answer may be lost.
ExecCommit(w, j, to, follower, error) ==
  LET r == run[w][j] IN
  /\ r.exec = "tx"
  /\ r.abort = "none"
  /\ Holds(w, j, {"committing"}, to)
  /\ \E now \in Clock :
       LET rows == [job EXCEPT ![j] = Moved(@, to, now)] IN
       IF follower = NoJob
       THEN job' = rows /\ UNCHANGED <<counter, born, origin>>
       ELSE CanCreate(follower) /\ Create(rows, follower, NextSeq)
  /\ commits' = [commits EXCEPT ![j] = @ + 1]
  /\ verdict' = [verdict EXCEPT ![j] = to]
  /\ Rest(j, to)
  /\ Return(w, j, error)
  /\ UNCHANGED <<queueLate, up, sessionVars>>

\* The transaction rolls back: a domain guard, a full queue, or a status
\* swap that found another writer's row.
ExecRollback(w, j) ==
  /\ run[w][j].exec = "tx"
  /\ Return(w, j, "error")
  /\ UNCHANGED <<rowVars, up, sessionVars, histVars>>

-----------------------------------------------------------------------------
(* Lease renewal and execution deadline *)

RenewRead(w, j) ==
  LET r == run[w][j] IN
  /\ r.renew = "timer"
  /\ IF job[j].status \in Active /\ job[j].owner = w
     THEN /\ job[j].rev < MaxRev
          /\ Set(w, j, [r EXCEPT !.renew = "read", !.readRev = job[j].rev])
     ELSE Set(w, j, [Aborted(r, "stale") EXCEPT !.renew = "off", !.stopRenewing = TRUE])
  /\ UNCHANGED <<rowVars, up, lockVars, sessionVars, histVars>>

\* A renewal that is refused aborts the run, unless the run is past renewing.
RenewCas(w, j) ==
  LET r == run[w][j] IN
  /\ r.renew = "read"
  /\ IF Exists(j) /\ job[j].rev = r.readRev
     THEN /\ \E now \in Clock :
               job' = [job EXCEPT ![j].rev = NextRevision(@, now)]
          /\ leaseLate' = leaseLate \ {j}
          /\ Set(w, j, [r EXCEPT !.readRev = 0,
                                 !.renew = IF r.stopRenewing THEN "off" ELSE "timer"])
     ELSE /\ Set(w, j, [(IF r.stopRenewing THEN r ELSE Aborted(r, "stale"))
                          EXCEPT !.readRev = 0, !.renew = "off", !.stopRenewing = TRUE])
          /\ UNCHANGED <<job, leaseLate>>
  /\ UNCHANGED <<counter, queueLate, scan, up, lockVars, sessionVars, histVars>>

\* The store fails the renewal. A lease that ran out meanwhile stops the run.
RenewError(w, j) ==
  LET r == run[w][j] IN
  /\ r.renew = "read"
  /\ Set(w, j,
       IF r.stopRenewing THEN [r EXCEPT !.readRev = 0, !.renew = "off"]
       ELSE IF j \in leaseLate
       THEN [Aborted(r, "lapsed") EXCEPT !.readRev = 0, !.renew = "off",
                                         !.stopRenewing = TRUE]
       ELSE [r EXCEPT !.readRev = 0, !.renew = "timer"])
  /\ UNCHANGED <<rowVars, up, lockVars, sessionVars, histVars>>

DeadlineFires(w, j) ==
  LET r == run[w][j] IN
  /\ r.dl = "timer"
  /\ r.main = "race"
  /\ Set(w, j, [RenewalStopped(r) EXCEPT !.dl = "fired"])
  /\ UNCHANGED <<rowVars, up, lockVars, sessionVars, histVars>>

\* running -> timed_out, and only then the abort: a run that reached its
\* commit barrier first is left alone.
DeadlineSettles(w, j, reported) ==
  LET r == run[w][j] IN
  /\ r.dl = "fired"
  /\ Drained(r)
  /\ IF Holds(w, j, {"running"}, "timed_out")
     THEN /\ Transition(j, "timed_out")
          /\ Set(w, j, [(IF reported THEN Aborted(r, "timeout") ELSE r) EXCEPT !.dl = "off"])
     ELSE /\ Set(w, j, [r EXCEPT !.dl = "off"])
          /\ UNCHANGED <<job, leaseLate, scan>>
  /\ UNCHANGED <<counter, queueLate, up, lockVars, sessionVars, histVars>>

-----------------------------------------------------------------------------
(* Settling a run *)

\* The execution returned a value: the re-read row must be this run's result.
Check(w, j) ==
  LET r == run[w][j] IN
  /\ r.main = "check"
  /\ r.dl # "fired"
  /\ IF job[j].status \in {"succeeded", "failed"} /\ job[j].owner = w
     THEN Set(w, j, Left(r))
     ELSE Set(w, j, [r EXCEPT !.main = "catch", !.err = "error"])
  /\ UNCHANGED <<rowVars, up, lockVars, sessionVars, histVars>>

\* The catch of runOne: a deadline task is awaited first.
Catch(w, j) ==
  LET r == run[w][j] IN
  /\ r.main = "catch"
  /\ r.dl # "fired"
  /\ IF r.abort = "timeout"
     THEN Drained(r) /\ Set(w, j, Left(r))
     ELSE Set(w, j, [RenewalStopped(r) EXCEPT !.dl = "off",
                       !.main = IF r.err = "closed" THEN "requeue" ELSE "settle"])
  /\ UNCHANGED <<rowVars, up, lockVars, sessionVars, histVars>>

Outcome(error) ==
  CASE error = "lapsed" -> "orphaned"
    [] error = "stale"  -> "stale"
    [] OTHER            -> "failed"

Settle(w, j) ==
  LET r == run[w][j] IN
  /\ r.main = "settle"
  /\ Drained(r)
  /\ IF Holds(w, j, Active, Outcome(r.err))
     THEN Transition(j, Outcome(r.err))
     ELSE UNCHANGED <<job, leaseLate, scan>>
  /\ Set(w, j, Left(r))
  /\ UNCHANGED <<counter, queueLate, up, lockVars, sessionVars, histVars>>

\* Mutant: the job is handed back while its execution unwinds.
UnwoundNever(r) == TRUE

\* A normal shutdown hands the job back, once the stopped execution returned.
Unwound(r) == r.exec \in {"none", "ret"}

Requeue(w, j) ==
  LET r == run[w][j] IN
  /\ r.main = "requeue"
  /\ Drained(r)
  /\ Unwound(r)
  /\ IF Holds(w, j, Active, "queued")
     THEN Transition(j, "queued")
     ELSE UNCHANGED <<job, leaseLate, scan>>
  /\ Set(w, j, Left(r))
  /\ UNCHANGED <<counter, queueLate, up, lockVars, sessionVars, histVars>>

\* The settling write itself fails: the row keeps its lease until it lapses.
SettleFails(w, j) ==
  LET r == run[w][j] IN
  /\ \/ r.main = "settle"
     \/ r.main = "requeue" /\ Unwound(r)
  /\ Drained(r)
  /\ Set(w, j, Left(r))
  /\ UNCHANGED <<rowVars, up, lockVars, sessionVars, histVars>>

-----------------------------------------------------------------------------
(* Worker processes *)

\* stop(): a run known to be committing is left to finish.
Stopped(r) ==
  IF r.main \in {"idle", "done"} \/ r.cur = "committing" THEN r
  ELSE Aborted(r, "closed")

Close(w) ==
  /\ w \in Mortal
  /\ up[w] = "up"
  /\ up' = [up EXCEPT ![w] = "closing"]
  /\ run' = [run EXCEPT ![w] = [j \in Jobs |-> Stopped(run[w][j])]]
  /\ UNCHANGED <<rowVars, lockVars, sessionVars, histVars>>

\* close() waits for every run and execution.
Exit(w) ==
  /\ up[w] = "closing"
  /\ \A j \in Jobs : run[w][j] = NoRun
  /\ up' = [up EXCEPT ![w] = "down"]
  /\ UNCHANGED <<rowVars, run, lockVars, sessionVars, histVars>>

\* The process dies: its runs stop where they are and its locks are freed.
Crash(w) ==
  /\ w \in Mortal
  /\ up[w] # "down"
  /\ up' = [up EXCEPT ![w] = "down"]
  /\ run' = [run EXCEPT ![w] = [j \in Jobs |-> NoRun]]
  /\ sessLock' = IF \E j \in Jobs : sessLock = <<w, j>> THEN NoHolder ELSE sessLock
  /\ rtLock' = [r \in Runtimes |->
                  IF \E j \in Jobs : rtLock[r] = <<w, j>> THEN NoHolder ELSE rtLock[r]]
  /\ UNCHANGED <<rowVars, sessionVars, histVars>>

\* PostgreSQL drops the connection that holds a run's locks.
LoseLocks(w, j) ==
  /\ LockLoss
  /\ rtLock[RuntimeOf[j]] = <<w, j>>
  /\ rtLock' = [rtLock EXCEPT ![RuntimeOf[j]] = NoHolder]
  /\ sessLock' = IF sessLock = <<w, j>> THEN NoHolder ELSE sessLock
  /\ UNCHANGED <<rowVars, up, run, sessionVars, histVars>>

-----------------------------------------------------------------------------
ExecStep(w, j) ==
  \/ ExecAdmit(w, j) \/ ExecLock(w, j) \/ ExecLockTimeout(w, j)
  \/ ExecAuthorize(w, j) \/ ExecFinish(w, j) \/ ExecFail(w, j)
  \/ ExecGiveUp(w, j) \/ ExecConnectionGone(w, j) \/ ExecCommitLock(w, j)
  \/ ExecBarrierRead(w, j) \/ ExecBarrierCas(w, j)
  \/ ExecMark(w, j) \/ ExecMarkFails(w, j)
  \/ \E to \in {"succeeded", "failed"}, f \in Jobs \cup {NoJob}, e \in {"none", "error"} :
       ExecCommit(w, j, to, f, e)
  \/ ExecRollback(w, j)

RunStep(w, j) ==
  \/ Start(w, j) \/ StartFails(w, j)
  \/ RenewRead(w, j) \/ RenewCas(w, j) \/ RenewError(w, j)
  \/ DeadlineFires(w, j) \/ \E reported \in BOOLEAN : DeadlineSettles(w, j, reported)
  \/ Check(w, j) \/ Catch(w, j) \/ Settle(w, j) \/ Requeue(w, j) \/ SettleFails(w, j)

DrainStep(w, j) ==
  \/ Claim(w, j) \/ QueueTimeout(w, j) \/ RecoverScan(w, j) \/ Recover(w, j) \/ Prune(w, j)

RequestStep ==
  \/ TurnBegin \/ TurnEnd
  \/ \E j \in Jobs : TurnEnqueue(j) \/ Cancel(j)
  \/ \E j, k \in Jobs : Retry(j, k)
  \/ ChangeStatus \/ ChangeScope

TimeStep == \E j \in Jobs : QueueDeadlinePasses(j) \/ LeasePasses(j)

ProcessStep(w) ==
  \/ Close(w) \/ Exit(w) \/ Crash(w)
  \/ \E j \in Jobs : LoseLocks(w, j)

Next ==
  \/ RequestStep
  \/ TimeStep
  \/ \E w \in Workers : ProcessStep(w)
  \/ \E w \in Workers, j \in Jobs :
       DrainStep(w, j) \/ RunStep(w, j) \/ ExecStep(w, j)

Spec == Init /\ [][Next]_vars

\* The scheduling the code has. Promise chains, timers and the maintenance
\* timer run on; a provider call and a foreground turn end; the session lock
\* is handed out in arrival order (in process) or polled for without end
\* (withBackgroundSessionLock); time passes.
Fairness ==
  /\ WF_vars(TurnEnd)
  /\ \A j \in Jobs :
       /\ WF_vars(LeasePasses(j))
       /\ WF_vars(\E w \in Workers : Claim(w, j) \/ QueueTimeout(w, j))
       /\ WF_vars(\E w \in Workers : RecoverScan(w, j))
       /\ SF_vars(\E w \in Workers : Recover(w, j))
  /\ \A w \in Workers, j \in Jobs :
       /\ SF_vars(ExecStep(w, j))
       /\ WF_vars(RenewCas(w, j) \/ RenewError(w, j))
       /\ WF_vars(\E reported \in BOOLEAN : DeadlineSettles(w, j, reported))
       /\ WF_vars(Start(w, j) \/ StartFails(w, j))
       /\ WF_vars(Check(w, j))
       /\ WF_vars(Catch(w, j))
       /\ WF_vars(Settle(w, j) \/ Requeue(w, j) \/ SettleFails(w, j))

FairSpec == Spec /\ Fairness

-----------------------------------------------------------------------------
(* Properties *)

TypeOK ==
  /\ job \in [Jobs -> Row]
  /\ counter \in Nat
  /\ queueLate \subseteq Jobs
  /\ leaseLate \subseteq Jobs
  /\ scan \in [Jobs -> Nat \cup {NoRev}]
  /\ up \in [Workers -> {"up", "closing", "down"}]
  /\ run \in [Workers -> [Jobs -> RunState]]
  /\ sessLock \in Runs \cup {Turn, NoHolder}
  /\ rtLock \in [Runtimes -> Runs \cup {NoHolder}]
  /\ session \in [active : BOOLEAN, gen : Nat]
  /\ changes \in Nat
  /\ commits \in [Jobs -> Nat]
  /\ verdict \in [Jobs -> {"none", "succeeded", "failed"}]
  /\ born \in [Jobs -> Nat]
  /\ origin \in [Jobs -> Nat]

\* A job's domain writes commit at most once, and a job whose writes committed
\* keeps the final status of that transaction: no late settle, timeout or
\* cancel rewrites it, and no row says succeeded without committed writes.
OutcomeMatchesCommit ==
  \A j \in Jobs :
    /\ commits[j] <= 1
    /\ commits[j] = 1 => job[j].status \in {verdict[j], "pruned"}
    /\ job[j].status = "succeeded" => verdict[j] = "succeeded"

\* Jobs of one runtime run one at a time and in the order they were queued,
\* also across a shutdown that puts an earlier one back: whatever is claimed,
\* running or committing has only finished jobs before it.
SerialPerRuntime ==
  \A j, k \in Jobs :
    /\ j # k
    /\ Exists(j) /\ Exists(k)
    /\ RuntimeOf[j] = RuntimeOf[k]
    => /\ job[j].seq # job[k].seq
       /\ job[j].status \in Active /\ job[k].seq < job[j].seq => job[k].status \in Terminal

\* Two executions of one runtime are never past its lock together, even when
\* the first is still unwinding after its job was cancelled, timed out or
\* orphaned and the next job was claimed.
InProvider(w, j) == run[w][j].exec \in {"pre", "call", "fin", "barrier", "cas", "mark", "tx"}

OneExecutionPerRuntime ==
  \A x, y \in Runs :
    /\ RuntimeOf[x[2]] = RuntimeOf[y[2]]
    /\ InProvider(x[1], x[2]) /\ InProvider(y[1], y[2])
    => x = y

\* A worker in its commit transaction still owns a committing row, although it
\* stopped renewing: a lapsed lease alone does not take the job from it.
CommitterKeepsRow ==
  \A w \in Workers, j \in Jobs :
    run[w][j].exec = "tx" => job[j].status = "committing" /\ job[j].owner = w

\* A job that is back in the queue has no execution left anywhere: nobody
\* works on it while the next worker may claim it.
QueuedIsQuiet ==
  \A w \in Workers, j \in Jobs :
    job[j].status = "queued" => run[w][j].exec \in {"none", "ret"}

\* A job ends stale only because the session changed under it, never because
\* its own worker's renewal and commit barrier collided.
StaleOnlyAfterChange ==
  \A j \in Jobs : job[j].status = "stale" => changes > born[j]

\* A final status never changes.
TerminalIsFinal ==
  [][\A j \in Jobs : job[j].status \in Terminal =>
       job'[j] = job[j] \/ job'[j].status = "pruned"]_vars

\* Recovery takes a job only if its lease is lapsed at that very moment, not
\* merely in the scan.
OrphanOnlyLapsed ==
  [][\A j \in Jobs : job[j].status # "orphaned" /\ job'[j].status = "orphaned"
       => j \in leaseLate]_vars

\* Domain writes commit only into a session that is active and still the one
\* the job was admitted under, from a row that is committing.
CommitIsAuthorised ==
  [][\A j \in Jobs : commits'[j] # commits[j] => Admitted(j) /\ job[j].status = "committing"]_vars

\* A retry never writes over a later source execution: the writes of settling
\* jobs commit in the order of the executions they came from.
SettlingCommitsInSourceOrder ==
  [][\A j, k \in Jobs :
       /\ RuntimeOf[j] = RuntimeOf[k] /\ RuntimeOf[j] \in Settling
       /\ commits'[j] # commits[j] /\ commits[k] > 0
       => origin[k] <= origin[j]]_vars

\* Every queued job is settled in the end, whatever the workers that may crash
\* or close do, as long as one worker stays.
EveryJobSettles ==
  \A j \in Jobs : job[j].status = "queued" ~> job[j].status \in Terminal \cup {"pruned"}

\* An aborted or finished run gives its locks back.
LocksAreReturned ==
  \A r \in Runtimes : rtLock[r] # NoHolder ~> rtLock[r] = NoHolder

\* docs/en/internals/flow.md, normal shutdown: "A job already in `committing`
\* finishes its commit", so it does not go back to the queue.
CommittingIsNotRequeued ==
  [][\A j \in Jobs : job[j].status = "committing" => job'[j].status # "queued"]_vars
=============================================================================
