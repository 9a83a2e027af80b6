--------------------------- MODULE SettleBarrier ---------------------------
(***************************************************************************)
(* The barrier executions of a session pass before they take its lock      *)
(* (plugin-rpc/settled-session-lock.ts): they wait for the unfinished jobs *)
(* that settle "before-next-execution", up to a deadline, without holding  *)
(* the lock those jobs need to commit; under the lock they look again, and *)
(* give it back when there is something to wait for. Entries nested in an  *)
(* execution do not come here. The lock itself is SessionLock.             *)
(***************************************************************************)
EXTENDS Integers

CONSTANTS
  Executions,
  NoExecution,
  SettlingJobs,
  MaxWait,   \* job -> its maxSettleWaitMs, at most MAX_SETTLE_WAIT_MS
  Infinity,
  EndOfTime  \* bound: the clock

ASSUME BarrierAssumption ==
  /\ NoExecution \notin Executions
  /\ MaxWait \in [SettlingJobs -> Nat \ {0}]
  /\ EndOfTime \in Nat /\ Infinity \in Nat /\ Infinity > EndOfTime

VARIABLES
  settling,  \* job -> "absent", "pending" or "finished"
  runnable,  \* the jobs a worker can start now
  lockedBy,  \* the execution that holds the session lock
  step,      \* progress of an execution
  listed,    \* the pending jobs in its last list
  live,      \* ... that were runnable
  entered,   \* budget.startedAt
  deadline,  \* budget.deadline
  now,
  ahead,     \* history: the jobs unfinished when it took the lock
  traced     \* history: the jobs its trace names as timed out or skipped

barrierVars == <<settling, runnable, lockedBy, step, listed, live, entered, deadline, now,
                 ahead, traced>>
jobSide == <<settling, runnable>>
history == <<ahead, traced>>

BarrierInit ==
  /\ settling = [j \in SettlingJobs |-> "absent"] /\ runnable \in SUBSET SettlingJobs
  /\ lockedBy = NoExecution
  /\ step = [e \in Executions |-> "out"]
  /\ listed = [e \in Executions |-> {}] /\ live = [e \in Executions |-> {}]
  /\ entered = [e \in Executions |-> 0] /\ deadline = [e \in Executions |-> Infinity]
  /\ now = 0
  /\ ahead = [e \in Executions |-> {}] /\ traced = [e \in Executions |-> {}]

Pending == {j \in SettlingJobs : settling[j] = "pending"}

Go(e, s) == step' = [step EXCEPT ![e] = s]

See(e, all, able) == listed' = [listed EXCEPT ![e] = all] /\ live' = [live EXCEPT ![e] = able]

\* The call of e returns or throws, and gives back what it holds.
Over(e) ==
  /\ Go(e, "done") /\ See(e, {}, {})
  /\ lockedBy' = IF lockedBy = e THEN NoExecution ELSE lockedBy
  /\ entered' = [entered EXCEPT ![e] = 0] /\ deadline' = [deadline EXCEPT ![e] = Infinity]
  /\ ahead' = [ahead EXCEPT ![e] = {}] /\ traced' = [traced EXCEPT ![e] = {}]
  /\ UNCHANGED <<jobSide, now>>

-----------------------------------------------------------------------------
EnterBarrier(e) ==
  /\ step[e] = "out"
  /\ Go(e, "poll")
  /\ entered' = [entered EXCEPT ![e] = now]
  /\ UNCHANGED <<jobSide, lockedBy, listed, live, deadline, now, history>>

\* constrainDeadline
Constrained(e, jobs) ==
  LET bounds == {deadline[e]} \cup {entered[e] + MaxWait[j] : j \in jobs}
  IN CHOOSE t \in bounds : \A s \in bounds : t <= s

\* listPendingJobs answers; what it says may be old when it is used.
ListJobs(e) ==
  /\ See(e, Pending, Pending \cap runnable)
  /\ deadline' = [deadline EXCEPT ![e] = Constrained(e, live'[e])]

PollJobs(e) ==
  /\ step[e] = "poll"
  /\ Go(e, "polled") /\ ListJobs(e)
  /\ UNCHANGED <<jobSide, lockedBy, entered, now, history>>

\* Wait and poll again, or ask for the lock.
WaitOrLock(e) ==
  /\ step[e] = "polled"
  /\ Go(e, IF live[e] # {} /\ now < deadline[e] THEN "poll" ELSE "queued")
  /\ See(e, {}, {})
  /\ UNCHANGED <<jobSide, lockedBy, entered, deadline, now, history>>

\* withAbortableLock: an owner that comes too late runs nothing.
LockForEntry(e) ==
  /\ step[e] = "queued" /\ lockedBy = NoExecution
  /\ lockedBy' = e /\ Go(e, "locked")
  /\ ahead' = [ahead EXCEPT ![e] = Pending]
  /\ UNCHANGED <<jobSide, listed, live, entered, deadline, now, traced>>

Relist(e) ==
  /\ step[e] = "locked"
  /\ Go(e, "relisted") /\ ListJobs(e)
  /\ UNCHANGED <<jobSide, lockedBy, entered, now, history>>

\* Mutant: what was enqueued while the lock was awaited is not waited for.
NeverRetries(e) == FALSE

MustRetry(e) == live[e] # {} /\ now < deadline[e]

RetryOrStart(e) ==
  /\ step[e] = "relisted"
  /\ IF MustRetry(e)
     THEN /\ Go(e, "poll") /\ See(e, {}, {}) /\ lockedBy' = NoExecution
          /\ ahead' = [ahead EXCEPT ![e] = {}] /\ UNCHANGED traced
     ELSE /\ Go(e, "in") /\ See(e, {}, live[e])
          /\ traced' = [traced EXCEPT ![e] = listed[e]] /\ UNCHANGED <<lockedBy, ahead>>
  /\ UNCHANGED <<jobSide, entered, deadline, now>>

LeaveBarrier(e) == step[e] = "in" /\ Over(e)

\* The signal of an execution that has not started fires.
AbortEntry(e) == step[e] \notin {"in", "done"} /\ Over(e)

-----------------------------------------------------------------------------
\* An execution commits a job, or one is retried.
EnqueueSettling(j) ==
  /\ settling[j] = "absent"
  /\ settling' = [settling EXCEPT ![j] = "pending"]
  /\ UNCHANGED <<runnable, lockedBy, step, listed, live, entered, deadline, now, history>>

\* A worker commits it, under the raw lock, or it is cancelled or fails.
FinishSettling(j) ==
  /\ settling[j] = "pending"
  /\ settling' = [settling EXCEPT ![j] = "finished"]
  /\ UNCHANGED <<runnable, lockedBy, step, listed, live, entered, deadline, now, history>>

\* Model credentials that could serve it come and go.
ServeOrNot(j) ==
  /\ runnable' = IF j \in runnable THEN runnable \ {j} ELSE runnable \cup {j}
  /\ UNCHANGED <<settling, lockedBy, step, listed, live, entered, deadline, now, history>>

BarrierTick ==
  /\ now < EndOfTime /\ now' = now + 1
  /\ UNCHANGED <<jobSide, lockedBy, step, listed, live, entered, deadline, history>>

BarrierNext ==
  \/ \E e \in Executions :
       \/ EnterBarrier(e) \/ PollJobs(e) \/ WaitOrLock(e) \/ LockForEntry(e) \/ Relist(e)
       \/ RetryOrStart(e) \/ LeaveBarrier(e) \/ AbortEntry(e)
  \/ \E j \in SettlingJobs : EnqueueSettling(j) \/ FinishSettling(j) \/ ServeOrNot(j)
  \/ BarrierTick

BarrierSpec == BarrierInit /\ [][BarrierNext]_barrierVars

-----------------------------------------------------------------------------
BarrierTypeOK ==
  /\ settling \in [SettlingJobs -> {"absent", "pending", "finished"}]
  /\ runnable \subseteq SettlingJobs
  /\ lockedBy \in Executions \cup {NoExecution}
  /\ step \in [Executions -> {"out", "poll", "polled", "queued", "locked", "relisted", "in", "done"}]
  /\ entered \in [Executions -> 0..EndOfTime]
  /\ now \in 0..EndOfTime

\* No execution waits for jobs with the lock in its hands, where it would keep
\* them from committing, and none runs without it.
LockOnlyWhileIn ==
  \A e \in Executions : lockedBy = e <=> step[e] \in {"locked", "relisted", "in"}

\* When an execution starts, each settling job that was unfinished when it took
\* the lock has finished or is named in its trace; one a worker could have run
\* only when the execution has waited as long as some such job allows.
SettledAtStart ==
  \A e \in Executions : step[e] = "in" =>
    /\ \A j \in ahead[e] : settling[j] = "finished" \/ j \in traced[e]
    /\ traced[e] \cap live[e] # {} =>
         \E j \in SettlingJobs : settling[j] # "absent" /\ now >= entered[e] + MaxWait[j]

BarrierInv == BarrierTypeOK /\ LockOnlyWhileIn /\ SettledAtStart
=============================================================================
