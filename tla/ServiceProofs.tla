---------------------------- MODULE ServiceProofs ---------------------------
(***************************************************************************)
(* Three services beside the turns: the settle barrier, the approval gate  *)
(* and the projection of job statuses, each for any values of its          *)
(* constants. They share nothing.                                          *)
(***************************************************************************)
EXTENDS SettleBarrier, ApprovalGate, JobStatusProjection, TLAPS, WellFoundedInduction

-----------------------------------------------------------------------------
(***************************************************************************)
(* The settle barrier keeps its promises (BarrierInv). What an execution   *)
(* has listed under the lock covers the jobs that were ahead of it,        *)
(* whatever became of them since, and its deadline is the budget of some   *)
(* job that was enqueued.                                                  *)
(***************************************************************************)

\* The types BarrierTypeOK leaves to the model checker.
Typed ==
  /\ BarrierTypeOK
  /\ listed \in [Executions -> SUBSET SettlingJobs]
  /\ live \in [Executions -> SUBSET SettlingJobs]
  /\ ahead \in [Executions -> SUBSET SettlingJobs]
  /\ traced \in [Executions -> SUBSET SettlingJobs]
  /\ deadline \in [Executions -> Nat]

\* A job was ahead only if it was enqueued, and the list an execution makes
\* under the lock has those of them that are still unfinished.
ListCoversAhead ==
  \A e \in Executions :
    /\ \A j \in ahead[e] : settling[j] # "absent"
    /\ step[e] = "relisted" => \A j \in ahead[e] : settling[j] = "finished" \/ j \in listed[e]

\* A deadline that was set is the budget of a job that was enqueued.
DeadlineIsBudget ==
  \A e \in Executions :
    \/ deadline[e] = Infinity
    \/ \E j \in SettlingJobs : settling[j] # "absent" /\ deadline[e] = entered[e] + MaxWait[j]

\* None is set before the execution has entered.
UnsetOutside == \A e \in Executions : step[e] = "out" => deadline[e] = Infinity

BarrierIInv ==
  Typed /\ LockOnlyWhileIn /\ ListCoversAhead /\ DeadlineIsBudget /\ UnsetOutside /\ SettledAtStart

\* A nonempty set of numbers has a least one.
LEMMA LeastNumber ==
  ASSUME NEW T \in SUBSET Nat, T # {}
  PROVE  \E t \in T : \A s \in T : t <= s
<1>1. PICK t \in T : \A s \in T : ~(<<s, t>> \in OpToRel(<, Nat))
  BY NatLessThanWellFounded, WFMin, Zenon
<1>2. \A s \in T : ~(s < t)
  BY <1>1 DEF OpToRel
<1> QED BY <1>2

LEMMA BarrierInitially == BarrierInit => BarrierIInv
BY BarrierAssumption DEF BarrierInit, BarrierIInv, Typed, BarrierTypeOK, LockOnlyWhileIn, ListCoversAhead,
   DeadlineIsBudget, UnsetOutside, SettledAtStart

-----------------------------------------------------------------------------
\* A list of the pending jobs and its deadline.
LEMMA Listing ==
  ASSUME BarrierIInv, NEW e \in Executions, ListJobs(e),
         UNCHANGED <<settling, entered>>
  PROVE  /\ listed' \in [Executions -> SUBSET SettlingJobs]
         /\ live' \in [Executions -> SUBSET SettlingJobs]
         /\ deadline' \in [Executions -> Nat]
         /\ listed'[e] = Pending
         /\ \A f \in Executions \ {e} : 
              listed'[f] = listed[f] /\ live'[f] = live[f] /\ deadline'[f] = deadline[f]
         /\ DeadlineIsBudget'
<1> DEFINE bounds == {deadline[e]} \cup {entered[e] + MaxWait[j] : j \in live'[e]}
<1>1. /\ listed' = [listed EXCEPT ![e] = Pending]
      /\ live' = [live EXCEPT ![e] = Pending \cap runnable]
      /\ deadline' = [deadline EXCEPT ![e] = Constrained(e, live'[e])]
  BY DEF ListJobs, See
<1>2. Pending \in SUBSET SettlingJobs /\ Pending \cap runnable \in SUBSET SettlingJobs
  BY DEF Pending
<1>3. live'[e] = Pending \cap runnable
  BY <1>1 DEF BarrierIInv, Typed
<1>4. bounds \in SUBSET Nat /\ bounds # {}
  BY <1>2, <1>3, BarrierAssumption DEF BarrierIInv, Typed, BarrierTypeOK
<1>5. Constrained(e, live'[e]) \in bounds
  <2> HIDE DEF bounds
  <2>1. \E t \in bounds : \A s \in bounds : t <= s
    BY <1>4, LeastNumber
  <2>2. Constrained(e, live'[e]) = CHOOSE t \in bounds : \A s \in bounds : t <= s
    BY DEF Constrained, bounds
  <2> QED BY <2>1, <2>2
<1>6. \/ Constrained(e, live'[e]) = deadline[e]
      \/ \E j \in SettlingJobs : settling[j] # "absent" /\ Constrained(e, live'[e]) = entered[e] + MaxWait[j]
  <2>1. \A j \in live'[e] : j \in SettlingJobs /\ settling[j] # "absent"
    BY <1>3 DEF Pending
  <2> QED BY <1>5, <2>1
<1>7. deadline' \in [Executions -> Nat]
  BY <1>1, <1>4, <1>5 DEF BarrierIInv, Typed
<1>8. DeadlineIsBudget'
  <2> SUFFICES ASSUME NEW f \in Executions
               PROVE  \/ deadline'[f] = Infinity
                      \/ \E j \in SettlingJobs : settling[j] # "absent" /\ deadline'[f] = entered[f] + MaxWait[j]
    BY DEF DeadlineIsBudget
  <2>1. CASE f = e
    <3>1. deadline'[e] = Constrained(e, live'[e])
      BY <1>1 DEF BarrierIInv, Typed
    <3> QED BY <2>1, <3>1, <1>6 DEF BarrierIInv, DeadlineIsBudget
  <2>2. CASE f # e
    <3>1. deadline'[f] = deadline[f]
      BY <1>1, <2>2 DEF BarrierIInv, Typed
    <3> QED BY <3>1 DEF BarrierIInv, DeadlineIsBudget
  <2> QED BY <2>1, <2>2
<1>9. \A f \in Executions \ {e} :
        listed'[f] = listed[f] /\ live'[f] = live[f] /\ deadline'[f] = deadline[f]
  BY <1>1 DEF BarrierIInv, Typed
<1>10. listed'[e] = Pending
  BY <1>1 DEF BarrierIInv, Typed
<1> QED BY <1>1, <1>2, <1>7, <1>8, <1>9, <1>10 DEF BarrierIInv, Typed

LEMMA EnterBarrierStep ==
  ASSUME BarrierIInv, NEW e \in Executions, EnterBarrier(e)
  PROVE  BarrierIInv'
<1>1. Typed'
  BY BarrierAssumption DEF BarrierIInv, Typed, BarrierTypeOK, EnterBarrier, Go, jobSide, history
<1>2. LockOnlyWhileIn'
  BY BarrierAssumption DEF BarrierIInv, Typed, BarrierTypeOK, LockOnlyWhileIn, EnterBarrier, Go, jobSide, history
<1>3. ListCoversAhead'
  BY BarrierAssumption DEF BarrierIInv, Typed, BarrierTypeOK, ListCoversAhead, EnterBarrier, Go, jobSide, history
<1>4. DeadlineIsBudget'
  BY BarrierAssumption DEF BarrierIInv, Typed, BarrierTypeOK, DeadlineIsBudget, UnsetOutside, EnterBarrier, Go, jobSide, history
<1>5. UnsetOutside'
  BY BarrierAssumption DEF BarrierIInv, Typed, BarrierTypeOK, UnsetOutside, EnterBarrier, Go, jobSide, history
<1>6. SettledAtStart'
  BY BarrierAssumption DEF BarrierIInv, Typed, BarrierTypeOK, SettledAtStart, EnterBarrier, Go, jobSide, history
<1> QED BY <1>1, <1>2, <1>3, <1>4, <1>5, <1>6 DEF BarrierIInv

LEMMA PollJobsStep ==
  ASSUME BarrierIInv, NEW e \in Executions, PollJobs(e)
  PROVE  BarrierIInv'
<1>1. ListJobs(e) /\ UNCHANGED <<settling, runnable, lockedBy, entered, now, ahead, traced>>
  BY DEF PollJobs, jobSide, history
<1>2. /\ listed' \in [Executions -> SUBSET SettlingJobs]
      /\ live' \in [Executions -> SUBSET SettlingJobs]
      /\ deadline' \in [Executions -> Nat]
      /\ listed'[e] = Pending
      /\ \A f \in Executions \ {e} :
           listed'[f] = listed[f] /\ live'[f] = live[f] /\ deadline'[f] = deadline[f]
      /\ DeadlineIsBudget'
  BY <1>1, Listing
<1>3. Typed'
  BY <1>1, <1>2 DEF BarrierIInv, Typed, BarrierTypeOK, PollJobs, Go
<1>4. LockOnlyWhileIn'
  BY <1>1 DEF BarrierIInv, Typed, BarrierTypeOK, LockOnlyWhileIn, PollJobs, Go
<1>5. ListCoversAhead'
  BY <1>1, <1>2 DEF BarrierIInv, Typed, BarrierTypeOK, ListCoversAhead, PollJobs, Go, Pending
<1>6. UnsetOutside'
  BY <1>1, <1>2 DEF BarrierIInv, Typed, BarrierTypeOK, UnsetOutside, PollJobs, Go
<1>7. SettledAtStart'
  BY <1>1, <1>2 DEF BarrierIInv, Typed, BarrierTypeOK, SettledAtStart, PollJobs, Go
<1> QED BY <1>2, <1>3, <1>4, <1>5, <1>6, <1>7 DEF BarrierIInv

LEMMA WaitOrLockStep ==
  ASSUME BarrierIInv, NEW e \in Executions, WaitOrLock(e)
  PROVE  BarrierIInv'
<1>1. Typed'
  BY BarrierAssumption DEF BarrierIInv, Typed, BarrierTypeOK, WaitOrLock, Go, See, jobSide, history
<1>2. LockOnlyWhileIn'
  BY BarrierAssumption DEF BarrierIInv, Typed, BarrierTypeOK, LockOnlyWhileIn, WaitOrLock, Go, See, jobSide, history
<1>3. ListCoversAhead'
  BY BarrierAssumption DEF BarrierIInv, Typed, BarrierTypeOK, ListCoversAhead, WaitOrLock, Go, See, jobSide, history
<1>4. DeadlineIsBudget'
  BY BarrierAssumption DEF BarrierIInv, Typed, BarrierTypeOK, DeadlineIsBudget, UnsetOutside, WaitOrLock, Go, See, jobSide, history
<1>5. UnsetOutside'
  BY BarrierAssumption DEF BarrierIInv, Typed, BarrierTypeOK, UnsetOutside, WaitOrLock, Go, See, jobSide, history
<1>6. SettledAtStart'
  BY BarrierAssumption DEF BarrierIInv, Typed, BarrierTypeOK, SettledAtStart, WaitOrLock, Go, See, jobSide, history
<1> QED BY <1>1, <1>2, <1>3, <1>4, <1>5, <1>6 DEF BarrierIInv

LEMMA LockForEntryStep ==
  ASSUME BarrierIInv, NEW e \in Executions, LockForEntry(e)
  PROVE  BarrierIInv'
<1>1. Typed'
  BY BarrierAssumption DEF BarrierIInv, Typed, BarrierTypeOK, LockForEntry, Go, jobSide, Pending
<1>2. LockOnlyWhileIn'
  BY BarrierAssumption DEF BarrierIInv, Typed, BarrierTypeOK, LockOnlyWhileIn, LockForEntry, Go, jobSide, Pending
<1>3. ListCoversAhead'
  BY BarrierAssumption DEF BarrierIInv, Typed, BarrierTypeOK, ListCoversAhead, LockForEntry, Go, jobSide, Pending
<1>4. DeadlineIsBudget'
  BY BarrierAssumption DEF BarrierIInv, Typed, BarrierTypeOK, DeadlineIsBudget, UnsetOutside, LockForEntry, Go, jobSide, Pending
<1>5. UnsetOutside'
  BY BarrierAssumption DEF BarrierIInv, Typed, BarrierTypeOK, UnsetOutside, LockForEntry, Go, jobSide, Pending
<1>6. SettledAtStart'
  BY BarrierAssumption DEF BarrierIInv, Typed, BarrierTypeOK, SettledAtStart, LockForEntry, Go, jobSide, Pending
<1> QED BY <1>1, <1>2, <1>3, <1>4, <1>5, <1>6 DEF BarrierIInv

LEMMA RelistStep ==
  ASSUME BarrierIInv, NEW e \in Executions, Relist(e)
  PROVE  BarrierIInv'
<1>1. ListJobs(e) /\ UNCHANGED <<settling, runnable, lockedBy, entered, now, ahead, traced>>
  BY DEF Relist, jobSide, history
<1>2. /\ listed' \in [Executions -> SUBSET SettlingJobs]
      /\ live' \in [Executions -> SUBSET SettlingJobs]
      /\ deadline' \in [Executions -> Nat]
      /\ listed'[e] = Pending
      /\ \A f \in Executions \ {e} :
           listed'[f] = listed[f] /\ live'[f] = live[f] /\ deadline'[f] = deadline[f]
      /\ DeadlineIsBudget'
  BY <1>1, Listing
<1>3. Typed'
  BY <1>1, <1>2 DEF BarrierIInv, Typed, BarrierTypeOK, Relist, Go
<1>4. LockOnlyWhileIn'
  BY <1>1 DEF BarrierIInv, Typed, BarrierTypeOK, LockOnlyWhileIn, Relist, Go
<1>5. ListCoversAhead'
  BY <1>1, <1>2 DEF BarrierIInv, Typed, BarrierTypeOK, ListCoversAhead, Relist, Go, Pending
<1>6. UnsetOutside'
  BY <1>1, <1>2 DEF BarrierIInv, Typed, BarrierTypeOK, UnsetOutside, Relist, Go
<1>7. SettledAtStart'
  BY <1>1, <1>2 DEF BarrierIInv, Typed, BarrierTypeOK, SettledAtStart, Relist, Go
<1> QED BY <1>2, <1>3, <1>4, <1>5, <1>6, <1>7 DEF BarrierIInv

LEMMA RetryOrStartStep ==
  ASSUME BarrierIInv, NEW e \in Executions, RetryOrStart(e)
  PROVE  BarrierIInv'
<1>1. Typed'
  BY BarrierAssumption DEF BarrierIInv, Typed, BarrierTypeOK, RetryOrStart, Go, See, jobSide, MustRetry
<1>2. LockOnlyWhileIn'
  BY BarrierAssumption DEF BarrierIInv, Typed, BarrierTypeOK, LockOnlyWhileIn, RetryOrStart, Go, See, jobSide, MustRetry
<1>3. ListCoversAhead'
  BY BarrierAssumption DEF BarrierIInv, Typed, BarrierTypeOK, ListCoversAhead, RetryOrStart, Go, See, jobSide, MustRetry
<1>4. DeadlineIsBudget'
  BY BarrierAssumption DEF BarrierIInv, Typed, BarrierTypeOK, DeadlineIsBudget, UnsetOutside, RetryOrStart, Go, See, jobSide, MustRetry
<1>5. UnsetOutside'
  BY BarrierAssumption DEF BarrierIInv, Typed, BarrierTypeOK, UnsetOutside, RetryOrStart, Go, See, jobSide, MustRetry
<1>6. SettledAtStart'
  <2> SUFFICES ASSUME NEW f \in Executions, step'[f] = "in"
               PROVE  /\ \A j \in ahead'[f] : settling'[j] = "finished" \/ j \in traced'[f]
                      /\ traced'[f] \cap live'[f] # {} =>
                           \E j \in SettlingJobs :
                             settling'[j] # "absent" /\ now' >= entered'[f] + MaxWait[j]
    BY DEF SettledAtStart
  <2>1. UNCHANGED <<settling, entered, deadline, now>>
    BY DEF RetryOrStart, jobSide
  <2>2. CASE f = e
    <3>1. ~MustRetry(e)
      BY <2>2 DEF RetryOrStart, Go, BarrierIInv, Typed, BarrierTypeOK
    <3>2. traced'[e] = listed[e] /\ live'[e] = live[e] /\ ahead'[e] = ahead[e]
      BY <3>1 DEF RetryOrStart, See, BarrierIInv, Typed
    <3>3. \A j \in ahead[e] : settling[j] = "finished" \/ j \in listed[e]
      BY DEF RetryOrStart, BarrierIInv, ListCoversAhead
    <3>4. ASSUME live[e] # {}
          PROVE  \E j \in SettlingJobs : settling[j] # "absent" /\ now >= entered[e] + MaxWait[j]
      <4>1. now >= deadline[e]
        BY <3>1, <3>4 DEF MustRetry, BarrierIInv, Typed, BarrierTypeOK
      <4>2. deadline[e] # Infinity
        BY <4>1, BarrierAssumption DEF BarrierIInv, Typed, BarrierTypeOK
      <4> QED BY <4>1, <4>2 DEF BarrierIInv, DeadlineIsBudget
    <3> QED BY <2>1, <2>2, <3>2, <3>3, <3>4
  <2>3. CASE f # e
    <3>1. step[f] = "in"
      BY <2>3 DEF RetryOrStart, Go, BarrierIInv, Typed, BarrierTypeOK
    <3>2. ahead'[f] = ahead[f] /\ traced'[f] = traced[f] /\ live'[f] = live[f]
      BY <2>3 DEF RetryOrStart, See, BarrierIInv, Typed
    <3> QED BY <2>1, <3>1, <3>2 DEF BarrierIInv, SettledAtStart
  <2> QED BY <2>2, <2>3
<1> QED BY <1>1, <1>2, <1>3, <1>4, <1>5, <1>6 DEF BarrierIInv

LEMMA LeaveBarrierStep ==
  ASSUME BarrierIInv, NEW e \in Executions, LeaveBarrier(e)
  PROVE  BarrierIInv'
<1>1. Typed'
  BY BarrierAssumption DEF BarrierIInv, Typed, BarrierTypeOK, LeaveBarrier, Over, Go, See, jobSide
<1>2. LockOnlyWhileIn'
  BY BarrierAssumption DEF BarrierIInv, Typed, BarrierTypeOK, LockOnlyWhileIn, LeaveBarrier, Over, Go, See, jobSide
<1>3. ListCoversAhead'
  BY BarrierAssumption DEF BarrierIInv, Typed, BarrierTypeOK, ListCoversAhead, LeaveBarrier, Over, Go, See, jobSide
<1>4. DeadlineIsBudget'
  BY BarrierAssumption DEF BarrierIInv, Typed, BarrierTypeOK, DeadlineIsBudget, UnsetOutside, LeaveBarrier, Over, Go, See, jobSide
<1>5. UnsetOutside'
  BY BarrierAssumption DEF BarrierIInv, Typed, BarrierTypeOK, UnsetOutside, LeaveBarrier, Over, Go, See, jobSide
<1>6. SettledAtStart'
  BY BarrierAssumption DEF BarrierIInv, Typed, BarrierTypeOK, SettledAtStart, LeaveBarrier, Over, Go, See, jobSide
<1> QED BY <1>1, <1>2, <1>3, <1>4, <1>5, <1>6 DEF BarrierIInv

LEMMA AbortEntryStep ==
  ASSUME BarrierIInv, NEW e \in Executions, AbortEntry(e)
  PROVE  BarrierIInv'
<1>1. Typed'
  BY BarrierAssumption DEF BarrierIInv, Typed, BarrierTypeOK, AbortEntry, Over, Go, See, jobSide
<1>2. LockOnlyWhileIn'
  BY BarrierAssumption DEF BarrierIInv, Typed, BarrierTypeOK, LockOnlyWhileIn, AbortEntry, Over, Go, See, jobSide
<1>3. ListCoversAhead'
  BY BarrierAssumption DEF BarrierIInv, Typed, BarrierTypeOK, ListCoversAhead, AbortEntry, Over, Go, See, jobSide
<1>4. DeadlineIsBudget'
  BY BarrierAssumption DEF BarrierIInv, Typed, BarrierTypeOK, DeadlineIsBudget, UnsetOutside, AbortEntry, Over, Go, See, jobSide
<1>5. UnsetOutside'
  BY BarrierAssumption DEF BarrierIInv, Typed, BarrierTypeOK, UnsetOutside, AbortEntry, Over, Go, See, jobSide
<1>6. SettledAtStart'
  BY BarrierAssumption DEF BarrierIInv, Typed, BarrierTypeOK, SettledAtStart, AbortEntry, Over, Go, See, jobSide
<1> QED BY <1>1, <1>2, <1>3, <1>4, <1>5, <1>6 DEF BarrierIInv

LEMMA EnqueueSettlingStep ==
  ASSUME BarrierIInv, NEW j \in SettlingJobs, EnqueueSettling(j)
  PROVE  BarrierIInv'
<1>1. Typed'
  BY BarrierAssumption DEF BarrierIInv, Typed, BarrierTypeOK, EnqueueSettling, history
<1>2. LockOnlyWhileIn'
  BY BarrierAssumption DEF BarrierIInv, Typed, BarrierTypeOK, LockOnlyWhileIn, EnqueueSettling, history
<1>3. ListCoversAhead'
  BY BarrierAssumption DEF BarrierIInv, Typed, BarrierTypeOK, ListCoversAhead, EnqueueSettling, history
<1>4. DeadlineIsBudget'
  BY BarrierAssumption DEF BarrierIInv, Typed, BarrierTypeOK, DeadlineIsBudget, UnsetOutside, EnqueueSettling, history
<1>5. UnsetOutside'
  BY BarrierAssumption DEF BarrierIInv, Typed, BarrierTypeOK, UnsetOutside, EnqueueSettling, history
<1>6. SettledAtStart'
  BY BarrierAssumption DEF BarrierIInv, Typed, BarrierTypeOK, SettledAtStart, EnqueueSettling, history
<1> QED BY <1>1, <1>2, <1>3, <1>4, <1>5, <1>6 DEF BarrierIInv

LEMMA FinishSettlingStep ==
  ASSUME BarrierIInv, NEW j \in SettlingJobs, FinishSettling(j)
  PROVE  BarrierIInv'
<1>1. Typed'
  BY BarrierAssumption DEF BarrierIInv, Typed, BarrierTypeOK, FinishSettling, history
<1>2. LockOnlyWhileIn'
  BY BarrierAssumption DEF BarrierIInv, Typed, BarrierTypeOK, LockOnlyWhileIn, FinishSettling, history
<1>3. ListCoversAhead'
  BY BarrierAssumption DEF BarrierIInv, Typed, BarrierTypeOK, ListCoversAhead, FinishSettling, history
<1>4. DeadlineIsBudget'
  BY BarrierAssumption DEF BarrierIInv, Typed, BarrierTypeOK, DeadlineIsBudget, UnsetOutside, FinishSettling, history
<1>5. UnsetOutside'
  BY BarrierAssumption DEF BarrierIInv, Typed, BarrierTypeOK, UnsetOutside, FinishSettling, history
<1>6. SettledAtStart'
  BY BarrierAssumption DEF BarrierIInv, Typed, BarrierTypeOK, SettledAtStart, FinishSettling, history
<1> QED BY <1>1, <1>2, <1>3, <1>4, <1>5, <1>6 DEF BarrierIInv

LEMMA ServeOrNotStep ==
  ASSUME BarrierIInv, NEW j \in SettlingJobs, ServeOrNot(j)
  PROVE  BarrierIInv'
<1>1. Typed'
  BY BarrierAssumption DEF BarrierIInv, Typed, BarrierTypeOK, ServeOrNot, history
<1>2. LockOnlyWhileIn'
  BY BarrierAssumption DEF BarrierIInv, Typed, BarrierTypeOK, LockOnlyWhileIn, ServeOrNot, history
<1>3. ListCoversAhead'
  BY BarrierAssumption DEF BarrierIInv, Typed, BarrierTypeOK, ListCoversAhead, ServeOrNot, history
<1>4. DeadlineIsBudget'
  BY BarrierAssumption DEF BarrierIInv, Typed, BarrierTypeOK, DeadlineIsBudget, UnsetOutside, ServeOrNot, history
<1>5. UnsetOutside'
  BY BarrierAssumption DEF BarrierIInv, Typed, BarrierTypeOK, UnsetOutside, ServeOrNot, history
<1>6. SettledAtStart'
  BY BarrierAssumption DEF BarrierIInv, Typed, BarrierTypeOK, SettledAtStart, ServeOrNot, history
<1> QED BY <1>1, <1>2, <1>3, <1>4, <1>5, <1>6 DEF BarrierIInv

LEMMA BarrierTickStep ==
  ASSUME BarrierIInv, BarrierTick
  PROVE  BarrierIInv'
<1>1. Typed'
  BY BarrierAssumption DEF BarrierIInv, Typed, BarrierTypeOK, BarrierTick, history, jobSide
<1>2. LockOnlyWhileIn'
  BY BarrierAssumption DEF BarrierIInv, Typed, BarrierTypeOK, LockOnlyWhileIn, BarrierTick, history, jobSide
<1>3. ListCoversAhead'
  BY BarrierAssumption DEF BarrierIInv, Typed, BarrierTypeOK, ListCoversAhead, BarrierTick, history, jobSide
<1>4. DeadlineIsBudget'
  BY BarrierAssumption DEF BarrierIInv, Typed, BarrierTypeOK, DeadlineIsBudget, UnsetOutside, BarrierTick, history, jobSide
<1>5. UnsetOutside'
  BY BarrierAssumption DEF BarrierIInv, Typed, BarrierTypeOK, UnsetOutside, BarrierTick, history, jobSide
<1>6. SettledAtStart'
  BY BarrierAssumption DEF BarrierIInv, Typed, BarrierTypeOK, SettledAtStart, BarrierTick, history, jobSide
<1> QED BY <1>1, <1>2, <1>3, <1>4, <1>5, <1>6 DEF BarrierIInv

LEMMA BarrierStep ==
  ASSUME BarrierIInv, [BarrierNext]_barrierVars
  PROVE  BarrierIInv'
<1>1. CASE BarrierNext
  BY <1>1, EnterBarrierStep, PollJobsStep, WaitOrLockStep, LockForEntryStep, RelistStep, RetryOrStartStep,
     LeaveBarrierStep, AbortEntryStep, EnqueueSettlingStep, FinishSettlingStep, ServeOrNotStep, BarrierTickStep
     DEF BarrierNext
<1>2. CASE UNCHANGED barrierVars
  BY <1>2 DEF barrierVars, jobSide, history, BarrierIInv, Typed, BarrierTypeOK, LockOnlyWhileIn, ListCoversAhead,
     DeadlineIsBudget, UnsetOutside, SettledAtStart
<1> QED BY <1>1, <1>2

\* BarrierInv (withLock of settled-session-lock.ts): no execution waits for
\* jobs with the session lock in its hands, and each job that was ahead of one
\* that starts has finished or is named, after the wait its budget allows.
THEOREM Barrier == BarrierSpec => []BarrierInv
<1>1. BarrierIInv => BarrierInv
  BY DEF BarrierIInv, BarrierInv, Typed
<1> QED BY <1>1, BarrierInitially, BarrierStep, PTL DEF BarrierSpec

-----------------------------------------------------------------------------
(***************************************************************************)
(* Every call that the approval gate lets through stands on a decision of  *)
(* the player (AllowedByPlayer). What the gate stores is shown to be       *)
(* backed by decisions that still count; an approval id names one request, *)
(* so a revocation that withdraws a request withdraws no decision on       *)
(* another one.                                                            *)
(***************************************************************************)

\* Requests that wait are numbered, each with an id of its own, and none of
\* them was withdrawn.
RequestsNumbered ==
  /\ \A r \in pending : r.id \in 1..asks /\ r.id \notin withdrawn /\ r.key \in Keys
  /\ \A r, s \in pending : r.id = s.id => r = s

\* A decision is about a request that no longer waits and was not withdrawn.
DecisionsCount ==
  \A c \in consents :
    /\ c.id \in 1..asks /\ c.id \notin withdrawn
    /\ \A r \in pending : r.id # c.id

\* What the gate stores for the session, or for one dispatch, was decided.
StoredWasDecided ==
  /\ \A k \in sessionCache : \E c \in consents : c.kind = "session" /\ c.key = k
  /\ \A k \in Keys : Granted(k) =>
       \E c \in consents :
         c.kind = "once" /\ c.key = k /\ c.payload = oneTime[k].payload /\ c.at = oneTime[k].issued

Counted == asks \in Nat /\ withdrawn \subseteq 1..asks /\ oneTime = [k \in Keys |-> oneTime[k]]

GateIInv == Counted /\ RequestsNumbered /\ DecisionsCount /\ StoredWasDecided

LEMMA GateInitially == GateInit => GateIInv
BY DEF GateInit, GateIInv, Counted, RequestsNumbered, DecisionsCount, StoredWasDecided, Granted, NoGrant

\* Asking the player keeps the numbering.
LEMMA AskingNumbers ==
  ASSUME GateIInv, NEW k \in Keys, NEW x, AskPlayer(k, x),
         UNCHANGED <<withdrawn, consents>>
  PROVE  /\ asks' \in Nat /\ withdrawn' \subseteq 1..asks'
         /\ RequestsNumbered' /\ DecisionsCount'
         /\ answer'.verdict \in {"pending", "rejected"}
<1> Current \subseteq pending
  BY DEF Current
<1>1. CASE pending' = Current /\ UNCHANGED asks
  <2>1. answer'.verdict \in {"pending", "rejected"}
    BY <1>1 DEF AskPlayer, Answer
  <2> QED BY <1>1, <2>1 DEF GateIInv, Counted, RequestsNumbered, DecisionsCount
<1>2. CASE /\ asks < MaxAsks /\ asks' = asks + 1
           /\ pending' = Current \cup {[id |-> asks', key |-> k, payload |-> x, at |-> gateClock]}
           /\ Answer("pending", k, x)
  <2>1. asks' \in Nat /\ asks < asks' /\ 1..asks \subseteq 1..asks' /\ asks' \in 1..asks' /\ asks' \notin 1..asks
    BY <1>2 DEF GateIInv, Counted
  <2>2. answer'.verdict \in {"pending", "rejected"}
    BY <1>2 DEF Answer
  <2>3. RequestsNumbered'
    BY <1>2, <2>1 DEF GateIInv, Counted, RequestsNumbered
  <2>4. DecisionsCount'
    BY <1>2, <2>1 DEF GateIInv, Counted, DecisionsCount
  <2> QED BY <2>1, <2>2, <2>3, <2>4 DEF GateIInv, Counted
<1> QED BY <1>1, <1>2 DEF AskPlayer

\* A step that leaves the requests alone, or takes some of them away.
LEMMA FewerRequests ==
  ASSUME GateIInv, pending' \subseteq pending, UNCHANGED <<asks, withdrawn>>
  PROVE  RequestsNumbered' /\ (consents' \subseteq consents => DecisionsCount')
BY DEF GateIInv, Counted, RequestsNumbered, DecisionsCount

\* What a step of the gate answers with: whether the call may go on.
LetThrough == answer'.verdict \in {"session-cached", "one-time-grant"}

\* The decision that a call which is let through stands on.
Backed ==
  \E c \in consents :
    /\ c.key = answer'.key /\ c.id \notin withdrawn
    /\ \/ c.kind = "session"
       \/ /\ c.kind = "once" /\ c.payload = answer'.payload
          /\ gateClock - c.at <= GrantTTL

LEMMA EvaluateStep ==
  ASSUME GateIInv, NEW k \in Keys, NEW x, Evaluate(k, x)
  PROVE  GateIInv' /\ (LetThrough => Backed)
<1>1. CASE k \in sessionCache
  <2>1. UNCHANGED <<pending, sessionCache, oneTime, asks, consents, withdrawn>>
    BY <1>1 DEF Evaluate
  <2>2. GateIInv'
    BY <2>1 DEF GateIInv, Counted, RequestsNumbered, DecisionsCount, StoredWasDecided, Granted
  <2>3. answer'.key = k
    BY <1>1 DEF Evaluate, Answer
  <2> QED BY <1>1, <2>2, <2>3 DEF Backed, GateIInv, StoredWasDecided, DecisionsCount
<1>2. CASE k \notin sessionCache /\ Serves(k, x)
  <2> DEFINE used == {c \in consents : c.key = k /\ c.payload = x /\ c.kind = "once"}
  <2>1. /\ UNCHANGED <<pending, sessionCache, asks, withdrawn>>
        /\ oneTime' = [oneTime EXCEPT ![k] = NoGrant]
        /\ consents' = consents \ used
        /\ answer'.key = k /\ answer'.payload = x
    BY <1>2 DEF Evaluate, Drop, Answer
  <2>2. Counted' /\ RequestsNumbered' /\ DecisionsCount'
    BY <2>1, FewerRequests DEF GateIInv, Counted
  <2>3. StoredWasDecided'
    <3>1. ASSUME NEW h \in sessionCache'
          PROVE  \E c \in consents' : c.kind = "session" /\ c.key = h
      BY <2>1, <3>1 DEF GateIInv, StoredWasDecided
    <3>2. ASSUME NEW h \in Keys, Granted(h)'
          PROVE  \E c \in consents' :
                   c.kind = "once" /\ c.key = h /\ c.payload = oneTime'[h].payload
                     /\ c.at = oneTime'[h].issued
      <4>1. h # k /\ oneTime'[h] = oneTime[h]
        BY <2>1, <3>2 DEF Granted, GateIInv, Counted
      <4> QED BY <2>1, <3>2, <4>1 DEF GateIInv, StoredWasDecided, Granted
    <3> QED BY <3>1, <3>2 DEF StoredWasDecided
  <2>4. Backed
    <3>1. PICK c \in consents :
            c.kind = "once" /\ c.key = k /\ c.payload = x /\ c.at = oneTime[k].issued
      BY <1>2 DEF Serves, GateIInv, StoredWasDecided
    <3> QED BY <1>2, <2>1, <3>1 DEF Backed, Serves, Fresh, GateIInv, DecisionsCount
  <2> QED BY <2>2, <2>3, <2>4 DEF GateIInv
<1>3. CASE k \notin sessionCache /\ ~Serves(k, x)
  <2>1. /\ AskPlayer(k, x)
        /\ UNCHANGED <<sessionCache, consents, withdrawn>>
        /\ oneTime' = oneTime \/ oneTime' = [oneTime EXCEPT ![k] = NoGrant]
    BY <1>3 DEF Evaluate, Drop
  <2>2. /\ asks' \in Nat /\ withdrawn' \subseteq 1..asks'
        /\ RequestsNumbered' /\ DecisionsCount'
        /\ ~LetThrough
    BY <2>1, AskingNumbers DEF LetThrough
  <2>3. Counted' /\ StoredWasDecided'
    BY <2>1, <2>2 DEF GateIInv, Counted, StoredWasDecided, Granted
  <2> QED BY <2>2, <2>3 DEF GateIInv
<1> QED BY <1>1, <1>2, <1>3

LEMMA DecideStep ==
  ASSUME GateIInv, NEW r \in pending, NEW d \in {"deny", "once", "session"}, Decide(r, d)
  PROVE  GateIInv' /\ ~LetThrough
<1> DEFINE new == [kind |-> d, key |-> r.key, payload |-> r.payload, id |-> r.id, at |-> gateClock]
<1>1. /\ pending' = pending \ {r} /\ UNCHANGED <<asks, withdrawn>>
      /\ consents' = IF d = "deny" THEN consents ELSE consents \cup {new}
      /\ sessionCache' = IF d = "session" THEN sessionCache \cup {r.key} ELSE sessionCache
      /\ oneTime' = IF d = "once"
                    THEN [oneTime EXCEPT ![r.key] = [payload |-> r.payload, issued |-> gateClock]]
                    ELSE oneTime
      /\ answer' = NoAnswer
  BY DEF Decide
<1>2. Counted' /\ RequestsNumbered'
  BY <1>1, FewerRequests DEF GateIInv, Counted
<1>3. DecisionsCount'
  BY <1>1 DEF GateIInv, RequestsNumbered, DecisionsCount
<1>4. StoredWasDecided'
  <2>1. ASSUME NEW h \in sessionCache'
        PROVE  \E c \in consents' : c.kind = "session" /\ c.key = h
    <3>1. CASE h \in sessionCache
      BY <1>1, <3>1 DEF GateIInv, StoredWasDecided
    <3>2. CASE h \notin sessionCache
      <4>1. d = "session" /\ h = r.key /\ new \in consents'
        BY <1>1, <2>1, <3>2
      <4>2. new.kind = d /\ new.key = r.key
        OBVIOUS
      <4> QED BY <4>1, <4>2
    <3> QED BY <3>1, <3>2
  <2>2. ASSUME NEW h \in Keys, Granted(h)'
        PROVE  \E c \in consents' :
                 c.kind = "once" /\ c.key = h /\ c.payload = oneTime'[h].payload
                   /\ c.at = oneTime'[h].issued
    <3>1. CASE d = "once" /\ h = r.key
      <4>1. oneTime'[h] = [payload |-> r.payload, issued |-> gateClock]
        BY <1>1, <3>1 DEF GateIInv, Counted
      <4>2. new \in consents' /\ new.kind = "once"
        BY <1>1, <3>1
      <4> QED BY <3>1, <4>1, <4>2
    <3>2. CASE ~(d = "once" /\ h = r.key)
      <4>1. oneTime'[h] = oneTime[h]
        BY <1>1, <3>2 DEF GateIInv, Counted
      <4> QED BY <1>1, <2>2, <4>1 DEF GateIInv, StoredWasDecided, Granted
    <3> QED BY <3>1, <3>2
  <2> QED BY <2>1, <2>2 DEF StoredWasDecided
<1> QED BY <1>1, <1>2, <1>3, <1>4 DEF GateIInv, LetThrough, NoAnswer

LEMMA HasGrantStep ==
  ASSUME GateIInv, NEW k \in Keys, HasGrant(k)
  PROVE  GateIInv' /\ ~LetThrough
<1>1. PICK gone \in SUBSET Keys : oneTime' = [h \in Keys |-> IF h \in gone THEN NoGrant ELSE oneTime[h]]
  BY DEF HasGrant, Granted
<1>2. UNCHANGED <<pending, sessionCache, asks, consents, withdrawn>> /\ answer' = NoAnswer
  BY DEF HasGrant, Granted
<1>3. Counted' /\ RequestsNumbered' /\ DecisionsCount'
  BY <1>1, <1>2, FewerRequests DEF GateIInv, Counted
<1>4. StoredWasDecided'
  BY <1>1, <1>2 DEF GateIInv, StoredWasDecided, Granted
<1> QED BY <1>2, <1>3, <1>4 DEF GateIInv, LetThrough, NoAnswer

LEMMA RevokeStep ==
  ASSUME GateIInv, NEW plugins, Revoke(plugins)
  PROVE  GateIInv' /\ ~LetThrough
<1> DEFINE revoked == {r \in pending : Plugin(r.key) \in plugins}
<1>1. /\ sessionCache' = {k \in sessionCache : Plugin(k) \notin plugins}
      /\ oneTime' = [k \in Keys |-> IF Plugin(k) \in plugins THEN NoGrant ELSE oneTime[k]]
      /\ pending' = pending \ revoked
      /\ withdrawn' = withdrawn \cup {r.id : r \in revoked}
      /\ consents' = {c \in consents : Plugin(c.key) \notin plugins}
      /\ answer' = NoAnswer /\ UNCHANGED asks
  BY DEF Revoke
<1>2. Counted'
  BY <1>1 DEF GateIInv, Counted, RequestsNumbered
<1>3. RequestsNumbered'
  BY <1>1 DEF GateIInv, RequestsNumbered
<1>4. DecisionsCount'
  BY <1>1 DEF GateIInv, DecisionsCount
<1>5. StoredWasDecided'
  BY <1>1 DEF GateIInv, StoredWasDecided, Granted
<1> QED BY <1>1, <1>2, <1>3, <1>4, <1>5 DEF GateIInv, LetThrough, NoAnswer

LEMMA TickStep ==
  ASSUME GateIInv, GateTick
  PROVE  GateIInv' /\ ~LetThrough
BY DEF GateTick, GateIInv, Counted, RequestsNumbered, DecisionsCount, StoredWasDecided, Granted, LetThrough,
       NoAnswer

LEMMA GateStep ==
  ASSUME GateIInv, GateNext
  PROVE  GateIInv' /\ (LetThrough => Backed)
BY EvaluateStep, DecideStep, HasGrantStep, RevokeStep, TickStep DEF GateNext

\* AllowedByPlayer (evaluate, decide, revoke): whatever the gate lets through,
\* the player allowed for that scope and action, by a decision that no
\* revocation has withdrawn.
THEOREM Allowed == GateSpec => AllowedByPlayer
<1>1. GateIInv /\ [GateNext]_gateVars => GateIInv'
  <2>1. GateIInv /\ UNCHANGED gateVars => GateIInv'
    BY DEF gateVars, GateIInv, Counted, RequestsNumbered, DecisionsCount, StoredWasDecided, Granted
  <2> QED BY <2>1, GateStep
<1>2. GateIInv /\ [GateNext]_gateVars =>
        [answer'.verdict \in {"session-cached", "one-time-grant"} => Backed]_gateVars
  BY GateStep DEF LetThrough
<1> QED BY <1>1, <1>2, GateInitially, PTL DEF GateSpec, AllowedByPlayer, Backed

-----------------------------------------------------------------------------
(***************************************************************************)
(* A finished job that shows a wrong status is looked at again             *)
(* (ProjectionInv). What began to show or to list an earlier status did so *)
(* before the job ended, and not longer ago than the overlap of the        *)
(* complete passes.                                                        *)
(***************************************************************************)

\* Nothing is begun in the future, and no projection takes longer than it may.
Timely ==
  /\ \A a \in Writers : ~Idle(a) =>
       /\ appending[a].begun <= projClock
       /\ projClock <= appending[a].begun + AppendTime
  /\ \A w \in Workers : startedAt[w] <= projClock /\ through[w] <= projClock

\* What was read or is to be shown of a job that had ended is what it is now,
\* unless it is gone.
FinalsStay ==
  /\ \A w \in Workers : seen[w] \in Finals => durable \in {seen[w], "gone"}
  /\ \A a \in Writers : appending[a].status \in Finals => durable \in {appending[a].status, "gone"}

\* A pass projects at its end, and is complete only while it is under way.
PassesInStep ==
  \A w \in Workers : /\ passStage[w] # "end" => Idle(PassOf(w))
                     /\ passStage[w] = "idle" => w \notin complete

\* What shows or has seen an earlier status of a job that has ended began
\* before it ended, as far as clocks agree.
EarlierIsRecent ==
  durable \in Finals =>
    /\ \A a \in Writers : ~Idle(a) /\ appending[a].status \notin Finals =>
         appending[a].begun - MaxSkew <= doneAt
    /\ \A w \in complete : seen[w] \notin Finals => startedAt[w] - MaxSkew <= doneAt

\* WrongIsRevisited, for all workers, and also for what the last complete pass
\* has covered while the present one may still fail.
Revisited ==
  durable \in Finals /\ shown # durable =>
    \A w \in Workers :
      /\ doneAt >= Since(through[w])
      /\ w \in complete /\ passStage[w] = "end" =>
           doneAt >= Since(startedAt[w]) \/ appending[PassOf(w)].status = durable

ProjectionIInv ==
  ProjectionTypeOK /\ Timely /\ FinalsStay /\ PassesInStep /\ EarlierIsRecent /\ Revisited

LEMMA Constants ==
  /\ Overlap \in Nat /\ AppendTime \in Nat /\ MaxSkew \in Nat /\ MaxTime \in Nat
  /\ MaxFaults \in Nat /\ AppendTime + MaxSkew <= Overlap
  /\ NoWorker \notin Workers /\ Sweepers \subseteq Workers
BY ProjectionAssumption

LEMMA WritersAre ==
  /\ CancelRoute \in Writers
  /\ \A w \in Workers : RunOf(w) \in Writers /\ PassOf(w) \in Writers
  /\ \A w, v : RunOf(w) # PassOf(v) /\ CancelRoute # PassOf(v) /\ CancelRoute # RunOf(w)
  /\ \A w, v : PassOf(w) = PassOf(v) => w = v
BY DEF Writers, RunOf, PassOf, CancelRoute

LEMMA ProjectionInitially == ProjectionInit => ProjectionIInv
BY Constants, WritersAre DEF ProjectionInit, ProjectionIInv, ProjectionTypeOK, Timely, FinalsStay,
  PassesInStep, EarlierIsRecent, Revisited, Idle, NoAppend, Statuses, Finals, Never

\* What the writers' steps do to the projections under way.
LEMMA Begins ==
  ASSUME ProjectionTypeOK, NEW a \in Writers, NEW s \in Statuses, Will(a, s)
  PROVE  /\ appending' \in [Writers -> [status : Statuses, begun : 0..MaxTime]]
         /\ appending'[a] = [status |-> s, begun |-> projClock]
         /\ \A b \in Writers : b # a => appending'[b] = appending[b]
BY Constants DEF ProjectionTypeOK, Will

LEMMA Ends ==
  ASSUME ProjectionTypeOK, NEW a, appending' = [appending EXCEPT ![a] = NoAppend]
  PROVE  /\ appending' \in [Writers -> [status : Statuses, begun : 0..MaxTime]]
         /\ \A b \in Writers : appending'[b] = appending[b] \/ appending'[b] = NoAppend
         /\ a \in Writers => appending'[a] = NoAppend
<1>1. NoAppend \in [status : Statuses, begun : 0..MaxTime]
  BY Constants DEF NoAppend, Statuses
<1>2. appending \in [Writers -> [status : Statuses, begun : 0..MaxTime]]
  BY DEF ProjectionTypeOK
<1> QED
  BY <1>1, <1>2

LEMMA Leaves ==
  ASSUME ProjectionTypeOK, NEW w \in Workers, Leave(w)
  PROVE  /\ passStage' \in [Workers -> {"idle", "recover", "look", "end"}]
         /\ complete' \subseteq Workers
         /\ seen' \in [Workers -> Statuses]
         /\ startedAt' \in [Workers -> 0..MaxTime]
BY Constants DEF ProjectionTypeOK, Leave, Statuses

LEMMA DyingEnds ==
  ASSUME ProjectionTypeOK, NEW w \in Workers, WorkerDies(w)
  PROVE  /\ appending' \in [Writers -> [status : Statuses, begun : 0..MaxTime]]
         /\ \A b \in Writers : appending'[b] = appending[b] \/ appending'[b] = NoAppend
         /\ appending'[PassOf(w)] = NoAppend
<1>1. NoAppend \in [status : Statuses, begun : 0..MaxTime]
  BY Constants DEF NoAppend, Statuses
<1>2. appending \in [Writers -> [status : Statuses, begun : 0..MaxTime]]
  BY DEF ProjectionTypeOK
<1>3. appending' = [appending EXCEPT ![RunOf(w)] = NoAppend, ![PassOf(w)] = NoAppend]
  BY DEF WorkerDies
<1> QED
  BY <1>1, <1>2, <1>3, WritersAre

\* What a run makes of its job and shows of it, or that its claim is lost.
LEMMA Moves ==
  ASSUME ProjectionTypeOK, NEW w \in Workers, RunMoves(w)
  PROVE  \/ UNCHANGED <<jobRowVars, appending>>
         \/ /\ durable \in {"claimed", "running"} /\ durable' \in Statuses
            /\ Will(RunOf(w), durable') /\ Stamped(durable')
            /\ leaseOwner' \in Workers \cup {NoWorker}
<1>1. PICK s \in NextStatus(runStage[w]) :
        IF durable \in {"claimed", "running"} /\ leaseOwner = w
        THEN /\ durable' = s /\ Stamped(s)
             /\ leaseOwner' = IF s = "running" THEN w ELSE NoWorker
             /\ Will(RunOf(w), s)
        ELSE UNCHANGED <<jobRowVars, appending>>
  BY DEF RunMoves
<1>2. s \in Statuses
  BY DEF RunMoves, NextStatus, Statuses, Finals
<1> QED
  BY <1>1, <1>2

LEMMA ProjectionTypes ==
  ASSUME ProjectionIInv, [ProjectionNext]_projectionVars
  PROVE  ProjectionTypeOK'
<1> USE Constants, WritersAre DEF ProjectionTypeOK, ProjectionIInv, Statuses, Finals, NoAppend, Never
<1>1. ASSUME NEW a \in Writers, AppendStatus(a)
      PROVE  ProjectionTypeOK'
  BY <1>1 DEF AppendStatus, Owns, jobRowVars, runStageVars, passProjVars
<1>2. ASSUME NEW a \in Writers, AppendFails(a)
      PROVE  ProjectionTypeOK'
  <2>1. appending' \in [Writers -> [status : Statuses, begun : 0..MaxTime]]
    BY <1>2, Ends DEF AppendFails
  <2>2. CASE UNCHANGED <<passStage, complete, seen, startedAt>>
    BY <1>2, <2>1, <2>2 DEF AppendFails, Faulty, jobRowVars, runStageVars, passProjVars
  <2>3. ASSUME NEW w \in Workers, Leave(w)
        PROVE  ProjectionTypeOK'
    <3>1. UNCHANGED <<jobRowVars, shown, touched, through, projClock>>
      BY <1>2 DEF AppendFails
    <3>2. faults' \in 0..MaxFaults
      BY <1>2 DEF AppendFails, Faulty
    <3>3. runStage' \in [Workers -> {"idle", "claimed", "running", "failing", "ending"}]
      BY <1>2 DEF AppendFails
    <3> QED
      BY <2>1, <2>3, <3>1, <3>2, <3>3, Leaves DEF jobRowVars
  <2> QED
    BY <1>2, <2>2, <2>3 DEF AppendFails
<1>3. ASSUME NEW w \in Workers, ClaimJob(w)
      PROVE  ProjectionTypeOK'
  BY <1>3 DEF ClaimJob, Will, jobRowVars, runStageVars, passProjVars
<1>4. ASSUME NEW w \in Workers, RunMoves(w)
      PROVE  ProjectionTypeOK'
  <2>1. /\ durable' \in Statuses /\ leaseOwner' \in Workers \cup {NoWorker}
        /\ doneAt' \in -MaxSkew..(MaxTime + MaxSkew)
        /\ appending' \in [Writers -> [status : Statuses, begun : 0..MaxTime]]
    BY <1>4, Moves, Begins DEF Stamped, jobRowVars
  <2>2. runStage' \in [Workers -> {"idle", "claimed", "running", "failing", "ending"}]
    BY <1>4 DEF RunMoves
  <2> QED
    BY <1>4, <2>1, <2>2 DEF RunMoves, passProjVars
<1>5. ASSUME NEW w \in Workers, RunIsOver(w)
      PROVE  ProjectionTypeOK'
  BY <1>5 DEF RunIsOver, jobRowVars, runStageVars, passProjVars
<1>6. ASSUME NEW w \in Workers, WorkerDies(w)
      PROVE  ProjectionTypeOK'
  BY <1>6 DEF WorkerDies, Faulty, Leave, jobRowVars, runStageVars, passProjVars
<1>7. CASE CancelJob
  BY <1>7 DEF CancelJob, Will, Stamped, jobRowVars, runStageVars, passProjVars
<1>8. CASE QueueTimeout
  BY <1>8 DEF QueueTimeout, Stamped, jobRowVars, runStageVars, passProjVars
<1>9. CASE RemoveJob
  BY <1>9 DEF RemoveJob, jobRowVars, runStageVars, passProjVars
<1>10. ASSUME NEW w \in Sweepers, CompletePass(w)
      PROVE  ProjectionTypeOK'
  BY <1>10 DEF CompletePass, PassBegins, jobRowVars, runStageVars, passProjVars
<1>11. ASSUME NEW w \in Sweepers, TouchedPass(w)
      PROVE  ProjectionTypeOK'
  BY <1>11 DEF TouchedPass, PassBegins, jobRowVars, runStageVars, passProjVars
<1>12. ASSUME NEW w \in Sweepers, RecoverJob(w)
      PROVE  ProjectionTypeOK'
  BY <1>12 DEF RecoverJob, Stamped, jobRowVars, runStageVars, passProjVars
<1>13. ASSUME NEW w \in Sweepers, LookAtJob(w)
      PROVE  ProjectionTypeOK'
  <2>1. appending' \in [Writers -> [status : Statuses, begun : 0..MaxTime]]
    BY <1>13, Begins DEF LookAtJob
  <2> QED
    BY <1>13, <2>1 DEF LookAtJob, jobRowVars, runStageVars
<1>14. ASSUME NEW w \in Sweepers, PassIsOver(w)
      PROVE  ProjectionTypeOK'
  BY <1>14 DEF PassIsOver, Leave, CoveredBy, jobRowVars, runStageVars, passProjVars
<1>15. ASSUME NEW w \in Sweepers, ReadFails(w)
      PROVE  ProjectionTypeOK'
  BY <1>15 DEF ReadFails, Faulty, Leave, jobRowVars, runStageVars, passProjVars
<1>16. CASE ProjTick
  BY <1>16 DEF ProjTick, jobRowVars, runStageVars, passProjVars
<1>17. CASE UNCHANGED projectionVars
  BY <1>17 DEF projectionVars, jobRowVars, runStageVars, passProjVars
<1> QED
  BY <1>1, <1>2, <1>3, <1>4, <1>5, <1>6, <1>7, <1>8, <1>9, <1>10, <1>11, <1>12, <1>13, <1>14, <1>15, <1>16, <1>17
  DEF ProjectionNext

LEMMA TimelyStep ==
  ASSUME ProjectionIInv, [ProjectionNext]_projectionVars
  PROVE  Timely'
<1> USE Constants, WritersAre DEF ProjectionTypeOK, ProjectionIInv, Timely, Idle, NoAppend
<1>1. ASSUME NEW a \in Writers, AppendStatus(a)
      PROVE  Timely'
  BY <1>1 DEF AppendStatus, Owns, jobRowVars, runStageVars, passProjVars
<1>2. ASSUME NEW a \in Writers, AppendFails(a)
      PROVE  Timely'
  <2>1. \A b \in Writers : appending'[b] = appending[b] \/ appending'[b] = NoAppend
    BY <1>2, Ends DEF AppendFails
  <2>2. \A w \in Workers : startedAt'[w] = startedAt[w] \/ startedAt'[w] = 0
    BY <1>2 DEF AppendFails, Leave
  <2>3. \A w \in Workers : startedAt'[w] <= projClock /\ through[w] <= projClock
    BY <2>2
  <2> QED
    BY <1>2, <2>1, <2>3 DEF AppendFails
<1>3. ASSUME NEW w \in Workers, ClaimJob(w)
      PROVE  Timely'
  BY <1>3 DEF ClaimJob, Will, jobRowVars, runStageVars, passProjVars
<1>4. ASSUME NEW w \in Workers, RunMoves(w)
      PROVE  Timely'
  BY <1>4 DEF RunMoves, NextStatus, Will, Stamped, jobRowVars, runStageVars, passProjVars
<1>5. ASSUME NEW w \in Workers, RunIsOver(w)
      PROVE  Timely'
  BY <1>5 DEF RunIsOver, jobRowVars, runStageVars, passProjVars
<1>6. ASSUME NEW w \in Workers, WorkerDies(w)
      PROVE  Timely'
  <2>1. \A b \in Writers : appending'[b] = appending[b] \/ appending'[b] = NoAppend
    BY <1>6, DyingEnds
  <2>2. \A v \in Workers : startedAt'[v] = startedAt[v] \/ startedAt'[v] = 0
    BY <1>6 DEF WorkerDies, Leave
  <2>3. \A v \in Workers : through'[v] = through[v] \/ through'[v] = Never
    BY <1>6 DEF WorkerDies
  <2>4. \A v \in Workers : startedAt'[v] <= projClock /\ through'[v] <= projClock
    BY <2>2, <2>3 DEF Never
  <2> QED
    BY <1>6, <2>1, <2>4 DEF WorkerDies
<1>7. CASE CancelJob
  BY <1>7 DEF CancelJob, Will, Stamped, jobRowVars, runStageVars, passProjVars
<1>8. CASE QueueTimeout
  BY <1>8 DEF QueueTimeout, Stamped, jobRowVars, runStageVars, passProjVars
<1>9. CASE RemoveJob
  BY <1>9 DEF RemoveJob, jobRowVars, runStageVars, passProjVars
<1>10. ASSUME NEW w \in Sweepers, CompletePass(w)
      PROVE  Timely'
  BY <1>10 DEF CompletePass, PassBegins, jobRowVars, runStageVars, passProjVars
<1>11. ASSUME NEW w \in Sweepers, TouchedPass(w)
      PROVE  Timely'
  BY <1>11 DEF TouchedPass, PassBegins, jobRowVars, runStageVars, passProjVars
<1>12. ASSUME NEW w \in Sweepers, RecoverJob(w)
      PROVE  Timely'
  BY <1>12 DEF RecoverJob, Stamped, jobRowVars, runStageVars, passProjVars
<1>13. ASSUME NEW w \in Sweepers, LookAtJob(w)
      PROVE  Timely'
  BY <1>13 DEF LookAtJob, Will, jobRowVars, runStageVars, passProjVars
<1>14. ASSUME NEW w \in Sweepers, PassIsOver(w)
      PROVE  Timely'
  BY <1>14 DEF PassIsOver, Leave, CoveredBy, jobRowVars, runStageVars, passProjVars
<1>15. ASSUME NEW w \in Sweepers, ReadFails(w)
      PROVE  Timely'
  BY <1>15 DEF ReadFails, Faulty, Leave, jobRowVars, runStageVars, passProjVars
<1>16. CASE ProjTick
  <2>1. \A w \in Workers : startedAt[w] \in Int /\ through[w] \in Int
    BY DEF Never
  <2>2. \A w \in Workers : startedAt[w] <= projClock' /\ through[w] <= projClock'
    BY <1>16, <2>1 DEF ProjTick
  <2>3. ASSUME NEW a \in Writers, ~Idle(a)
        PROVE  appending[a].begun <= projClock' /\ projClock' <= appending[a].begun + AppendTime
    BY <1>16, <2>3 DEF ProjTick
  <2> QED
    BY <1>16, <2>2, <2>3 DEF ProjTick, passProjVars
<1>17. CASE UNCHANGED projectionVars
  BY <1>17 DEF projectionVars, jobRowVars, runStageVars, passProjVars
<1> QED
  BY <1>1, <1>2, <1>3, <1>4, <1>5, <1>6, <1>7, <1>8, <1>9, <1>10, <1>11, <1>12, <1>13, <1>14, <1>15, <1>16, <1>17
  DEF ProjectionNext

LEMMA FinalsStep ==
  ASSUME ProjectionIInv, [ProjectionNext]_projectionVars
  PROVE  FinalsStay'
<1> USE Constants, WritersAre DEF ProjectionTypeOK, ProjectionIInv, FinalsStay, Statuses, Finals, NoAppend
<1>1. ASSUME NEW a \in Writers, AppendStatus(a)
      PROVE  FinalsStay'
  BY <1>1 DEF AppendStatus, Owns, jobRowVars, runStageVars, passProjVars
<1>2. ASSUME NEW a \in Writers, AppendFails(a)
      PROVE  FinalsStay'
  BY <1>2 DEF AppendFails, Faulty, Leave, jobRowVars, runStageVars, passProjVars
<1>3. ASSUME NEW w \in Workers, ClaimJob(w)
      PROVE  FinalsStay'
  BY <1>3 DEF ClaimJob, Will, jobRowVars, runStageVars, passProjVars
<1>4. ASSUME NEW w \in Workers, RunMoves(w)
      PROVE  FinalsStay'
  <2>1. CASE UNCHANGED <<jobRowVars, appending>>
    BY <1>4, <2>1 DEF RunMoves, jobRowVars, passProjVars
  <2>2. CASE /\ durable \in {"claimed", "running"} /\ durable' \in Statuses
             /\ Will(RunOf(w), durable')
    <3>1. /\ appending'[RunOf(w)].status = durable'
          /\ \A b \in Writers : b # RunOf(w) => appending'[b] = appending[b]
      BY <2>2, Begins
    <3>2. seen' = seen
      BY <1>4 DEF RunMoves, passProjVars
    <3>3. /\ \A v \in Workers : seen[v] \notin Finals
          /\ \A b \in Writers : appending[b].status \notin Finals
      BY <2>2
    <3> QED
      BY <3>1, <3>2, <3>3
  <2> QED
    BY <1>4, <2>1, <2>2, Moves
<1>5. ASSUME NEW w \in Workers, RunIsOver(w)
      PROVE  FinalsStay'
  BY <1>5 DEF RunIsOver, jobRowVars, runStageVars, passProjVars
<1>6. ASSUME NEW w \in Workers, WorkerDies(w)
      PROVE  FinalsStay'
  BY <1>6 DEF WorkerDies, Faulty, Leave, jobRowVars, runStageVars, passProjVars
<1>7. CASE CancelJob
  BY <1>7 DEF CancelJob, Will, Stamped, jobRowVars, runStageVars, passProjVars
<1>8. CASE QueueTimeout
  BY <1>8 DEF QueueTimeout, Stamped, jobRowVars, runStageVars, passProjVars
<1>9. CASE RemoveJob
  BY <1>9 DEF RemoveJob, jobRowVars, runStageVars, passProjVars
<1>10. ASSUME NEW w \in Sweepers, CompletePass(w)
      PROVE  FinalsStay'
  BY <1>10 DEF CompletePass, PassBegins, jobRowVars, runStageVars, passProjVars
<1>11. ASSUME NEW w \in Sweepers, TouchedPass(w)
      PROVE  FinalsStay'
  BY <1>11 DEF TouchedPass, PassBegins, jobRowVars, runStageVars, passProjVars
<1>12. ASSUME NEW w \in Sweepers, RecoverJob(w)
      PROVE  FinalsStay'
  BY <1>12 DEF RecoverJob, Stamped, jobRowVars, runStageVars, passProjVars
<1>13. ASSUME NEW w \in Sweepers, LookAtJob(w)
      PROVE  FinalsStay'
  BY <1>13 DEF LookAtJob, Will, jobRowVars, runStageVars, passProjVars
<1>14. ASSUME NEW w \in Sweepers, PassIsOver(w)
      PROVE  FinalsStay'
  BY <1>14 DEF PassIsOver, Leave, CoveredBy, jobRowVars, runStageVars, passProjVars
<1>15. ASSUME NEW w \in Sweepers, ReadFails(w)
      PROVE  FinalsStay'
  BY <1>15 DEF ReadFails, Faulty, Leave, jobRowVars, runStageVars, passProjVars
<1>16. CASE ProjTick
  BY <1>16 DEF ProjTick, jobRowVars, runStageVars, passProjVars
<1>17. CASE UNCHANGED projectionVars
  BY <1>17 DEF projectionVars, jobRowVars, runStageVars, passProjVars
<1> QED
  BY <1>1, <1>2, <1>3, <1>4, <1>5, <1>6, <1>7, <1>8, <1>9, <1>10, <1>11, <1>12, <1>13, <1>14, <1>15, <1>16, <1>17
  DEF ProjectionNext

LEMMA PassesStep ==
  ASSUME ProjectionIInv, [ProjectionNext]_projectionVars
  PROVE  PassesInStep'
<1> DEFINE Goal == PassesInStep'
<1> USE Constants, WritersAre DEF ProjectionIInv, ProjectionTypeOK, PassesInStep, Idle
<1>1. ASSUME NEW a \in Writers, AppendStatus(a) \/ AppendFails(a)
      PROVE  Goal
  BY <1>1 DEF AppendStatus, AppendFails, Owns, Faulty, Leave, jobRowVars, runStageVars,
    passProjVars
<1>2. ASSUME NEW w \in Workers, ClaimJob(w) \/ RunIsOver(w)
      PROVE  Goal
  BY <1>2 DEF ClaimJob, RunIsOver, Will, jobRowVars, runStageVars, passProjVars
<1>3. ASSUME NEW w \in Workers, RunMoves(w)
      PROVE  Goal
  BY <1>3 DEF RunMoves, NextStatus, Will, Stamped, jobRowVars, runStageVars,
    passProjVars
<1>4. ASSUME NEW w \in Workers, WorkerDies(w)
      PROVE  Goal
  BY <1>4 DEF WorkerDies, Faulty, Leave, jobRowVars, runStageVars, passProjVars
<1>5. ASSUME CancelJob \/ QueueTimeout \/ RemoveJob \/ ProjTick
      PROVE  Goal
  BY <1>5 DEF CancelJob, QueueTimeout, RemoveJob, ProjTick, Will, Stamped, jobRowVars,
    runStageVars, passProjVars
<1>6. ASSUME NEW w \in Sweepers, CompletePass(w) \/ TouchedPass(w) \/ RecoverJob(w)
               \/ PassIsOver(w) \/ ReadFails(w)
      PROVE  Goal
  BY <1>6 DEF CompletePass, TouchedPass, RecoverJob, PassIsOver, ReadFails, PassBegins,
    Stamped, Leave, CoveredBy, Faulty, jobRowVars, runStageVars, passProjVars
<1>7. ASSUME NEW w \in Sweepers, LookAtJob(w)
      PROVE  Goal
  BY <1>7 DEF LookAtJob, Will, jobRowVars, runStageVars, passProjVars
<1>8. ASSUME UNCHANGED projectionVars
      PROVE  Goal
  BY <1>8 DEF projectionVars, jobRowVars, runStageVars, passProjVars
<1> HIDE DEF Goal
<1>9. Goal
  BY <1>1, <1>2, <1>3, <1>4, <1>5, <1>6, <1>7, <1>8 DEF ProjectionNext
<1> QED
  BY <1>9 DEF Goal

\* A job ends once, and its end is stamped when it ends.
LEMMA DoneWhen ==
  ASSUME ProjectionIInv, [ProjectionNext]_projectionVars
  PROVE  durable' \in Finals =>
           \/ durable' = durable /\ doneAt' = doneAt
           \/ durable \notin Finals /\ doneAt' >= projClock - MaxSkew /\ projClock' = projClock
<1> DEFINE Goal ==
     durable' \in Finals =>
       \/ durable' = durable /\ doneAt' = doneAt
       \/ durable \notin Finals /\ doneAt' >= projClock - MaxSkew /\ projClock' = projClock
<1> USE Constants, WritersAre DEF ProjectionIInv, ProjectionTypeOK, Finals
<1>1. ASSUME NEW a \in Writers, AppendStatus(a) \/ AppendFails(a)
      PROVE  Goal
  BY <1>1 DEF AppendStatus, AppendFails, Owns, Faulty, Leave, jobRowVars, runStageVars,
    passProjVars
<1>2. ASSUME NEW w \in Workers, ClaimJob(w) \/ RunIsOver(w)
      PROVE  Goal
  BY <1>2 DEF ClaimJob, RunIsOver, Will, jobRowVars, runStageVars, passProjVars
<1>3. ASSUME NEW w \in Workers, RunMoves(w)
      PROVE  Goal
  BY <1>3 DEF RunMoves, NextStatus, Will, Stamped, jobRowVars, runStageVars,
    passProjVars
<1>4. ASSUME NEW w \in Workers, WorkerDies(w)
      PROVE  Goal
  BY <1>4 DEF WorkerDies, Faulty, Leave, jobRowVars, runStageVars, passProjVars
<1>5. ASSUME CancelJob \/ QueueTimeout \/ RemoveJob \/ ProjTick
      PROVE  Goal
  BY <1>5 DEF CancelJob, QueueTimeout, RemoveJob, ProjTick, Will, Stamped, jobRowVars,
    runStageVars, passProjVars
<1>6. ASSUME NEW w \in Sweepers, CompletePass(w) \/ TouchedPass(w) \/ RecoverJob(w)
               \/ PassIsOver(w) \/ ReadFails(w)
      PROVE  Goal
  BY <1>6 DEF CompletePass, TouchedPass, RecoverJob, PassIsOver, ReadFails, PassBegins,
    Stamped, Leave, CoveredBy, Faulty, jobRowVars, runStageVars, passProjVars
<1>7. ASSUME NEW w \in Sweepers, LookAtJob(w)
      PROVE  Goal
  BY <1>7 DEF LookAtJob, Will, jobRowVars, runStageVars, passProjVars
<1>8. ASSUME UNCHANGED projectionVars
      PROVE  Goal
  BY <1>8 DEF projectionVars, jobRowVars, runStageVars, passProjVars
<1> HIDE DEF Goal
<1>9. Goal
  BY <1>1, <1>2, <1>3, <1>4, <1>5, <1>6, <1>7, <1>8 DEF ProjectionNext
<1> QED
  BY <1>9 DEF Goal

\* What comes to be under way shows what the job is now, or an end of it.
LEMMA AppendSteps ==
  ASSUME ProjectionIInv, [ProjectionNext]_projectionVars
  PROVE  \A b \in Writers :
           \/ appending'[b] \in {appending[b], NoAppend}
           \/ appending'[b].status \in Finals
           \/ appending'[b].status = durable'
<1> DEFINE Goal ==
     \A b \in Writers :
       \/ appending'[b] \in {appending[b], NoAppend}
       \/ appending'[b].status \in Finals
       \/ appending'[b].status = durable'
<1> USE Constants, WritersAre DEF ProjectionIInv, ProjectionTypeOK, Finals
<1>1. ASSUME NEW a \in Writers, AppendStatus(a) \/ AppendFails(a)
      PROVE  Goal
  BY <1>1 DEF AppendStatus, AppendFails, Owns, Faulty, Leave, jobRowVars, runStageVars,
    passProjVars
<1>2. ASSUME NEW w \in Workers, ClaimJob(w) \/ RunIsOver(w)
      PROVE  Goal
  BY <1>2 DEF ClaimJob, RunIsOver, Will, jobRowVars, runStageVars, passProjVars
<1>3. ASSUME NEW w \in Workers, RunMoves(w)
      PROVE  Goal
  BY <1>3 DEF RunMoves, NextStatus, Will, Stamped, jobRowVars, runStageVars,
    passProjVars
<1>4. ASSUME NEW w \in Workers, WorkerDies(w)
      PROVE  Goal
  BY <1>4 DEF WorkerDies, Faulty, Leave, jobRowVars, runStageVars, passProjVars
<1>5. ASSUME CancelJob \/ QueueTimeout \/ RemoveJob \/ ProjTick
      PROVE  Goal
  BY <1>5 DEF CancelJob, QueueTimeout, RemoveJob, ProjTick, Will, Stamped, jobRowVars,
    runStageVars, passProjVars
<1>6. ASSUME NEW w \in Sweepers, CompletePass(w) \/ TouchedPass(w) \/ RecoverJob(w)
               \/ PassIsOver(w) \/ ReadFails(w)
      PROVE  Goal
  BY <1>6 DEF CompletePass, TouchedPass, RecoverJob, PassIsOver, ReadFails, PassBegins,
    Stamped, Leave, CoveredBy, Faulty, jobRowVars, runStageVars, passProjVars
<1>7. ASSUME NEW w \in Sweepers, LookAtJob(w)
      PROVE  Goal
  BY <1>7 DEF LookAtJob, Will, jobRowVars, runStageVars, passProjVars
<1>8. ASSUME UNCHANGED projectionVars
      PROVE  Goal
  BY <1>8 DEF projectionVars, jobRowVars, runStageVars, passProjVars
<1> HIDE DEF Goal
<1>9. Goal
  BY <1>1, <1>2, <1>3, <1>4, <1>5, <1>6, <1>7, <1>8 DEF ProjectionNext
<1> QED
  BY <1>9 DEF Goal

\* A complete pass lists the job as it is, or as it ends it itself.
LEMMA SeenSteps ==
  ASSUME ProjectionIInv, [ProjectionNext]_projectionVars
  PROVE  \A v \in complete' :
           \/ v \in complete /\ seen'[v] = seen[v] /\ startedAt'[v] = startedAt[v]
           \/ seen'[v] \in Finals
           \/ seen'[v] = durable'
<1> DEFINE Goal ==
     \A v \in complete' :
       \/ v \in complete /\ seen'[v] = seen[v] /\ startedAt'[v] = startedAt[v]
       \/ seen'[v] \in Finals
       \/ seen'[v] = durable'
<1> USE Constants, WritersAre DEF ProjectionIInv, ProjectionTypeOK, Finals
<1>1. ASSUME NEW a \in Writers, AppendStatus(a) \/ AppendFails(a)
      PROVE  Goal
  BY <1>1 DEF AppendStatus, AppendFails, Owns, Faulty, Leave, jobRowVars, runStageVars,
    passProjVars
<1>2. ASSUME NEW w \in Workers, ClaimJob(w) \/ RunIsOver(w)
      PROVE  Goal
  BY <1>2 DEF ClaimJob, RunIsOver, Will, jobRowVars, runStageVars, passProjVars
<1>3. ASSUME NEW w \in Workers, RunMoves(w)
      PROVE  Goal
  BY <1>3 DEF RunMoves, NextStatus, Will, Stamped, jobRowVars, runStageVars,
    passProjVars
<1>4. ASSUME NEW w \in Workers, WorkerDies(w)
      PROVE  Goal
  BY <1>4 DEF WorkerDies, Faulty, Leave, jobRowVars, runStageVars, passProjVars
<1>5. ASSUME CancelJob \/ QueueTimeout \/ RemoveJob \/ ProjTick
      PROVE  Goal
  BY <1>5 DEF CancelJob, QueueTimeout, RemoveJob, ProjTick, Will, Stamped, jobRowVars,
    runStageVars, passProjVars
<1>6. ASSUME NEW w \in Sweepers, CompletePass(w) \/ TouchedPass(w) \/ RecoverJob(w)
               \/ PassIsOver(w) \/ ReadFails(w)
      PROVE  Goal
  BY <1>6 DEF CompletePass, TouchedPass, RecoverJob, PassIsOver, ReadFails, PassBegins,
    Stamped, Leave, CoveredBy, Faulty, jobRowVars, runStageVars, passProjVars
<1>7. ASSUME NEW w \in Sweepers, LookAtJob(w)
      PROVE  Goal
  BY <1>7 DEF LookAtJob, Will, jobRowVars, runStageVars, passProjVars
<1>8. ASSUME UNCHANGED projectionVars
      PROVE  Goal
  BY <1>8 DEF projectionVars, jobRowVars, runStageVars, passProjVars
<1> HIDE DEF Goal
<1>9. Goal
  BY <1>1, <1>2, <1>3, <1>4, <1>5, <1>6, <1>7, <1>8 DEF ProjectionNext
<1> QED
  BY <1>9 DEF Goal

LEMMA EarlierStep ==
  ASSUME ProjectionIInv, [ProjectionNext]_projectionVars,
         ProjectionTypeOK', Timely'
  PROVE  EarlierIsRecent'
<1> SUFFICES ASSUME durable' \in Finals
             PROVE  /\ \A a \in Writers : ~Idle(a)' /\ appending'[a].status \notin Finals =>
                         appending'[a].begun - MaxSkew <= doneAt'
                    /\ \A w \in complete' : seen'[w] \notin Finals =>
                         startedAt'[w] - MaxSkew <= doneAt'
  BY DEF EarlierIsRecent
<1> USE Constants
<1>0. /\ doneAt' \in Int /\ projClock \in Int
      /\ \A a \in Writers : appending'[a].begun \in Int
      /\ \A w \in Workers : startedAt'[w] \in Int
      /\ complete' \subseteq Workers
  BY DEF ProjectionIInv, ProjectionTypeOK
<1>1. CASE doneAt' >= projClock - MaxSkew /\ projClock' = projClock
  BY <1>0, <1>1 DEF Timely
<1>2. CASE durable' = durable /\ doneAt' = doneAt
  <2>1. \A a \in Writers : appending'[a].status \notin Finals =>
          appending'[a] = appending[a] \/ appending'[a] = NoAppend
    BY AppendSteps
  <2>2. \A w \in complete' : seen'[w] \notin Finals =>
          w \in complete /\ seen'[w] = seen[w] /\ startedAt'[w] = startedAt[w]
    BY SeenSteps
  <2> QED
    BY <1>2, <2>1, <2>2 DEF ProjectionIInv, EarlierIsRecent, Idle
<1> QED
  BY <1>1, <1>2, DoneWhen

\* An earlier status can come to show only while it is recent: no complete
\* pass has covered the end of the job by then.
LEMMA AppendRevisited ==
  ASSUME ProjectionIInv, NEW a \in Writers, AppendStatus(a)
  PROVE  Revisited'
<1> USE Constants
<1>1. /\ durable' = durable /\ doneAt' = doneAt /\ projClock' = projClock
      /\ UNCHANGED <<through, complete, passStage, startedAt>>
      /\ ~Idle(a) /\ appending' = [appending EXCEPT ![a] = NoAppend]
      /\ shown' = IF Owns THEN appending[a].status ELSE shown
  BY DEF AppendStatus, jobRowVars, passProjVars
<1> SUFFICES ASSUME durable \in Finals, shown' # durable, NEW w \in Workers
             PROVE  doneAt >= through[w] - Overlap /\ doneAt >= startedAt[w] - Overlap
  BY <1>1 DEF Revisited, Since
<1>2. shown' = appending[a].status /\ appending[a].status \notin Finals
  BY <1>1 DEF Owns, Finals, ProjectionIInv, FinalsStay
<1>3. appending[a].begun - MaxSkew <= doneAt
  BY <1>1, <1>2 DEF ProjectionIInv, EarlierIsRecent
<1>4. /\ projClock <= appending[a].begun + AppendTime
      /\ through[w] <= projClock /\ startedAt[w] <= projClock
  BY <1>1 DEF ProjectionIInv, Timely
<1>5. /\ appending[a].begun \in Int /\ doneAt \in Int /\ projClock \in Int
      /\ through[w] \in Int /\ startedAt[w] \in Int
  BY DEF ProjectionIInv, ProjectionTypeOK, Never
<1> QED
  BY <1>3, <1>4, <1>5

LEMMA Margin ==
  ASSUME NEW d \in Int, NEW c \in Int, NEW t \in Int, d >= c - MaxSkew, t <= c
  PROVE  d >= t - Overlap
BY Constants

\* The end of a job is too recent for any complete pass to have covered it.
LEMMA EndRevisited ==
  ASSUME ProjectionTypeOK', Timely', doneAt' >= projClock' - MaxSkew
  PROVE  Revisited'
<1>1. \A w \in Workers : /\ through'[w] <= projClock' /\ startedAt'[w] <= projClock'
                         /\ through'[w] \in Int /\ startedAt'[w] \in Int
  BY Constants DEF Timely, ProjectionTypeOK, Never
<1>2. doneAt' \in Int /\ projClock' \in Int
  BY Constants DEF ProjectionTypeOK
<1>3. ASSUME NEW w \in Workers
      PROVE  doneAt' >= through'[w] - Overlap /\ doneAt' >= startedAt'[w] - Overlap
  <2>1. /\ through'[w] <= projClock' /\ startedAt'[w] <= projClock'
        /\ through'[w] \in Int /\ startedAt'[w] \in Int
    BY <1>1
  <2> QED
    BY <1>2, <2>1, Margin
<1> QED
  BY <1>3 DEF Revisited, Since

\* A complete pass that has listed the job as ended shows it, or knows that it
\* was covered; one that has listed it earlier covers no later time.
LEMMA LookRevisited ==
  ASSUME ProjectionIInv, NEW w \in Workers, LookAtJob(w)
  PROVE  Revisited'
<1> USE Constants
<1>1. /\ UNCHANGED <<durable, doneAt, shown, through, complete, seen, startedAt>>
      /\ passStage[w] = "look" /\ passStage' = [passStage EXCEPT ![w] = "end"]
      /\ IF seen[w] \in Finals /\ doneAt >= Since(through[w]) /\ shown # seen[w]
         THEN Will(PassOf(w), seen[w]) ELSE UNCHANGED appending
  BY DEF LookAtJob, jobRowVars
<1> SUFFICES ASSUME durable \in Finals, shown # durable, NEW v \in Workers
             PROVE  /\ doneAt >= Since(through[v])
                    /\ v \in complete /\ passStage'[v] = "end" =>
                         doneAt >= Since(startedAt[v]) \/ appending'[PassOf(v)].status = durable
  BY <1>1 DEF Revisited, Since
<1>2. doneAt >= Since(through[v])
  BY DEF ProjectionIInv, Revisited
<1>3. CASE v # w
  <2>1. passStage'[v] = passStage[v] /\ appending'[PassOf(v)] = appending[PassOf(v)]
    BY <1>1, <1>3, Begins, WritersAre DEF ProjectionIInv, ProjectionTypeOK, Will
  <2> QED
    BY <1>2, <2>1 DEF ProjectionIInv, Revisited
<1>4. CASE v = w /\ seen[w] \in Finals
  <2>1. seen[w] = durable
    BY <1>4 DEF ProjectionIInv, FinalsStay, Finals
  <2>2. seen[w] \in Statuses
    BY <1>4 DEF Statuses
  <2>3. Will(PassOf(w), durable)
    BY <1>1, <1>2, <1>4, <2>1
  <2>4. durable \in Statuses /\ PassOf(w) \in Writers
    BY <2>1, <2>2, WritersAre
  <2>5. appending'[PassOf(w)] = [status |-> durable, begun |-> projClock]
    BY <2>3, <2>4, Begins, Zenon DEF ProjectionIInv
  <2> QED
    BY <1>2, <1>4, <2>5
<1>5. CASE v = w /\ seen[w] \notin Finals /\ w \in complete
  <2>1. startedAt[w] - MaxSkew <= doneAt
    BY <1>5 DEF ProjectionIInv, EarlierIsRecent
  <2>2. startedAt[w] \in Int /\ doneAt \in Int
    BY DEF ProjectionIInv, ProjectionTypeOK
  <2> QED
    BY <1>2, <1>5, <2>1, <2>2 DEF Since
<1> QED
  BY <1>2, <1>3, <1>4, <1>5

\* Nothing else changes what is shown of a job that has ended; a complete pass
\* is over only when it has shown what it has listed.
LEMMA OtherRevisited ==
  ASSUME ProjectionIInv, [ProjectionNext]_projectionVars, durable' = durable, doneAt' = doneAt,
         \A a \in Writers : ~AppendStatus(a), \A w \in Workers : ~LookAtJob(w)
  PROVE  Revisited'
<1> USE Constants
<1>1. durable \in Finals => shown' = shown
  BY DEF ProjectionNext, AppendFails, ClaimJob, RunMoves, RunIsOver, WorkerDies, CancelJob,
    QueueTimeout, RemoveJob, CompletePass, TouchedPass, PassBegins, RecoverJob, PassIsOver,
    ReadFails, ProjTick, projectionVars, Finals
<1>2. \A w \in Workers :
        \/ through'[w] \in {through[w], Never}
        \/ /\ w \in complete /\ passStage[w] = "end" /\ Idle(PassOf(w))
           /\ through'[w] = startedAt[w]
  BY DEF ProjectionNext, AppendFails, ClaimJob, RunMoves, RunIsOver, WorkerDies, CancelJob,
    QueueTimeout, RemoveJob, CompletePass, TouchedPass, PassBegins, RecoverJob, PassIsOver,
    ReadFails, ProjTick, projectionVars, passProjVars, CoveredBy, ProjectionIInv, ProjectionTypeOK
<1>3. \A w \in Workers : w \in complete' /\ passStage'[w] = "end" =>
        /\ w \in complete /\ passStage[w] = "end" /\ startedAt'[w] = startedAt[w]
        /\ appending'[PassOf(w)] = appending[PassOf(w)]
  <2>1. ASSUME NEW a \in Writers, AppendFails(a), NEW w \in complete', passStage'[w] = "end"
        PROVE  /\ w \in complete /\ passStage[w] = "end" /\ startedAt'[w] = startedAt[w]
               /\ appending'[PassOf(w)] = appending[PassOf(w)]
    <3>1. CASE a = PassOf(w)
      BY <2>1, <3>1, WritersAre DEF AppendFails, Leave, ProjectionIInv, ProjectionTypeOK
    <3>2. CASE a # PassOf(w)
      BY <2>1, <3>2 DEF AppendFails, Leave, ProjectionIInv, ProjectionTypeOK
    <3> QED
      BY <3>1, <3>2
  <2>2. ASSUME NEW v \in Workers, ClaimJob(v) \/ RunMoves(v) \/ RunIsOver(v), NEW w \in Workers
        PROVE  /\ UNCHANGED <<complete, passStage, startedAt>>
               /\ appending'[PassOf(w)] = appending[PassOf(w)]
    BY <2>2, WritersAre DEF ClaimJob, RunMoves, RunIsOver, Will, passProjVars, ProjectionIInv,
      ProjectionTypeOK
  <2>3. ASSUME CancelJob \/ QueueTimeout \/ RemoveJob \/ ProjTick \/ UNCHANGED projectionVars,
               NEW w \in Workers
        PROVE  /\ UNCHANGED <<complete, passStage, startedAt>>
               /\ appending'[PassOf(w)] = appending[PassOf(w)]
    BY <2>3, WritersAre DEF CancelJob, QueueTimeout, RemoveJob, ProjTick, projectionVars, Will,
      passProjVars, ProjectionIInv, ProjectionTypeOK
  <2>4. ASSUME NEW v \in Workers, WorkerDies(v), NEW w \in complete', passStage'[w] = "end"
        PROVE  /\ w \in complete /\ passStage[w] = "end" /\ startedAt'[w] = startedAt[w]
               /\ appending'[PassOf(w)] = appending[PassOf(w)]
    BY <2>4, WritersAre DEF WorkerDies, Leave, ProjectionIInv, ProjectionTypeOK
  <2>5. ASSUME NEW v \in Sweepers,
               CompletePass(v) \/ TouchedPass(v) \/ RecoverJob(v) \/ PassIsOver(v) \/ ReadFails(v),
               NEW w \in complete', passStage'[w] = "end"
        PROVE  /\ w \in complete /\ passStage[w] = "end" /\ startedAt'[w] = startedAt[w]
               /\ appending'[PassOf(w)] = appending[PassOf(w)]
    BY <2>5 DEF CompletePass, TouchedPass, PassBegins, RecoverJob, PassIsOver, ReadFails, Leave,
      ProjectionIInv, ProjectionTypeOK
  <2> QED
    BY <2>1, <2>2, <2>3, <2>4, <2>5 DEF ProjectionNext
<1>4. doneAt >= Since(Never)
  BY DEF Since, Never, ProjectionIInv, ProjectionTypeOK
<1>5. NoAppend.status \notin Finals
  BY DEF NoAppend, Finals
<1> QED
  BY <1>1, <1>2, <1>3, <1>4, <1>5 DEF ProjectionIInv, Revisited, Idle

LEMMA RevisitedStep ==
  ASSUME ProjectionIInv, [ProjectionNext]_projectionVars,
         ProjectionTypeOK', Timely'
  PROVE  Revisited'
<1>1. CASE doneAt' >= projClock - MaxSkew /\ projClock' = projClock
  BY <1>1, EndRevisited
<1>2. CASE durable' = durable /\ doneAt' = doneAt
  BY <1>2, AppendRevisited, LookRevisited, OtherRevisited
<1>3. CASE durable' \notin Finals
  BY <1>3 DEF Revisited
<1> QED
  BY <1>1, <1>2, <1>3, DoneWhen

\* A projection that is lost, late or out of order is made good: every
\* worker's next complete pass looks at the job, as long as RECONCILE_OVERLAP_MS
\* covers a projection under way and the skew of the clocks
\* (reconcileTerminalJobs, appendRuntimeJobStatus).
THEOREM Projection == ProjectionSpec => []ProjectionInv
<1>1. ProjectionIInv /\ [ProjectionNext]_projectionVars => ProjectionIInv'
  <2> SUFFICES ASSUME ProjectionIInv, [ProjectionNext]_projectionVars
               PROVE  ProjectionIInv'
    OBVIOUS
  <2>1. ProjectionTypeOK' /\ Timely' /\ FinalsStay' /\ PassesInStep'
    BY ProjectionTypes, TimelyStep, FinalsStep, PassesStep
  <2>2. EarlierIsRecent' /\ Revisited'
    BY <2>1, EarlierStep, RevisitedStep
  <2> QED
    BY <2>1, <2>2 DEF ProjectionIInv
<1>2. ProjectionIInv => ProjectionInv
  BY Constants DEF ProjectionIInv, ProjectionInv, Revisited, WrongIsRevisited, Covered, CoveredBy
<1> QED
  BY <1>1, <1>2, ProjectionInitially, PTL DEF ProjectionSpec

\* A job that was pruned, or deleted with its session, gets no further row,
\* whatever projection was under way (ownsRuntimeJobProjection).
THEOREM NoRowLater == ProjectionSpec => NoRowAfterJob
<1>1. [ProjectionNext]_projectionVars => (durable = "gone" => shown' = shown)
  BY DEF ProjectionNext, AppendStatus, Owns, AppendFails, ClaimJob, RunMoves, RunIsOver,
    WorkerDies, CancelJob, QueueTimeout, RemoveJob, CompletePass, TouchedPass, PassBegins,
    RecoverJob, LookAtJob, PassIsOver, ReadFails, ProjTick, projectionVars
<1> QED
  BY <1>1, PTL DEF ProjectionSpec, NoRowAfterJob
=============================================================================
