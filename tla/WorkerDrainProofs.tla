------------------------- MODULE WorkerDrainProofs -------------------------
(***************************************************************************)
(* The drain loop for every set of jobs, every limit and every             *)
(* environment: the limit is kept (DrainInv), and no wake-up is lost       *)
(* (WakeupsKept). Liveness (QueuedIsTaken, CloseEnds) stays with TLC.      *)
(***************************************************************************)
EXTENDS WorkerDrain, FiniteSetTheorems, TLAPS

-----------------------------------------------------------------------------
(* Flags *)

BoolsOK == {fullScan, wakeReq, scheduled, due, full, maintained, failed, closed} \subseteq BOOLEAN

LEMMA InitBools ==
  ASSUME Init
  PROVE  BoolsOK
BY Zenon DEF Init, BoolsOK

LEMMA BoolsStep ==
  ASSUME BoolsOK, [Next]_vars
  PROVE  BoolsOK'
<1> USE DEF BoolsOK
<1>1. ASSUME NEW j \in Jobs, Enqueue(j) \/ Provide(j) \/ Cancel(j) \/ QueueDeadlinePasses(j)
               \/ Steal(j) \/ OtherEnds(j) \/ Settles(j)
      PROVE  BoolsOK'
  BY <1>1, Zenon DEF Enqueue, Provide, Cancel, QueueDeadlinePasses, Steal, OtherEnds, Settles,
    wakeVars, passVars
<1>2. ASSUME NEW j \in Jobs, Tell(j) \/ RunEnds(j)
      PROVE  BoolsOK'
  BY <1>2, Zenon DEF Tell, RunEnds, RunEndWakes, Wake, Schedule, wakeVars, passVars
<1>3. CASE MaintenanceFallsDue \/ Close
  BY <1>3, Zenon DEF MaintenanceFallsDue, Close, wakeVars, passVars
<1>4. CASE TimerFires
  BY <1>4, Zenon DEF TimerFires, Schedule, wakeVars, passVars
<1>5. CASE PassStarts \/ Recover \/ Reconcile \/ List
  BY <1>5, Zenon DEF PassStarts, Recover, Reconcile, List, wakeVars, passVars
<1>6. CASE Loop
  BY <1>6, Zenon DEF Loop, Defer, wakeVars, passVars
<1>7. ASSUME NEW s \in Sessions, Visit(s)
      PROVE  BoolsOK'
  BY <1>7, Zenon DEF Visit, wakeVars, passVars
<1>8. ASSUME NEW j \in Jobs, Try(j)
      PROVE  BoolsOK'
  BY <1>8, Zenon DEF Try, wakeVars, passVars
<1>9. CASE NothingClaimed \/ ReconcileTouched
  BY <1>9, Zenon DEF NothingClaimed, ReconcileTouched, wakeVars, passVars
<1>10. CASE PassFails
  BY <1>10, Zenon DEF PassFails, ScanAll, wakeVars, passVars
<1>11. CASE PassEnds
  BY <1>11, Zenon DEF PassEnds, wakeVars, passVars
<1>12. CASE UNCHANGED vars
  BY <1>12, Zenon DEF vars, wakeVars, passVars
<1> QED
  BY <1>1, <1>2, <1>3, <1>4, <1>5, <1>6, <1>7, <1>8, <1>9, <1>10, <1>11, <1>12, Zenon
  DEF Next, PassStep

-----------------------------------------------------------------------------
(* Types *)

PlainTypes ==
  /\ env \in Environments
  /\ row \in [Jobs -> {"absent", "queued", "mine", "theirs", "lapsed", "done"}]
  /\ ready \subseteq Jobs /\ late \subseteq Jobs /\ active \subseteq Jobs
  /\ hints \subseteq Sessions /\ scope \subseteq Sessions /\ sess \subseteq Sessions
  /\ snap \subseteq Jobs /\ todo \subseteq Jobs /\ owed \cup told \subseteq Jobs
  /\ timer \in {"none", "maintenance", "retry"}
  /\ pc \in {"idle", "recover", "reconcile", "list", "loop", "visit", "touched", "end"}
  /\ fails \in 0..env.maxFails

LEMMA TypeParts == TypeOK <=> PlainTypes /\ BoolsOK
BY Zenon DEF TypeOK, PlainTypes, BoolsOK

LEMMA MaxFailsIsNat ==
  ASSUME env \in Environments
  PROVE  env.maxFails \in Nat
BY DrainAssumption

LEMMA InitTypes ==
  ASSUME Init
  PROVE  PlainTypes
BY DrainAssumption, MaxFailsIsNat DEF Init, PlainTypes

LEMMA TypesStep ==
  ASSUME PlainTypes, [Next]_vars
  PROVE  PlainTypes'
<1> USE DEF PlainTypes
<1>0. \A j \in Jobs : SessionOf[j] \in Sessions
  BY DrainAssumption
<1>1. ASSUME NEW j \in Jobs, Enqueue(j) \/ Provide(j) \/ Cancel(j) \/ QueueDeadlinePasses(j)
               \/ Steal(j) \/ OtherEnds(j)
      PROVE  PlainTypes'
  BY <1>1 DEF Enqueue, Provide, Cancel, QueueDeadlinePasses, Steal, OtherEnds,
    wakeVars, passVars
<1>2. ASSUME NEW j \in Jobs, Tell(j) \/ RunEnds(j)
      PROVE  PlainTypes'
  BY <1>0, <1>2 DEF Tell, RunEnds, RunEndWakes, Wake, Schedule, wakeVars, passVars
<1>3. CASE MaintenanceFallsDue \/ Close
  BY <1>3 DEF MaintenanceFallsDue, Close, wakeVars, passVars
<1>4. CASE TimerFires
  BY <1>4 DEF TimerFires, Schedule, wakeVars, passVars
<1>5. CASE PassStarts \/ Recover \/ Reconcile \/ List
  BY <1>5 DEF PassStarts, Recover, Reconcile, List, QueuedJobs, wakeVars, passVars
<1>6. CASE Loop
  BY <1>0, <1>6 DEF Loop, Defer, wakeVars, passVars
<1>7. ASSUME NEW s \in Sessions, Visit(s)
      PROVE  PlainTypes'
  BY <1>7 DEF Visit, QueuedJobs, wakeVars, passVars
<1>8. ASSUME NEW j \in Jobs, Try(j)
      PROVE  PlainTypes'
  BY <1>8 DEF Try, wakeVars, passVars
<1>9. CASE NothingClaimed \/ ReconcileTouched
  BY <1>9 DEF NothingClaimed, ReconcileTouched, wakeVars, passVars
<1>10. CASE PassFails
  BY <1>10, MaxFailsIsNat DEF PassFails, wakeVars, passVars
<1>11. CASE PassEnds
  BY <1>11 DEF PassEnds, LeftForNext, wakeVars, passVars
<1>12. ASSUME NEW j \in Jobs, Settles(j)
       PROVE  PlainTypes'
  BY <1>12, MaxFailsIsNat DEF Settles, wakeVars, passVars
<1>13. CASE UNCHANGED vars
  BY <1>13 DEF vars, wakeVars, passVars
<1> QED
  BY <1>1, <1>2, <1>3, <1>4, <1>5, <1>6, <1>7, <1>8, <1>9, <1>10, <1>11, <1>12, <1>13
  DEF Next, PassStep

-----------------------------------------------------------------------------
(* Capacity *)

\* The run a pass is about to start still fits, since nothing is added to
\* active between the head of the loop and the claim.
IInv ==
  /\ TypeOK
  /\ CapacityKept
  /\ IsFiniteSet(active)
  /\ pc = "visit" => Room

LEMMA InitCapacity ==
  ASSUME Init
  PROVE  IInv
<1>1. TypeOK
  BY InitBools, InitTypes, TypeParts
<1>2. IsFiniteSet(active) /\ Cardinality(active) = 0
  BY FS_EmptySet DEF Init
<1> QED
  BY <1>1, <1>2, DrainAssumption DEF Init, IInv, CapacityKept

\* What an action that starts and ends no run has to show.
LEMMA SameRuns ==
  ASSUME IInv, TypeOK', active' = active,
         \A j \in Jobs : row'[j] = "mine" => row[j] = "mine",
         pc' = "visit" => pc = "visit" \/ Room
  PROVE  IInv'
BY DEF IInv, CapacityKept, Room

LEMMA ClaimKeepsCapacity ==
  ASSUME IInv, TypeOK', NEW j \in Jobs, Try(j)
  PROVE  IInv'
<1>1. CASE active' = active
  BY <1>1, SameRuns DEF Try, IInv, TypeOK, CapacityKept
<1>2. CASE active' # active
  <2>1. /\ active' = active \cup {j} /\ ~KeyActive(j)
        /\ row' = [row EXCEPT ![j] = "mine"] /\ pc' = "loop" /\ pc = "visit"
    BY <1>2 DEF Try
  <2>2. j \notin active /\ active \subseteq Jobs
    BY <2>1 DEF KeyActive, IInv, TypeOK
  <2>3. IsFiniteSet(active') /\ Cardinality(active') = Cardinality(active) + 1
    BY <2>1, <2>2, FS_AddElement DEF IInv
  <2>4. Cardinality(active') <= Concurrency
    BY <2>1, <2>3, FS_CardinalityType, DrainAssumption DEF IInv, Room
  <2>5. \A i, k \in active' : RuntimeOf[i] = RuntimeOf[k] => i = k
    BY <2>1 DEF KeyActive, IInv, CapacityKept
  <2>6. \A k \in Jobs : row'[k] = "mine" => k \in active'
    BY <2>1 DEF IInv, CapacityKept, TypeOK
  <2> QED
    BY <2>1, <2>3, <2>4, <2>5, <2>6 DEF IInv, CapacityKept
<1> QED
  BY <1>1, <1>2

LEMMA EndKeepsCapacity ==
  ASSUME IInv, TypeOK', NEW j \in Jobs, RunEnds(j)
  PROVE  IInv'
<1>1. j \in active /\ row[j] # "mine" /\ row' = row /\ active' = active \ {j} /\ pc' = pc
  BY DEF RunEnds, passVars
<1>2. IsFiniteSet(active') /\ Cardinality(active') = Cardinality(active) - 1
  BY <1>1, FS_RemoveElement DEF IInv
<1>3. Cardinality(active) \in Nat
  BY FS_CardinalityType DEF IInv
<1> QED
  BY <1>1, <1>2, <1>3, DrainAssumption DEF IInv, CapacityKept, Room

LEMMA CapacityStep ==
  ASSUME IInv, [Next]_vars
  PROVE  IInv'
<1>0. TypeOK /\ TypeOK'
  <2>1. TypeOK
    BY DEF IInv
  <2>2. PlainTypes' /\ BoolsOK'
    BY <2>1, BoolsStep, TypesStep, TypeParts
  <2> QED
    BY <2>1, <2>2, Zenon DEF TypeOK, PlainTypes, BoolsOK
<1> USE <1>0
<1>1. ASSUME NEW j \in Jobs, Enqueue(j) \/ Provide(j) \/ Cancel(j) \/ QueueDeadlinePasses(j)
               \/ Steal(j) \/ OtherEnds(j) \/ Settles(j) \/ Tell(j)
      PROVE  IInv'
  <2>1. active' = active /\ pc' = pc
    BY <1>1 DEF Enqueue, Provide, Cancel, QueueDeadlinePasses, Steal, OtherEnds, Settles, Tell,
      passVars
  <2>2. \A k \in Jobs : row'[k] = "mine" => row[k] = "mine"
    BY <1>1 DEF Enqueue, Provide, Cancel, QueueDeadlinePasses, Steal, OtherEnds, Settles, Tell,
      TypeOK
  <2> QED
    BY <2>1, <2>2, SameRuns
<1>2. ASSUME NEW j \in Jobs, RunEnds(j)
      PROVE  IInv'
  BY <1>2, EndKeepsCapacity
<1>3. CASE MaintenanceFallsDue \/ Close \/ TimerFires
  BY <1>3, SameRuns DEF MaintenanceFallsDue, Close, TimerFires, passVars
<1>4. CASE PassStarts \/ Recover \/ Reconcile \/ List
  BY <1>4, SameRuns DEF PassStarts, Recover, Reconcile, List
<1>5. CASE Loop
  BY <1>5, SameRuns DEF Loop
<1>6. ASSUME NEW s \in Sessions, Visit(s)
      PROVE  IInv'
  BY <1>6, SameRuns DEF Visit
<1>7. ASSUME NEW j \in Jobs, Try(j)
      PROVE  IInv'
  BY <1>7, ClaimKeepsCapacity
<1>8. CASE NothingClaimed \/ ReconcileTouched \/ PassFails \/ PassEnds
  BY <1>8, SameRuns DEF NothingClaimed, ReconcileTouched, PassFails, PassEnds
<1>9. CASE UNCHANGED vars
  BY <1>9, SameRuns DEF vars, passVars
<1> QED
  BY <1>1, <1>2, <1>3, <1>4, <1>5, <1>6, <1>7, <1>8, <1>9 DEF Next, PassStep

\* Whatever ends or starts during a pass, activeCount keeps below the limit, no
\* runtime has two runs, and a row this worker has claimed has a run (drain,
\* runOne of runtime-job-worker.ts).
THEOREM Drain == Spec => []DrainInv
<1>1. Init => IInv
  BY InitCapacity
<1>2. IInv /\ [Next]_vars => IInv'
  BY CapacityStep
<1>3. IInv => DrainInv
  BY DEF IInv, DrainInv
<1> QED
  BY <1>1, <1>2, <1>3, PTL DEF Spec

-----------------------------------------------------------------------------
(* Wake-ups *)

\* What the next pass has in its scope.
Remembered(j) == fullScan \/ SessionOf[j] \in hints

\* A pass with j in its scope is certain to follow without waiting for
\* maintenance.
Awaited(j) ==
  /\ Remembered(j)
  /\ \/ scheduled
     \/ pc # "idle" /\ wakeReq
     \/ pc = "end" /\ failed
     \/ timer = "retry"

InScope(j) == IF full THEN j \in snap ELSE SessionOf[j] \in scope

\* What the present pass has yet to do about j, or why it need not.
Attended(j) ==
  /\ pc = "reconcile" => j \in snap
  /\ pc = "loop" => InScope(j) \/ (~full /\ ~Claimable(j))
  /\ pc = "visit" =>
       \/ /\ InScope(j)
          /\ \/ SessionOf[j] \in sess
             \/ j \in todo
             \/ /\ \A k \in todo : RuntimeOf[k] = RuntimeOf[j] => j < k
                /\ ~Claimable(j)
       \/ ~full /\ ~InScope(j) /\ ~Claimable(j)
  /\ pc \in {"touched", "end", "idle"} /\ Claimable(j) => ~Room /\ Remembered(j)

\* A pass and a timer are never pending together, and neither during a pass.
OnePending ==
  /\ scheduled => pc = "idle" /\ timer = "none"
  /\ pc # "idle" => timer = "none"

\* Without a snapshot a pass claims in its scope only.
ScopeKept ==
  /\ pc = "list" => full
  /\ pc = "visit" /\ ~full => sess \subseteq scope /\ \A k \in todo : SessionOf[k] \in scope

NoneForgotten ==
  ~closed => \A j \in told : row[j] = "queued" => Awaited(j) \/ Attended(j)

WakeInv ==
  /\ OnePending
  /\ ScopeKept
  /\ \A j \in told : row[j] # "absent"
  /\ NoneForgotten

LEMMA InitWake ==
  ASSUME Init
  PROVE  WakeInv
BY DEF Init, WakeInv, OnePending, ScopeKept, NoneForgotten

-----------------------------------------------------------------------------
(* Wakes *)

\* A wake brings a pass for every job that is remembered after it.
LEMMA ScheduleAwaits ==
  ASSUME ~closed, Schedule, pc' = pc, NEW j, Remembered(j)'
  PROVE  Awaited(j)'
BY Zenon DEF Schedule, Awaited

LEMMA WakeRemembers ==
  ASSUME ~closed, NEW s, Wake(s), NEW j, Remembered(j) \/ SessionOf[j] = s
  PROVE  Remembered(j)'
BY Zenon DEF Wake, Remembered

LEMMA SchedulePending ==
  ASSUME OnePending, Schedule, pc' = pc
  PROVE  OnePending'
BY DEF OnePending, Schedule

\* What an action that only wakes the worker, or lets a run end, has to show.
LEMMA Woken ==
  ASSUME WakeInv, Schedule, passVars' = passVars, closed' = closed,
         \A j \in told' : row'[j] = "queued" /\ ~Remembered(j)' =>
           j \in told /\ row[j] = "queued" /\ ~Remembered(j) /\ (Claimable(j)' => Claimable(j))
  PROVE  NoneForgotten'
<1> SUFFICES ASSUME ~closed', NEW j \in told', row'[j] = "queued"
             PROVE  Awaited(j)' \/ Attended(j)'
  BY DEF NoneForgotten
<1>1. CASE Remembered(j)'
  BY <1>1, ScheduleAwaits DEF passVars
<1>2. CASE ~Remembered(j)'
  <2>1. Attended(j) /\ ~Remembered(j) /\ (Claimable(j)' => Claimable(j))
    BY <1>2 DEF WakeInv, NoneForgotten, Awaited
  <2>2. /\ pc' = pc /\ full' = full /\ scope' = scope /\ snap' = snap /\ sess' = sess
        /\ todo' = todo
    BY DEF passVars
  <2> QED
    BY <2>1, <2>2, Zenon DEF Attended, InScope
<1> QED
  BY <1>1, <1>2

\* What an action that touches neither the pass nor the wakes has to show.
LEMMA Undisturbed ==
  ASSUME WakeInv, UNCHANGED <<wakeVars, passVars, active, closed>>,
         ~closed => \A j \in told' : row'[j] = "queued" =>
           j \in told /\ row[j] = "queued" /\ (Claimable(j)' => Claimable(j))
  PROVE  OnePending' /\ ScopeKept' /\ NoneForgotten'
<1>1. OnePending' /\ ScopeKept'
  BY DEF WakeInv, OnePending, ScopeKept, wakeVars, passVars
<1>2. SUFFICES ASSUME ~closed', NEW j \in told', row'[j] = "queued"
               PROVE  Awaited(j)' \/ Attended(j)'
  BY <1>1 DEF NoneForgotten
<1>3. (Awaited(j) \/ Attended(j)) /\ (Claimable(j)' => Claimable(j))
  BY <1>2 DEF WakeInv, NoneForgotten
<1>4. Remembered(j)' = Remembered(j) /\ Room' = Room
  BY DEF Remembered, Room, wakeVars
<1>5. CASE Awaited(j)
  BY <1>4, <1>5, Zenon DEF Awaited, wakeVars, passVars
<1>6. CASE Attended(j)
  BY <1>3, <1>4, <1>6, Zenon DEF Attended, InScope, wakeVars, passVars
<1> QED
  BY <1>3, <1>5, <1>6

-----------------------------------------------------------------------------
(* Requests, time, other processes and runs *)

LEMMA RequestsKeepWakes ==
  ASSUME IInv, WakeInv, NEW j \in Jobs,
         Enqueue(j) \/ Provide(j) \/ Cancel(j) \/ QueueDeadlinePasses(j)
  PROVE  WakeInv'
<1>1. UNCHANGED <<wakeVars, passVars, active, closed>>
  BY DEF Enqueue, Provide, Cancel, QueueDeadlinePasses
<1>2. \A i \in told' : i \in told /\ i \in Jobs
  BY DEF Enqueue, Provide, Cancel, QueueDeadlinePasses, IInv, TypeOK
<1>3. \A i \in told' : row'[i] # "absent" /\ (row'[i] = "queued" => row[i] = "queued")
  BY <1>2 DEF Enqueue, Provide, Cancel, QueueDeadlinePasses, IInv, TypeOK, WakeInv
<1>4. ASSUME NEW i \in told', Claimable(i)'
      PROVE  Claimable(i)
  <2>1. row'[i] = "queued" /\ i \in ready' /\ (\A k \in Before(i) : row'[k] = "done")
        /\ ~KeyActive(i)
    BY <1>1, <1>4 DEF Claimable, First, Before, SameRuntime, KeyActive
  <2>2. i \in ready
    BY <1>2, <2>1 DEF Enqueue, Provide, Cancel, QueueDeadlinePasses
  <2>3. ASSUME NEW k \in Before(i)
        PROVE  row[k] = "done"
    BY <1>2, <2>1 DEF Enqueue, Provide, Cancel, QueueDeadlinePasses, IInv, TypeOK, Before,
      SameRuntime
  <2> QED
    BY <1>2, <1>3, <2>1, <2>2, <2>3 DEF Claimable, First
<1> QED
  BY <1>1, <1>2, <1>3, <1>4, Undisturbed DEF WakeInv

LEMMA OthersKeepWakes ==
  ASSUME IInv, WakeInv, NEW j \in Jobs, Steal(j) \/ OtherEnds(j)
  PROVE  WakeInv'
<1>1. UNCHANGED <<wakeVars, passVars, active, closed>>
  BY DEF Steal, OtherEnds
<1>2. \A i \in told' : i \in told /\ i \in Jobs
  BY DEF Steal, OtherEnds, IInv, TypeOK
<1>3. \A i \in told' : row'[i] # "absent" /\ (row'[i] = "queued" => row[i] = "queued")
  BY <1>2 DEF Steal, OtherEnds, IInv, TypeOK, WakeInv
<1>4. ASSUME NEW i \in told', Claimable(i)'
      PROVE  Claimable(i)
  <2>1. row'[i] = "queued" /\ i \in ready /\ (\A k \in Before(i) : row'[k] = "done")
        /\ ~KeyActive(i)
    BY <1>1, <1>4 DEF Claimable, First, Before, SameRuntime, KeyActive, Steal, OtherEnds
  <2>2. ASSUME NEW k \in Before(i)
        PROVE  row[k] = "done"
    BY <1>2, <2>1 DEF Steal, OtherEnds, IInv, TypeOK, Before, SameRuntime
  <2> QED
    BY <1>2, <1>3, <2>1, <2>2 DEF Claimable, First
<1> QED
  BY <1>1, <1>2, <1>3, <1>4, Undisturbed DEF WakeInv

\* A run whose row is settled still keeps the jobs behind it back.
LEMMA SettlingKeepsWakes ==
  ASSUME IInv, WakeInv, NEW j \in Jobs, Settles(j)
  PROVE  WakeInv'
<1>1. UNCHANGED <<wakeVars, passVars, active, closed>> /\ told' = told /\ ready' = ready
  BY DEF Settles
<1>2. \A i \in told : i \in Jobs
  BY DEF IInv, TypeOK
<1>3. \A i \in told' : row'[i] # "absent" /\ (~closed /\ row'[i] = "queued" => row[i] = "queued")
  BY <1>1, <1>2 DEF Settles, IInv, TypeOK, WakeInv
<1>4. ASSUME NEW i \in told', Claimable(i)', ~closed
      PROVE  Claimable(i)
  <2>1. row'[i] = "queued" /\ i \in ready /\ (\A k \in Before(i) : row'[k] = "done")
        /\ ~KeyActive(i)
    BY <1>1, <1>4 DEF Claimable, First, Before, SameRuntime, KeyActive
  <2>2. ASSUME NEW k \in Before(i)
        PROVE  row[k] = "done"
    BY <1>1, <1>2, <2>1 DEF Settles, IInv, TypeOK, Before, SameRuntime, KeyActive
  <2> QED
    BY <1>1, <1>2, <1>3, <1>4, <2>1, <2>2 DEF Claimable, First
<1> QED
  BY <1>1, <1>2, <1>3, <1>4, Undisturbed DEF WakeInv

LEMMA TellKeepsWakes ==
  ASSUME IInv, WakeInv, NEW j \in Jobs, Tell(j)
  PROVE  WakeInv'
<1>1. /\ Schedule /\ passVars' = passVars /\ closed' = closed /\ row' = row
      /\ ready' = ready /\ active' = active /\ told' = told \cup {j} /\ row[j] = "queued"
      /\ (~closed => hints' = hints \cup {SessionOf[j]}) /\ fullScan' = fullScan
  BY DEF Tell, Wake
<1>2. \A i \in told' : row'[i] # "absent"
  BY <1>1 DEF WakeInv
<1>3. OnePending' /\ ScopeKept'
  BY <1>1, SchedulePending DEF WakeInv, ScopeKept, passVars
<1>4. ASSUME ~closed, NEW i \in told', ~Remembered(i)'
      PROVE  i \in told /\ ~Remembered(i)
  BY <1>1, <1>4 DEF Remembered
<1>5. \A i : Claimable(i)' => Claimable(i)
  BY <1>1 DEF Claimable, First, Before, SameRuntime, KeyActive
<1>6. CASE ~closed
  BY <1>1, <1>2, <1>3, <1>4, <1>5, <1>6, Woken DEF WakeInv
<1>7. CASE closed
  BY <1>1, <1>2, <1>3, <1>7 DEF WakeInv, NoneForgotten
<1> QED
  BY <1>6, <1>7

\* A run that ends wakes the worker for the only session with jobs behind it.
LEMMA EndingKeepsWakes ==
  ASSUME IInv, WakeInv, NEW j \in Jobs, RunEnds(j)
  PROVE  WakeInv'
<1>1. /\ Schedule /\ passVars' = passVars /\ closed' = closed /\ row' = row
      /\ ready' = ready /\ active' = active \ {j} /\ told' = told
      /\ (~closed => hints' = hints \cup {SessionOf[j]}) /\ fullScan' = fullScan
  BY DEF RunEnds, RunEndWakes, Wake
<1>2. \A i \in told' : row'[i] # "absent" /\ i \in Jobs
  BY <1>1 DEF WakeInv, IInv, TypeOK
<1>3. OnePending' /\ ScopeKept'
  BY <1>1, SchedulePending DEF WakeInv, ScopeKept, passVars
<1>4. ASSUME ~closed, NEW i \in told', ~Remembered(i)'
      PROVE  ~Remembered(i) /\ (Claimable(i)' => Claimable(i))
  <2>1. ~Remembered(i) /\ SessionOf[i] # SessionOf[j]
    BY <1>1, <1>4 DEF Remembered
  <2>2. RuntimeOf[i] # RuntimeOf[j]
    BY <1>2, <2>1, DrainAssumption
  <2>3. KeyActive(i) <=> KeyActive(i)'
    BY <1>1, <2>2 DEF KeyActive
  <2> QED
    BY <1>1, <2>1, <2>3 DEF Claimable, First, Before, SameRuntime
<1>5. CASE ~closed
  BY <1>1, <1>2, <1>3, <1>4, <1>5, Woken DEF WakeInv
<1>6. CASE closed
  BY <1>1, <1>2, <1>3, <1>6 DEF WakeInv, NoneForgotten
<1> QED
  BY <1>5, <1>6

LEMMA ClockKeepsWakes ==
  ASSUME WakeInv, MaintenanceFallsDue \/ TimerFires \/ Close
  PROVE  WakeInv'
<1>0. \A i : Claimable(i)' <=> Claimable(i)
  BY DEF MaintenanceFallsDue, TimerFires, Close, Claimable, First, Before, SameRuntime, KeyActive
<1>1. CASE MaintenanceFallsDue
  BY <1>0, <1>1, Undisturbed DEF MaintenanceFallsDue, WakeInv
<1>2. CASE TimerFires
  <2>1. /\ Schedule /\ passVars' = passVars /\ closed' = closed /\ row' = row /\ told' = told
        /\ hints' = hints /\ fullScan' = fullScan
    BY <1>2 DEF TimerFires
  <2>2. OnePending' /\ ScopeKept'
    BY <2>1, SchedulePending DEF WakeInv, ScopeKept, passVars
  <2>3. \A i : Remembered(i)' <=> Remembered(i)
    BY <2>1 DEF Remembered
  <2> QED
    BY <1>0, <2>1, <2>2, <2>3, Woken DEF WakeInv
<1>3. CASE Close
  BY <1>3 DEF Close, WakeInv, OnePending, ScopeKept, NoneForgotten, wakeVars, passVars
<1> QED
  BY <1>1, <1>2, <1>3

-----------------------------------------------------------------------------
(* The pass *)

LEMMA StartKeepsWakes ==
  ASSUME WakeInv, PassStarts
  PROVE  WakeInv'
<1>1. OnePending' /\ ScopeKept'
  BY DEF WakeInv, OnePending, ScopeKept, PassStarts
<1>2. SUFFICES ASSUME ~closed, NEW j \in told, row[j] = "queued"
               PROVE  Attended(j)'
  BY <1>1 DEF PassStarts, WakeInv, NoneForgotten
<1>3. pc = "idle" /\ (Remembered(j) \/ ~Claimable(j))
  BY <1>2 DEF PassStarts, WakeInv, OnePending, NoneForgotten, Awaited, Attended
<1>4. Claimable(j)' <=> Claimable(j)
  BY DEF PassStarts, Claimable, First, Before, SameRuntime, KeyActive
<1> QED
  BY <1>3, <1>4 DEF PassStarts, Attended, Remembered, InScope

LEMMA ReadingKeepsWakes ==
  ASSUME IInv, WakeInv, Recover \/ Reconcile \/ List
  PROVE  WakeInv'
<1>1. OnePending' /\ ScopeKept'
  BY DEF WakeInv, OnePending, ScopeKept, Recover, Reconcile, List, wakeVars
<1>2. /\ told' = told /\ closed' = closed /\ wakeVars' = wakeVars /\ pc # "idle" /\ pc' # "idle"
      /\ pc # "end"
  BY DEF Recover, Reconcile, List
<1>3. \A j \in told : row'[j] # "absent" /\ (row'[j] = "queued" => row[j] = "queued")
  BY DEF Recover, Reconcile, List, WakeInv, IInv, TypeOK
<1>4. ASSUME ~closed, NEW j \in told, row'[j] = "queued"
      PROVE  Awaited(j)' \/ Attended(j)'
  <2>1. CASE Awaited(j)
    BY <1>2, <2>1 DEF Awaited, Remembered, wakeVars
  <2>2. CASE Recover \/ List
    BY <1>2, <1>3, <1>4, <2>2 DEF Recover, List, Attended, QueuedJobs, IInv, TypeOK, InScope,
      WakeInv, ScopeKept
  <2>3. CASE Reconcile /\ Attended(j)
    BY <2>3 DEF Reconcile, Attended, InScope
  <2> QED
    BY <1>3, <1>4, <2>1, <2>2, <2>3 DEF WakeInv, NoneForgotten
<1> QED
  BY <1>1, <1>2, <1>3, <1>4 DEF WakeInv, NoneForgotten

\* A pass without room leaves its scope to the run that ends next.
LEMMA LoopKeepsWakes ==
  ASSUME IInv, WakeInv, Loop
  PROVE  WakeInv'
<1>1. OnePending' /\ ScopeKept'
  BY DEF WakeInv, OnePending, ScopeKept, Loop
<1>2. /\ told' = told /\ row' = row /\ closed' = closed /\ pc = "loop"
  BY DEF Loop
<1>3. ASSUME ~closed, NEW j \in told, row[j] = "queued"
      PROVE  Awaited(j)' \/ Attended(j)'
  <2>1. CASE Awaited(j)
    BY <1>3, <2>1 DEF Loop, Halted, Defer, Awaited, Remembered
  <2>2. CASE Attended(j)
    <3>1. Claimable(j)' <=> Claimable(j)
      BY DEF Loop, Claimable, First, Before, SameRuntime, KeyActive
    <3>2. InScope(j) \/ (~full /\ ~Claimable(j))
      BY <1>2, <2>2 DEF Attended
    <3>3. CASE ~Room
      BY <1>2, <1>3, <3>1, <3>2, <3>3 DEF Loop, Halted, Defer, Attended, InScope, Remembered, Room
    <3>4. CASE Room
      BY <1>2, <1>3, <3>1, <3>2, <3>4, DrainAssumption DEF Loop, Halted, Attended, InScope
    <3> QED
      BY <3>3, <3>4
  <2> QED
    BY <1>3, <2>1, <2>2 DEF WakeInv, NoneForgotten
<1> QED
  BY <1>1, <1>2, <1>3 DEF WakeInv, NoneForgotten

LEMMA VisitKeepsWakes ==
  ASSUME IInv, WakeInv, NEW s \in Sessions, Visit(s)
  PROVE  WakeInv'
<1>1. OnePending' /\ ScopeKept'
  BY DEF WakeInv, OnePending, ScopeKept, Visit, wakeVars
<1>2. /\ told' = told /\ row' = row /\ closed' = closed /\ pc = "visit" /\ pc' = "visit"
      /\ wakeVars' = wakeVars
  BY DEF Visit
<1>3. ASSUME ~closed, NEW j \in told, row[j] = "queued"
      PROVE  Awaited(j)' \/ Attended(j)'
  <2>1. CASE Awaited(j)
    BY <1>2, <2>1 DEF Awaited, Remembered, wakeVars
  <2>2. CASE Attended(j)
    <3>1. Claimable(j)' <=> Claimable(j)
      BY DEF Visit, Claimable, First, Before, SameRuntime, KeyActive
    <3>2. j \in Jobs /\ (InScope(j) => (full => j \in snap)) /\ (InScope(j)' <=> InScope(j))
      BY DEF IInv, TypeOK, InScope, Visit
    <3>3. CASE SessionOf[j] = s /\ InScope(j)
      BY <1>2, <1>3, <3>2, <3>3 DEF Visit, QueuedJobs, Attended
    <3>4. CASE SessionOf[j] # s /\ InScope(j)
      <4>1. SessionOf[j] \in sess \/ ~Claimable(j)
        BY <1>2, <2>2, <3>2, <3>4 DEF Attended, Visit
      <4>2. \A k \in todo' : RuntimeOf[k] # RuntimeOf[j]
        BY <3>2, <3>4, DrainAssumption DEF Visit, IInv, TypeOK, QueuedJobs
      <4> QED
        BY <1>2, <3>1, <3>2, <3>4, <4>1, <4>2 DEF Attended, Visit
    <3>5. CASE ~InScope(j)
      BY <1>2, <2>2, <3>1, <3>2, <3>5 DEF Attended, Visit
    <3> QED
      BY <3>3, <3>4, <3>5
  <2> QED
    BY <1>3, <2>1, <2>2 DEF WakeInv, NoneForgotten
<1> QED
  BY <1>1, <1>2, <1>3 DEF WakeInv, NoneForgotten

\* Candidates are tried in queueing order: one that times out frees only
\* candidates that are still to be tried.
LEMMA TryKeepsWakes ==
  ASSUME IInv, WakeInv, NEW j \in Jobs, Try(j)
  PROVE  WakeInv'
<1>0. todo \subseteq Jobs /\ Jobs \subseteq Nat /\ told \subseteq Jobs
  BY DrainAssumption DEF IInv, TypeOK
<1>1. OnePending' /\ ScopeKept'
  BY <1>0 DEF WakeInv, OnePending, ScopeKept, Try, wakeVars
<1>2. /\ told' = told /\ closed' = closed /\ pc = "visit" /\ pc' \in {"visit", "loop"}
      /\ wakeVars' = wakeVars /\ j \in todo /\ (\A k \in todo : j <= k) /\ todo' = todo \ {j}
      /\ UNCHANGED <<ready, full, scope, snap, sess>>
  BY DEF Try
<1>3. /\ \A i \in Jobs : i # j => row'[i] = row[i]
      /\ active \subseteq active' /\ active' \subseteq active \cup {j}
      /\ Claimable(j) => row'[j] \in {"mine", "done"}
      /\ ~Claimable(j) => row' = row /\ active' = active /\ pc' = "visit"
      /\ pc' = "visit" => active' = active
  BY DEF Try, IInv, TypeOK, Claimable
<1>4. ~Claimable(j)'
  <2>1. CASE Claimable(j)
    BY <1>3, <2>1 DEF Claimable
  <2>2. CASE ~Claimable(j)
    BY <1>2, <1>3, <2>2 DEF Claimable, First, Before, SameRuntime, KeyActive
  <2> QED
    BY <2>1, <2>2
\* Only a job behind j of its runtime is freed.
<1>5. ASSUME NEW i \in Jobs, ~Claimable(i), RuntimeOf[i] # RuntimeOf[j] \/ i < j
      PROVE  ~Claimable(i)'
  <2>1. i # j /\ row'[i] = row[i]
    BY <1>0, <1>3, <1>5
  <2>2. \A k \in Before(i) : k # j /\ row'[k] = row[k]
    BY <1>0, <1>3, <1>5 DEF Before, SameRuntime
  <2>3. KeyActive(i) => KeyActive(i)'
    BY <1>3 DEF KeyActive
  <2>4. First(i)' <=> First(i)
    BY <2>2 DEF First, Before, SameRuntime
  <2> QED
    BY <1>2, <1>5, <2>1, <2>3, <2>4 DEF Claimable
<1>6. ASSUME ~closed, NEW i \in told, row'[i] = "queued"
      PROVE  Awaited(i)' \/ Attended(i)'
  <2>0. i \in Jobs /\ row[i] = "queued"
    BY <1>0, <1>3, <1>6
  <2>1. CASE Awaited(i)
    BY <1>2, <2>1 DEF Awaited, Remembered, wakeVars
  <2>2. CASE Attended(i) /\ InScope(i)
    <3>1. InScope(i)'
      BY <1>2, <2>2 DEF InScope
    <3>2. CASE SessionOf[i] \in sess
      BY <1>2, <3>1, <3>2 DEF Attended
    <3>3. CASE i \in todo
      BY <1>0, <1>2, <1>4, <3>1, <3>3 DEF Attended
    <3>4. CASE /\ \A k \in todo : RuntimeOf[k] = RuntimeOf[i] => i < k
               /\ ~Claimable(i)
      BY <1>2, <1>5, <2>0, <3>1, <3>4 DEF Attended
    <3> QED
      BY <1>2, <2>2, <3>2, <3>3, <3>4 DEF Attended
  <2>3. CASE Attended(i) /\ ~InScope(i)
    <3>1. ~full /\ ~Claimable(i) /\ ~InScope(i)' /\ ~full'
      BY <1>2, <2>3 DEF Attended, InScope
    <3>2. RuntimeOf[i] # RuntimeOf[j]
      BY <1>0, <1>2, <2>0, <2>3, <3>1, DrainAssumption DEF InScope, WakeInv, ScopeKept
    <3> QED
      BY <1>2, <1>5, <2>0, <3>1, <3>2 DEF Attended
  <2> QED
    BY <1>6, <2>0, <2>1, <2>2, <2>3 DEF WakeInv, NoneForgotten
<1>7. \A i \in told : row'[i] # "absent"
  BY <1>0, <1>3 DEF WakeInv
<1> QED
  BY <1>1, <1>2, <1>6, <1>7 DEF WakeInv, NoneForgotten

LEMMA EndOfPassKeepsWakes ==
  ASSUME WakeInv, NothingClaimed \/ ReconcileTouched \/ PassEnds
  PROVE  WakeInv'
<1>1. OnePending' /\ ScopeKept'
  BY DEF WakeInv, OnePending, ScopeKept, NothingClaimed, ReconcileTouched, PassEnds, wakeVars
<1>2. UNCHANGED <<told, row, ready, active, closed, fullScan, hints>>
  BY DEF NothingClaimed, ReconcileTouched, PassEnds, LeftForNext, wakeVars
<1>3. ASSUME ~closed, NEW j \in told, row[j] = "queued"
      PROVE  Awaited(j)' \/ Attended(j)'
  <2>0. Remembered(j)' = Remembered(j) /\ Room' = Room /\ Claimable(j)' = Claimable(j)
    BY <1>2 DEF Remembered, Room, Claimable, First, Before, SameRuntime, KeyActive
  <2>1. CASE Awaited(j)
    BY <1>2, <1>3, <2>0, <2>1 DEF Awaited, NothingClaimed, ReconcileTouched, PassEnds, wakeVars,
      WakeInv, OnePending
  <2>2. CASE Attended(j)
    BY <1>2, <1>3, <2>0, <2>2 DEF Attended, NothingClaimed, ReconcileTouched, PassEnds, wakeVars
  <2> QED
    BY <1>3, <2>1, <2>2 DEF WakeInv, NoneForgotten
<1> QED
  BY <1>1, <1>2, <1>3 DEF WakeInv, NoneForgotten

\* A failed pass may have used up hints: the next one scans everything.
LEMMA FailureKeepsWakes ==
  ASSUME WakeInv, PassFails
  PROVE  WakeInv'
<1>1. OnePending' /\ ScopeKept'
  BY DEF WakeInv, OnePending, ScopeKept, PassFails
<1>2. \A j : Awaited(j)'
  BY DEF PassFails, ScanAll, Awaited, Remembered
<1> QED
  BY <1>1, <1>2 DEF PassFails, WakeInv, NoneForgotten

LEMMA WakeStep ==
  ASSUME IInv, WakeInv, [Next]_vars
  PROVE  WakeInv'
<1>1. CASE UNCHANGED vars
  <2>1. \A j : Claimable(j)' <=> Claimable(j)
    BY <1>1 DEF vars, Claimable, First, Before, SameRuntime, KeyActive
  <2> QED
    BY <1>1, <2>1, Undisturbed DEF WakeInv, vars
<1> QED
  BY <1>1, RequestsKeepWakes, OthersKeepWakes, SettlingKeepsWakes, TellKeepsWakes,
    EndingKeepsWakes, ClockKeepsWakes, StartKeepsWakes, ReadingKeepsWakes, LoopKeepsWakes,
    VisitKeepsWakes, TryKeepsWakes, EndOfPassKeepsWakes, FailureKeepsWakes
  DEF Next, PassStep

\* No wake-up is lost between a wake, the pass that runs and the run that ends:
\* at rest, what the worker was woken for and could claim waits for capacity,
\* in the scope of the next pass (wake, schedule, drain, drainScheduled).
THEOREM Wakeups == Spec => []WakeupsKept
<1>1. Init => IInv /\ WakeInv
  BY InitCapacity, InitWake
<1>2. IInv /\ WakeInv /\ [Next]_vars => (IInv /\ WakeInv)'
  BY CapacityStep, WakeStep
<1>3. IInv /\ WakeInv => WakeupsKept
  <2> SUFFICES ASSUME WakeInv, Resting, NEW j \in told, Claimable(j)
               PROVE  ~Room /\ Remembered(j)
    BY DEF WakeupsKept, Remembered
  <2>1. row[j] = "queued" /\ ~Awaited(j)
    BY DEF Claimable, Awaited, Resting
  <2> QED
    BY <2>1 DEF WakeInv, NoneForgotten, Attended, Resting
<1> QED
  BY <1>1, <1>2, <1>3, PTL DEF Spec
=============================================================================
