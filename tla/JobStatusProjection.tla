------------------------ MODULE JobStatusProjection ------------------------
(***************************************************************************)
(* What the player sees of a runtime job: the rows of the job-status       *)
(* channel, which project the durable job row (plugin-rpc/                 *)
(* runtime-job-worker.ts). Whoever changes the job projects it afterwards, *)
(* in a transaction of its own, with the record it has at hand; recovery   *)
(* and queue deadlines project nothing. The passes of the workers repair   *)
(* what is missing or wrong: complete ones look at the jobs that finished  *)
(* since the last complete one, and others at sessions whose run has       *)
(* ended.                                                                  *)
(*                                                                         *)
(* One job, whose life RuntimeJobs describes in detail; committing is part *)
(* of running here. Of its rows only the last matters.                     *)
(***************************************************************************)
EXTENDS Integers

CONSTANTS
  Workers,
  Sweepers,     \* those of them whose passes are looked at
  NoWorker,
  Overlap,      \* RECONCILE_OVERLAP_MS
  AppendTime,   \* how long a projection may take, after the change it shows
  MaxSkew,      \* how far clocks of processes are apart
  MaxTime,      \* bound: the clock
  MaxFaults     \* bound: failing calls and processes that die

ASSUME ProjectionAssumption ==
  /\ NoWorker \notin Workers /\ Sweepers \subseteq Workers
  /\ {Overlap, AppendTime, MaxSkew, MaxTime, MaxFaults} \subseteq Nat
  /\ AppendTime + MaxSkew <= Overlap

VARIABLES
  durable,    \* status of the job row, or "gone"
  doneAt,     \* finishedAt
  leaseOwner, \* the worker that has claimed it
  shown,      \* durableStatus of the last status row, or "none"
  appending,  \* a projection under way: what it will show, and since when
  runStage,   \* progress of the run of a worker
  touched,    \* touchedSessions: the workers with a hint for the session
  passStage,  \* progress of the pass of a worker
  complete,   \* the workers whose pass is a complete one
  seen,       \* the status in the list of the pass
  startedAt,  \* snapshotStartedAt
  through,    \* reconciledThrough
  projClock,
  faults

jobRowVars == <<durable, doneAt, leaseOwner>>
runStageVars == <<runStage, touched>>
passProjVars == <<passStage, complete, seen, startedAt, through>>
projectionVars == <<jobRowVars, shown, appending, runStageVars, passProjVars, projClock, faults>>

Finals == {"succeeded", "failed", "cancelled", "timed_out", "orphaned"}

RunOf(w) == <<"run", w>>
PassOf(w) == <<"pass", w>>
CancelRoute == <<"route", NoWorker>>
Writers == ({"run", "pass"} \X Workers) \cup {CancelRoute}

NoAppend == [status |-> "none", begun |-> 0]
Never == -1 - Overlap

\* The job has just been queued, with its first row.
ProjectionInit ==
  /\ durable = "queued" /\ doneAt = 0 /\ leaseOwner = NoWorker
  /\ shown = "queued"
  /\ appending = [a \in Writers |-> NoAppend]
  /\ runStage = [w \in Workers |-> "idle"]
  /\ touched = {}
  /\ passStage = [w \in Workers |-> "idle"]
  /\ complete = {}
  /\ seen = [w \in Workers |-> "none"]
  /\ startedAt = [w \in Workers |-> 0]
  /\ through = [w \in Workers |-> Never]
  /\ projClock = 0 /\ faults = 0

Faulty == faults < MaxFaults /\ faults' = faults + 1

Idle(a) == appending[a] = NoAppend

Will(a, status) == appending' = [appending EXCEPT ![a] = [status |-> status, begun |-> projClock]]

\* finishedAt is stamped by the process that ends the job.
Stamped(status) ==
  IF status \in Finals THEN doneAt' \in (projClock - MaxSkew)..(projClock + MaxSkew)
  ELSE UNCHANGED doneAt

\* A pass ends, and its locals with it.
Leave(w) ==
  /\ passStage' = [passStage EXCEPT ![w] = "idle"]
  /\ complete' = complete \ {w}
  /\ seen' = [seen EXCEPT ![w] = "none"]
  /\ startedAt' = [startedAt EXCEPT ![w] = 0]

-----------------------------------------------------------------------------
(* appendRuntimeJobStatus *)

\* Mutant: a projection does not look whether its job exists.
OwnsAlways == TRUE

\* ownsRuntimeJobProjection
Owns == durable # "gone"

AppendStatus(a) ==
  /\ ~Idle(a)
  /\ shown' = IF Owns THEN appending[a].status ELSE shown
  /\ appending' = [appending EXCEPT ![a] = NoAppend]
  /\ UNCHANGED <<jobRowVars, runStageVars, passProjVars, projClock, faults>>

\* A run whose projection throws fails, in its own catch it only ends; the
\* route answers with an error, and a pass ends without having been complete.
AppendFails(a) ==
  /\ ~Idle(a) /\ Faulty
  /\ appending' = [appending EXCEPT ![a] = NoAppend]
  /\ runStage' = [w \in Workers |->
       IF a = RunOf(w) /\ runStage[w] # "ending" THEN "failing" ELSE runStage[w]]
  /\ \/ \E w \in Workers : a = PassOf(w) /\ Leave(w)
     \/ (\A w \in Workers : a # PassOf(w)) /\ UNCHANGED <<passStage, complete, seen, startedAt>>
  /\ UNCHANGED <<jobRowVars, shown, touched, through, projClock>>

-----------------------------------------------------------------------------
(* Runs *)

ClaimJob(w) ==
  /\ runStage[w] = "idle" /\ durable = "queued"
  /\ durable' = "claimed" /\ leaseOwner' = w
  /\ runStage' = [runStage EXCEPT ![w] = "claimed"]
  /\ Will(RunOf(w), "claimed")
  /\ UNCHANGED <<doneAt, shown, touched, passProjVars, projClock, faults>>

\* What a run makes of its job next: it goes on, returns, throws, or the worker
\* is closed.
NextStatus(at) ==
  CASE at = "claimed" -> {"running", "failed", "queued"}
    [] at = "running" -> {"succeeded", "failed", "queued"}
    [] at = "failing" -> {"failed"}

RunMoves(w) ==
  /\ runStage[w] \in {"claimed", "running", "failing"} /\ Idle(RunOf(w))
  /\ \E s \in NextStatus(runStage[w]) :
       IF durable \in {"claimed", "running"} /\ leaseOwner = w
       THEN /\ durable' = s /\ Stamped(s)
            /\ leaseOwner' = IF s = "running" THEN w ELSE NoWorker
            /\ Will(RunOf(w), s)
            /\ runStage' = [runStage EXCEPT ![w] = IF s = "running" THEN s ELSE "ending"]
       ELSE /\ runStage' = [runStage EXCEPT ![w] = "ending"]
            /\ UNCHANGED <<jobRowVars, appending>>
  /\ UNCHANGED <<shown, touched, passProjVars, projClock, faults>>

\* The finally of runOne.
RunIsOver(w) ==
  /\ runStage[w] = "ending" /\ Idle(RunOf(w))
  /\ runStage' = [runStage EXCEPT ![w] = "idle"]
  /\ touched' = touched \cup ({w} \cap Sweepers)
  /\ UNCHANGED <<jobRowVars, shown, appending, passProjVars, projClock, faults>>

CancelJob ==
  /\ durable \in {"queued", "claimed", "running"} /\ Idle(CancelRoute)
  /\ durable' = "cancelled" /\ Stamped("cancelled") /\ leaseOwner' = NoWorker
  /\ Will(CancelRoute, "cancelled")
  /\ UNCHANGED <<shown, runStageVars, passProjVars, projClock, faults>>

\* A claim finds the queue deadline passed.
QueueTimeout ==
  /\ durable = "queued"
  /\ durable' = "timed_out" /\ Stamped("timed_out")
  /\ UNCHANGED <<leaseOwner, shown, appending, runStageVars, passProjVars, projClock, faults>>

\* pruneTerminalRuntimeJobs, or the deletion of the session.
RemoveJob ==
  /\ durable # "gone"
  /\ durable' = "gone" /\ leaseOwner' = NoWorker /\ shown' = "none"
  /\ UNCHANGED <<doneAt, appending, runStageVars, passProjVars, projClock, faults>>

-----------------------------------------------------------------------------
(* reconcileTerminalJobs *)

PassBegins(w, to) ==
  /\ passStage[w] = "idle"
  /\ passStage' = [passStage EXCEPT ![w] = to]
  /\ seen' = [seen EXCEPT ![w] = durable]
  /\ UNCHANGED <<jobRowVars, shown, appending, runStage, through, projClock, faults>>

CompletePass(w) ==
  /\ PassBegins(w, "recover")
  /\ complete' = complete \cup {w}
  /\ startedAt' = [startedAt EXCEPT ![w] = projClock]
  /\ UNCHANGED touched

TouchedPass(w) ==
  /\ w \in touched
  /\ PassBegins(w, "look")
  /\ complete' = complete \ {w}
  /\ touched' = touched \ {w}
  /\ UNCHANGED startedAt

\* recoverExpiredRuntimeJobs: any lease and any deadline may have run out. It
\* changes only what is as it was listed, and the list with it.
RecoverJob(w) ==
  /\ passStage[w] = "recover"
  /\ passStage' = [passStage EXCEPT ![w] = "look"]
  /\ \/ UNCHANGED <<jobRowVars, seen>>
     \/ \E s \in {"timed_out", "orphaned"} :
          /\ seen[w] \in (IF s = "orphaned" THEN {"claimed", "running"} ELSE {"queued"})
          /\ durable = seen[w]
          /\ durable' = s /\ Stamped(s) /\ leaseOwner' = NoWorker
          /\ seen' = [seen EXCEPT ![w] = s]
  /\ UNCHANGED <<shown, appending, runStageVars, complete, startedAt, through, projClock, faults>>

\* Mutant: no margin for what was still under way in the last pass.
SinceExactly(from) == from

Since(from) == from - Overlap

\* One finished job of the list: is its last row what it should be?
LookAtJob(w) ==
  /\ passStage[w] = "look"
  /\ passStage' = [passStage EXCEPT ![w] = "end"]
  /\ IF seen[w] \in Finals /\ doneAt >= Since(through[w]) /\ shown # seen[w]
     THEN Will(PassOf(w), seen[w]) ELSE UNCHANGED appending
  /\ UNCHANGED <<jobRowVars, shown, runStageVars, complete, seen, startedAt, through, projClock,
                 faults>>

\* Mutant: a complete pass covers the time up to its end.
CoveredToEnd(w) == projClock

CoveredBy(w) == startedAt[w]

PassIsOver(w) ==
  /\ passStage[w] = "end" /\ Idle(PassOf(w))
  /\ Leave(w)
  /\ through' = IF w \in complete THEN [through EXCEPT ![w] = CoveredBy(w)] ELSE through
  /\ UNCHANGED <<jobRowVars, shown, appending, runStageVars, projClock, faults>>

ReadFails(w) ==
  /\ passStage[w] \in {"recover", "look"} /\ Faulty
  /\ Leave(w)
  /\ UNCHANGED <<jobRowVars, shown, appending, runStageVars, through, projClock>>

-----------------------------------------------------------------------------
\* The process of a worker dies, and a new one starts in its place.
WorkerDies(w) ==
  /\ Faulty
  /\ runStage' = [runStage EXCEPT ![w] = "idle"]
  /\ Leave(w)
  /\ appending' = [appending EXCEPT ![RunOf(w)] = NoAppend, ![PassOf(w)] = NoAppend]
  /\ touched' = touched \ {w}
  /\ through' = [through EXCEPT ![w] = Never]
  /\ leaseOwner' = IF leaseOwner = w THEN NoWorker ELSE leaseOwner
  /\ UNCHANGED <<durable, doneAt, shown, projClock>>

\* A projection follows its change within AppendTime.
ProjTick ==
  /\ projClock < MaxTime
  /\ \A a \in Writers : ~Idle(a) => projClock < appending[a].begun + AppendTime
  /\ projClock' = projClock + 1
  /\ UNCHANGED <<jobRowVars, shown, appending, runStageVars, passProjVars, faults>>

ProjectionNext ==
  \/ \E a \in Writers : AppendStatus(a) \/ AppendFails(a)
  \/ \E w \in Workers : ClaimJob(w) \/ RunMoves(w) \/ RunIsOver(w) \/ WorkerDies(w)
  \/ CancelJob \/ QueueTimeout \/ RemoveJob
  \/ \E w \in Sweepers : CompletePass(w) \/ TouchedPass(w) \/ RecoverJob(w) \/ LookAtJob(w)
  \/ \E w \in Sweepers : PassIsOver(w) \/ ReadFails(w)
  \/ ProjTick

ProjectionSpec == ProjectionInit /\ [][ProjectionNext]_projectionVars

-----------------------------------------------------------------------------
(* Properties *)

Statuses == {"queued", "claimed", "running", "gone", "none"} \cup Finals

ProjectionTypeOK ==
  /\ durable \in Statuses /\ shown \in Statuses
  /\ doneAt \in -MaxSkew..(MaxTime + MaxSkew)
  /\ leaseOwner \in Workers \cup {NoWorker}
  /\ appending \in [Writers -> [status : Statuses, begun : 0..MaxTime]]
  /\ runStage \in [Workers -> {"idle", "claimed", "running", "failing", "ending"}]
  /\ touched \subseteq Workers /\ complete \subseteq Workers
  /\ passStage \in [Workers -> {"idle", "recover", "look", "end"}]
  /\ seen \in [Workers -> Statuses]
  /\ startedAt \in [Workers -> 0..MaxTime]
  /\ through \in [Workers -> {Never} \cup 0..MaxTime]
  /\ projClock \in 0..MaxTime /\ faults \in 0..MaxFaults

\* What a complete pass of w covers, if it has already looked at the job.
Covered(w) == IF w \in complete /\ passStage[w] = "end" THEN CoveredBy(w) ELSE through[w]

\* A finished job whose last row is missing or shows an earlier status is one
\* that every worker's next complete pass looks at (RECONCILE_OVERLAP_MS), or
\* has listed as finished and is about to project.
WrongIsRevisited ==
  durable \in Finals /\ shown # durable =>
    \A w \in Sweepers :
      \/ doneAt >= Since(Covered(w))
      \/ appending[PassOf(w)].status = durable

ProjectionInv == ProjectionTypeOK /\ WrongIsRevisited

\* A job that is gone, with its session or pruned, gets no further row
\* (ownsRuntimeJobProjection).
NoRowAfterJob == [][durable = "gone" => shown' = shown]_projectionVars
=============================================================================
