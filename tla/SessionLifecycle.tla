-------------------------- MODULE SessionLifecycle --------------------------
(***************************************************************************)
(* The life of one session id: creation, status changes, deletion and      *)
(* creation again (session.ts, session/delete-route.ts,                    *)
(* session/lifecycle.ts, session/locked-mutation.ts), with the background  *)
(* runs that go on meanwhile (plugin-rpc/runtime-turn.ts).                 *)
(*                                                                         *)
(* What a request does under the session lock is one step; SessionLock and *)
(* PgSessionLock are about the lock. Hooks run between such steps, and a   *)
(* deletion is three of them. A request is its own nonce: the creation     *)
(* names the incarnation, the deletion its generation, and the request     *)
(* whose hook runs the lifecycle operation.                                *)
(***************************************************************************)
EXTENDS Naturals

CONSTANTS
  Creates,
  Patches,
  PatchTo,     \* the status a PATCH asks for
  Deletes,
  Runs,        \* background jobs, each of a runtime of its own
  None,
  MaxTrouble   \* bound: failing writes and locks, and requests that die

ASSUME LifecycleAssumption ==
  /\ PatchTo \in [Patches -> {"active", "paused", "ended"}]
  /\ None \notin Creates \cup Patches \cup Deletes
  /\ Creates \cap Patches = {} /\ (Creates \cup Patches) \cap Deletes = {}
  /\ MaxTrouble \in {0, 1, 2, 3}

VARIABLES
  session,   \* the session row, or None
  req,       \* progress of a request
  saw,       \* the incarnation it was made for
  plan,      \* what a deletion has prepared
  run,       \* progress of a background job
  runInc,    \* the incarnation that queued it, while it is not over
  trouble,   \* how many failures there were
  signals,   \* history: the requests that have run SessionEnd
  recorded,  \* history: the incarnations with deletionEndHookFiredNonce
  over       \* history: the incarnations that have been ended

lifecycleVars == <<session, req, saw, plan, run, runInc, trouble, signals, recorded, over>>

Requests == Creates \cup Patches \cup Deletes

NoPlan == [ended |-> FALSE, hook |-> FALSE, drain |-> {}]

LifecycleInit ==
  /\ session = None
  /\ req = [r \in Requests |-> "idle"]
  /\ saw = [r \in Requests |-> None]
  /\ plan = [d \in Deletes |-> NoPlan]
  /\ run = [j \in Runs |-> "idle"]
  /\ runInc = [j \in Runs |-> None]
  /\ trouble = 0
  /\ signals = {} /\ recorded = {} /\ over = {}

historyVars == <<signals, recorded, over>>
runVars == <<run, runInc>>

Goes(r, to) == req' = [req EXCEPT ![r] = to]

\* The plan of a deletion is gone with its call.
Drops(r) == plan' = [d \in Deletes |-> IF d = r THEN NoPlan ELSE plan[d]]

Fails == trouble < MaxTrouble /\ trouble' = trouble + 1

-----------------------------------------------------------------------------
(* Creation *)

New(r) ==
  [inc |-> r, status |-> "active", life |-> r, lifeFresh |-> TRUE, pend |-> None,
   pendFresh |-> FALSE, retry |-> None, fired |-> None, data |-> {}]

\* commitCreation. A failure leaves nothing, or a row whose SessionStart never
\* runs, or skips the hook.
Create(r) ==
  /\ req[r] = "idle"
  /\ saw' = [saw EXCEPT ![r] = r]
  /\ \/ session # None /\ Goes(r, "done") /\ UNCHANGED <<session, trouble>>
     \/ session = None /\ session' = New(r) /\ Goes(r, "hook") /\ UNCHANGED trouble
     \/ session = None /\ Fails /\ Goes(r, "done") /\ session' \in {None, New(r)}
     \/ session = None /\ Fails /\ Goes(r, "clearing") /\ session' = New(r)
  /\ UNCHANGED <<plan, runVars, historyVars>>

HookEnds(r) ==
  /\ req[r] = "hook"
  /\ Goes(r, "clearing")
  /\ UNCHANGED <<session, saw, plan, runVars, trouble, historyVars>>

\* clearLifecycleMarker
ClearMarker(r) ==
  /\ req[r] = "clearing"
  /\ Goes(r, "done")
  /\ \/ /\ session' = IF session # None /\ session.inc = saw[r] /\ session.life = r
                      THEN [session EXCEPT !.life = None, !.lifeFresh = FALSE] ELSE session
        /\ UNCHANGED trouble
     \/ Fails /\ UNCHANGED session
  /\ UNCHANGED <<saw, plan, runVars, historyVars>>

-----------------------------------------------------------------------------
(* Requests for a session *)

\* resolveSessionById, before the lock: what the request is about.
Resolve(r) ==
  /\ req[r] = "idle" /\ session # None
  /\ saw' = [saw EXCEPT ![r] = session.inc]
  /\ Goes(r, "resolved")
  /\ UNCHANGED <<session, plan, runVars, trouble, historyVars>>

\* Mutant: a locked read does not compare incarnations.
LockedReadById(r) == session # None /\ session.pend = None

\* Mutant: a locked read accepts a session that is being deleted.
LockedReadDeleting(r) == session # None /\ session.inc = saw[r]

\* readLockedSession: the row is still what the request is about.
LockedRead(r) == session # None /\ session.inc = saw[r] /\ session.pend = None

HookBusy == session.life # None /\ session.lifeFresh

Patch(r) ==
  /\ req[r] = "resolved"
  /\ LET to == PatchTo[r]
         refused == \/ ~LockedRead(r)
                    \/ session.status = "ended" /\ to # "ended"
                    \/ session.status # to /\ HookBusy
         ends == to = "ended" /\ session.status # "ended"
     IN  IF refused
         THEN Goes(r, "done") /\ UNCHANGED <<session, signals, over>>
         ELSE IF ends
         THEN /\ session' = [session EXCEPT !.status = to, !.life = r, !.lifeFresh = TRUE]
              /\ Goes(r, "hook")
              /\ signals' = signals \cup {r} /\ over' = over \cup {saw[r]}
         ELSE /\ session' = [session EXCEPT !.status = to]
              /\ Goes(r, "done")
              /\ UNCHANGED <<signals, over>>
  /\ UNCHANGED <<saw, plan, runVars, trouble, recorded>>

-----------------------------------------------------------------------------
(* Deletion *)

\* Mutant: a deletion waits for no background run.
BacklogIgnored == {}

\* backgroundLocksForSession: the runtimes with unfinished jobs.
Backlog == {j \in Runs : run[j] \in {"queued", "running"} /\ runInc[j] = session.inc}

\* A deletion that failed, or whose lease has run out, can be taken over.
Retryable == session.pend # None /\ (session.retry = session.pend \/ ~session.pendFresh)

\* Mutant: a deletion that takes over forgets that SessionEnd has run.
SkipEndNever == FALSE

SkipEnd == Retryable /\ session.fired = session.pend

\* Mutant: what is left of an earlier deletion stays.
KeptControl == session.retry

\* withoutDeletionControl
ClearedControl == None

Prepare(d) ==
  /\ req[d] = "resolved"
  /\ IF \/ session = None \/ session.inc # saw[d]
        \/ session.pend # None /\ ~Retryable
        \/ HookBusy
     THEN Goes(d, "done") /\ UNCHANGED <<session, plan, trouble>>
     ELSE \/ Fails /\ Goes(d, "done") /\ UNCHANGED <<session, plan>>
          \/ /\ plan' = [plan EXCEPT ![d] =
                  [ended |-> session.status = "ended",
                   hook  |-> session.status # "ended" /\ ~SkipEnd,
                   drain |-> Backlog]]
             /\ session' = [session EXCEPT
                  !.status = IF @ = "ended" THEN "ended" ELSE "paused",
                  !.life = None, !.lifeFresh = FALSE, !.pend = d, !.pendFresh = TRUE,
                  !.retry = ClearedControl,
                  !.fired = IF SkipEnd THEN d ELSE None]
             /\ Goes(d, "prepared")
             /\ UNCHANGED trouble
  /\ UNCHANGED <<saw, runVars, historyVars>>

\* The row is still under this generation of deletion.
Mine(d) == session # None /\ session.inc = saw[d] /\ session.pend = d

\* The locks of all runtimes in the backlog, then that of the session; SessionEnd
\* begins as they are released.
Drain(d) ==
  /\ req[d] = "prepared"
  /\ \A j \in plan[d].drain : run[j] # "running"
  /\ IF Mine(d)
     THEN /\ Goes(d, "hooked")
          /\ signals' = IF plan[d].hook THEN signals \cup {d} ELSE signals
     ELSE Goes(d, "done") /\ UNCHANGED signals
  /\ IF Mine(d) THEN plan' = [plan EXCEPT ![d].drain = {}] ELSE Drops(d)
  /\ UNCHANGED <<session, saw, runVars, trouble, recorded, over>>

DrainFails(d) ==
  /\ req[d] = "prepared" /\ Fails
  /\ Goes(d, "failed") /\ Drops(d)
  /\ UNCHANGED <<session, saw, runVars, historyVars>>

\* The hook has run: this generation of SessionEnd is noted, then the row goes.
Ended(d) ==
  IF plan[d].ended THEN session ELSE [session EXCEPT !.fired = d]

Noted(d) == recorded' = IF plan[d].ended THEN recorded ELSE recorded \cup {saw[d]}

Retried(d, row) == [row EXCEPT !.status = "paused", !.retry = d]

Finish(d) ==
  /\ req[d] = "hooked"
  /\ IF ~Mine(d) THEN Goes(d, "done") /\ UNCHANGED <<session, trouble, recorded>>
     ELSE \/ session' = None /\ Goes(d, "done") /\ Noted(d) /\ UNCHANGED trouble
          \/ Fails /\ Goes(d, "failed") /\ UNCHANGED <<session, recorded>>
          \/ /\ Fails /\ Goes(d, "failed") /\ Noted(d)
             /\ session' \in {Ended(d), Retried(d, Ended(d))}
  /\ Drops(d)
  /\ UNCHANGED <<saw, runVars, signals, over>>

\* markDeletionRetryable; its own failure is only logged.
MarkRetryable(d) ==
  /\ req[d] = "failed"
  /\ Goes(d, "done")
  /\ \/ session' = (IF Mine(d) THEN Retried(d, session) ELSE session) /\ UNCHANGED trouble
     \/ Fails /\ UNCHANGED session
  /\ UNCHANGED <<saw, plan, runVars, historyVars>>

-----------------------------------------------------------------------------
(* Background runs *)

\* A turn of the session queues the job.
Queue(j) ==
  /\ run[j] = "idle"
  /\ session # None /\ session.pend = None /\ session.status = "active"
  /\ run' = [run EXCEPT ![j] = "queued"]
  /\ runInc' = [runInc EXCEPT ![j] = session.inc]
  /\ UNCHANGED <<session, req, saw, plan, trouble, historyVars>>

\* requireLiveApprovedSession, and the check before a commit.
Live(j) == session # None /\ session.status = "active" /\ session.inc = runInc[j]

Start(j) ==
  /\ run[j] = "queued"
  /\ run' = [run EXCEPT ![j] = IF Live(j) THEN "running" ELSE "over"]
  /\ runInc' = [runInc EXCEPT ![j] = IF Live(j) THEN @ ELSE None]
  /\ UNCHANGED <<session, req, saw, plan, trouble, historyVars>>

Commit(j) ==
  /\ run[j] = "running"
  /\ run' = [run EXCEPT ![j] = "over"]
  /\ session' = IF Live(j) THEN [session EXCEPT !.data = @ \cup {j}] ELSE session
  /\ runInc' = [runInc EXCEPT ![j] = None]
  /\ UNCHANGED <<req, saw, plan, trouble, historyVars>>

-----------------------------------------------------------------------------
(* Time, and processes that die *)

LeaseRunsOut ==
  /\ session # None
  /\ \/ session.pend # None /\ session.pendFresh
        /\ session' = [session EXCEPT !.pendFresh = FALSE]
     \/ session.life # None /\ session.lifeFresh
        /\ session' = [session EXCEPT !.lifeFresh = FALSE]
  /\ UNCHANGED <<req, saw, plan, runVars, trouble, historyVars>>

Die(r) ==
  /\ req[r] \notin {"idle", "done"} /\ Fails
  /\ Goes(r, "done") /\ Drops(r)
  /\ UNCHANGED <<session, saw, runVars, historyVars>>

LifecycleNext ==
  \/ \E r \in Creates : Create(r)
  \/ \E r \in Creates \cup Patches : HookEnds(r) \/ ClearMarker(r)
  \/ \E r \in Patches \cup Deletes : Resolve(r)
  \/ \E r \in Patches : Patch(r)
  \/ \E d \in Deletes : Prepare(d) \/ Drain(d) \/ DrainFails(d) \/ Finish(d) \/ MarkRetryable(d)
  \/ \E j \in Runs : Queue(j) \/ Start(j) \/ Commit(j)
  \/ \E r \in Requests : Die(r)
  \/ LeaseRunsOut

LifecycleSpec == LifecycleInit /\ [][LifecycleNext]_lifecycleVars

-----------------------------------------------------------------------------
(* Properties *)

Rows ==
  [inc : Creates, status : {"active", "paused", "ended"}, life : Creates \cup Patches \cup {None},
   lifeFresh : BOOLEAN, pend : Deletes \cup {None}, pendFresh : BOOLEAN,
   retry : Deletes \cup {None}, fired : Deletes \cup {None}, data : SUBSET Runs]

ASSUME NoneIsNoRow == None \notin Rows

LifecycleTypeOK ==
  /\ session \in Rows \cup {None}
  /\ req \in [Requests -> {"idle", "hook", "clearing", "resolved", "prepared", "hooked",
                           "failed", "done"}]
  /\ saw \in [Requests -> Creates \cup {None}]
  /\ plan \in [Deletes -> [ended : BOOLEAN, hook : BOOLEAN, drain : SUBSET Runs]]
  /\ run \in [Runs -> {"idle", "queued", "running", "over"}]
  /\ runInc \in [Runs -> Creates \cup {None}]
  /\ trouble \in 0..MaxTrouble
  /\ signals \subseteq Requests /\ recorded \subseteq Creates /\ over \subseteq Creates

\* The marks of a deletion (delete-route.ts) are always those of the generation
\* in charge, and a session with one is not active.
MarksAgree ==
  session # None =>
    /\ {session.retry, session.fired} \subseteq {None, session.pend}
    /\ session.pend # None => session.status # "active"

\* An ended session never becomes active again, also when a failed deletion has
\* made it a paused one (markDeletionRetryable, "Ended sessions cannot be
\* reactivated").
EndedStaysClosed == session # None /\ session.inc \in over => session.status # "active"

LifecycleInv == LifecycleTypeOK /\ MarksAgree /\ EndedStaysClosed

\* A request or run that was made for an incarnation never changes the row of
\* another one with the same id (session_incarnation_changed).
OwnIncarnationOnly ==
  [][session # None /\ session' # session =>
       /\ \A r \in Requests : req'[r] # req[r] => saw[r] = session.inc
       /\ \A j \in Runs : run'[j] # run[j] => runInc[j] = session.inc]_lifecycleVars

\* A deletion runs SessionEnd, and removes the row, when no background run of
\* the session is still at work (backgroundLocksForSession, completeDeletion);
\* once one has noted that SessionEnd ran, none that takes over runs it again
\* (deletionEndHookFiredNonce), whatever failed in between.
EndsOnce ==
  [][\A d \in Deletes :
       LET ends == d \in signals' \ signals
           removes == req'[d] # req[d] /\ session # None /\ session' = None
       IN /\ ends \/ removes => \A j \in Runs : run[j] = "running" => runInc[j] # saw[d]
          /\ ends => saw[d] \notin recorded]_lifecycleVars

\* A session that has run SessionEnd because it was ended does not run it again
\* when it is deleted.
SingleEndSignal ==
  \A p \in Patches, d \in Deletes : {p, d} \subseteq signals => saw[p] # saw[d]
=============================================================================
