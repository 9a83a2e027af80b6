----------------------- MODULE SessionLifecycleProofs -----------------------
(***************************************************************************)
(* The life of a session id, for any requests, background jobs and         *)
(* failures: marks agree and an ended session stays closed (LifecycleInv), *)
(* nothing is done to another incarnation (OwnIncarnationOnly), and        *)
(* SessionEnd runs when no background run is at work and not again once    *)
(* that is noted (EndsOnce).                                               *)
(***************************************************************************)
EXTENDS SessionLifecycle, TLAPS

\* An incarnation that exists, was ended or noted has been created: its id is
\* not given again.
CreatedOnce ==
  /\ session # None => req[session.inc] # "idle"
  /\ \A r \in over \cup recorded : req[r] # "idle"

\* A session that was ended is ended, or being deleted.
EndedOrDeleted ==
  session # None /\ session.inc \in over => session.status = "ended" \/ session.pend # None

\* Once it is noted that SessionEnd ran, the row says so until it is gone.
NotedOnRow ==
  session # None /\ session.inc \in recorded => session.pend # None /\ session.fired = session.pend

\* A deletion that has prepared waits for all runs that could be at work.
DrainCovers ==
  \A d \in Deletes : req[d] = "prepared" /\ Mine(d) =>
    /\ \A j \in Runs : run[j] \in {"queued", "running"} /\ runInc[j] = saw[d] => j \in plan[d].drain
    /\ plan[d].hook => saw[d] \notin recorded

\* After that, none is at work and none starts.
NothingRuns ==
  \A d \in Deletes : req[d] = "hooked" /\ Mine(d) =>
    \A j \in Runs : run[j] = "running" => runInc[j] # saw[d]

LifecycleIInv ==
  /\ LifecycleTypeOK /\ MarksAgree
  /\ CreatedOnce /\ EndedOrDeleted /\ NotedOnRow /\ DrainCovers /\ NothingRuns

LEMMA LifecycleInitially == LifecycleInit => LifecycleIInv
BY LifecycleAssumption DEF LifecycleInit, LifecycleIInv, LifecycleTypeOK, MarksAgree, CreatedOnce, EndedOrDeleted,
   NotedOnRow, DrainCovers, NothingRuns, Requests, NoPlan, Mine

-----------------------------------------------------------------------------
\* The two action properties, for one step.
OwnStep ==
  session # None /\ session' # session =>
    /\ \A r \in Requests : req'[r] # req[r] => saw[r] = session.inc
    /\ \A j \in Runs : run'[j] # run[j] => runInc[j] = session.inc

EndStep ==
  \A d \in Deletes :
    LET ends == d \in signals' \ signals
        removes == req'[d] # req[d] /\ session # None /\ session' = None
    IN /\ ends \/ removes => \A j \in Runs : run[j] = "running" => runInc[j] # saw[d]
       /\ ends => saw[d] \notin recorded

\* What the writes of the code leave of a row.
LEMMA RowRetried ==
  ASSUME NEW x \in Rows, NEW d \in Deletes
  PROVE  LET y == [x EXCEPT !.status = "paused", !.retry = d]
         IN  /\ y \in Rows /\ y.inc = x.inc /\ y.pend = x.pend
             /\ y.retry = d /\ y.fired = x.fired /\ y.status = "paused"
BY DEF Rows

LEMMA RowNoted ==
  ASSUME NEW x \in Rows, NEW d \in Deletes
  PROVE  LET y == [x EXCEPT !.fired = d]
         IN  /\ y \in Rows /\ y.inc = x.inc /\ y.pend = x.pend
             /\ y.retry = x.retry /\ y.fired = d /\ y.status = x.status
BY DEF Rows

LEMMA CreateStep ==
  ASSUME LifecycleIInv, NEW r \in Creates, Create(r)
  PROVE  LifecycleIInv' /\ OwnStep /\ EndStep
<1>1. New(r) \in Rows /\ New(r).inc = r /\ New(r).status = "active" /\ New(r).pend = None
        /\ New(r).retry = None /\ New(r).fired = None
  BY DEF New, Rows
<1>2. /\ session' \in Rows \cup {None}
      /\ session' = session \/ (session = None /\ session' = New(r))
  BY <1>1 DEF LifecycleIInv, LifecycleTypeOK, Create
<1>3. trouble' \in 0..MaxTrouble
  BY LifecycleAssumption DEF LifecycleIInv, LifecycleTypeOK, Requests, Create, Fails
<1>4. LifecycleTypeOK'
  <2>1. req' \in [Requests -> {"idle", "hook", "clearing", "resolved", "prepared", "hooked", "failed", "done"}]
    BY DEF LifecycleIInv, LifecycleTypeOK, Requests, Create, Goes
  <2>2. saw' \in [Requests -> Creates \cup {None}]
    BY DEF LifecycleIInv, LifecycleTypeOK, Requests, Create
  <2> QED BY <1>2, <1>3, <2>1, <2>2 DEF LifecycleIInv, LifecycleTypeOK, Requests, Create, runVars, historyVars
<1>5. MarksAgree'
  BY LifecycleAssumption, NoneIsNoRow, <1>1, <1>2 DEF LifecycleIInv, LifecycleTypeOK, Requests, MarksAgree, Create, Goes, runVars, historyVars
<1>6. CreatedOnce'
  BY LifecycleAssumption, NoneIsNoRow, <1>1, <1>2 DEF LifecycleIInv, LifecycleTypeOK, Requests, CreatedOnce, Rows, Create, Goes, runVars, historyVars
<1>7. EndedOrDeleted'
  BY LifecycleAssumption, NoneIsNoRow, <1>1, <1>2 DEF LifecycleIInv, LifecycleTypeOK, Requests, CreatedOnce, EndedOrDeleted, MarksAgree, Create, Goes, runVars, historyVars
<1>8. NotedOnRow'
  BY LifecycleAssumption, NoneIsNoRow, <1>1, <1>2 DEF LifecycleIInv, LifecycleTypeOK, Requests, CreatedOnce, NotedOnRow, MarksAgree, Create, Goes, runVars, historyVars
<1>9. DrainCovers'
  BY LifecycleAssumption, NoneIsNoRow, <1>1, <1>2 DEF LifecycleIInv, LifecycleTypeOK, Requests, Mine, DrainCovers, MarksAgree, CreatedOnce, NotedOnRow, Create, Goes, runVars, historyVars
<1>10. NothingRuns'
  BY LifecycleAssumption, NoneIsNoRow, <1>1, <1>2 DEF LifecycleIInv, LifecycleTypeOK, Requests, Mine, NothingRuns, DrainCovers, MarksAgree, Create, Goes, runVars, historyVars
<1>11. OwnStep
  BY LifecycleAssumption, NoneIsNoRow, <1>1, <1>2 DEF LifecycleIInv, LifecycleTypeOK, Requests, OwnStep, Create, Goes, runVars, historyVars
<1>12. EndStep
  BY LifecycleAssumption, NoneIsNoRow, <1>1, <1>2 DEF LifecycleIInv, LifecycleTypeOK, Requests, EndStep, DrainCovers, NothingRuns, Create, Goes, runVars, historyVars
<1> QED BY <1>4, <1>5, <1>6, <1>7, <1>8, <1>9, <1>10, <1>11, <1>12 DEF LifecycleIInv

LEMMA HookEndsStep ==
  ASSUME LifecycleIInv, NEW r \in Creates \cup Patches, HookEnds(r)
  PROVE  LifecycleIInv' /\ OwnStep /\ EndStep
<1>1. LifecycleTypeOK'
  BY LifecycleAssumption, NoneIsNoRow DEF LifecycleIInv, LifecycleTypeOK, Requests, HookEnds, Goes, runVars, historyVars, Rows
<1>2. MarksAgree'
  BY LifecycleAssumption, NoneIsNoRow DEF LifecycleIInv, LifecycleTypeOK, Requests, HookEnds, Goes, runVars, historyVars, Rows, MarksAgree
<1>3. CreatedOnce'
  BY LifecycleAssumption, NoneIsNoRow DEF LifecycleIInv, LifecycleTypeOK, Requests, HookEnds, Goes, runVars, historyVars, Rows, CreatedOnce
<1>4. EndedOrDeleted'
  BY LifecycleAssumption, NoneIsNoRow DEF LifecycleIInv, LifecycleTypeOK, Requests, HookEnds, Goes, runVars, historyVars, Rows, CreatedOnce, EndedOrDeleted, MarksAgree
<1>5. NotedOnRow'
  BY LifecycleAssumption, NoneIsNoRow DEF LifecycleIInv, LifecycleTypeOK, Requests, HookEnds, Goes, runVars, historyVars, Rows, CreatedOnce, NotedOnRow, MarksAgree
<1>6. DrainCovers'
  BY LifecycleAssumption, NoneIsNoRow DEF LifecycleIInv, LifecycleTypeOK, Requests, HookEnds, Goes, runVars, historyVars, Rows, Mine, DrainCovers, MarksAgree, CreatedOnce, NotedOnRow
<1>7. NothingRuns'
  BY LifecycleAssumption, NoneIsNoRow DEF LifecycleIInv, LifecycleTypeOK, Requests, HookEnds, Goes, runVars, historyVars, Rows, Mine, NothingRuns, DrainCovers, MarksAgree
<1>8. OwnStep
  BY LifecycleAssumption, NoneIsNoRow DEF LifecycleIInv, LifecycleTypeOK, Requests, HookEnds, Goes, runVars, historyVars, Rows, OwnStep
<1>9. EndStep
  BY LifecycleAssumption, NoneIsNoRow DEF LifecycleIInv, LifecycleTypeOK, Requests, HookEnds, Goes, runVars, historyVars, Rows, EndStep, DrainCovers, NothingRuns
<1> QED BY <1>1, <1>2, <1>3, <1>4, <1>5, <1>6, <1>7, <1>8, <1>9 DEF LifecycleIInv

LEMMA ClearMarkerStep ==
  ASSUME LifecycleIInv, NEW r \in Creates \cup Patches, ClearMarker(r)
  PROVE  LifecycleIInv' /\ OwnStep /\ EndStep
<1>1. \/ session' = session
      \/ /\ session # None /\ session.inc = saw[r]
         /\ session' = [session EXCEPT !.life = None, !.lifeFresh = FALSE]
  BY DEF ClearMarker
<1>2. \/ session' = session
      \/ /\ session \in Rows /\ session' \in Rows /\ session # None /\ session.inc = saw[r]
         /\ session'.inc = session.inc /\ session'.status = session.status /\ session'.pend = session.pend
         /\ session'.retry = session.retry /\ session'.fired = session.fired
  BY <1>1 DEF LifecycleIInv, LifecycleTypeOK, Requests, Rows
<1>3. LifecycleTypeOK'
  BY <1>2, LifecycleAssumption DEF LifecycleIInv, LifecycleTypeOK, Requests, ClearMarker, Goes, Fails, runVars, historyVars
<1>4. MarksAgree'
  BY LifecycleAssumption, NoneIsNoRow, <1>2 DEF LifecycleIInv, LifecycleTypeOK, Requests, MarksAgree, ClearMarker, Goes, runVars, historyVars
<1>5. CreatedOnce'
  BY LifecycleAssumption, NoneIsNoRow, <1>2 DEF LifecycleIInv, LifecycleTypeOK, Requests, CreatedOnce, ClearMarker, Goes, runVars, historyVars
<1>6. EndedOrDeleted'
  BY LifecycleAssumption, NoneIsNoRow, <1>2 DEF LifecycleIInv, LifecycleTypeOK, Requests, CreatedOnce, EndedOrDeleted, MarksAgree, ClearMarker, Goes, runVars, historyVars
<1>7. NotedOnRow'
  BY LifecycleAssumption, NoneIsNoRow, <1>2 DEF LifecycleIInv, LifecycleTypeOK, Requests, CreatedOnce, NotedOnRow, MarksAgree, ClearMarker, Goes, runVars, historyVars
<1>8. DrainCovers'
  BY LifecycleAssumption, NoneIsNoRow, <1>2 DEF LifecycleIInv, LifecycleTypeOK, Requests, Mine, DrainCovers, MarksAgree, CreatedOnce, NotedOnRow, ClearMarker, Goes, runVars, historyVars
<1>9. NothingRuns'
  BY LifecycleAssumption, NoneIsNoRow, <1>2 DEF LifecycleIInv, LifecycleTypeOK, Requests, Mine, NothingRuns, DrainCovers, MarksAgree, ClearMarker, Goes, runVars, historyVars
<1>10. OwnStep
  BY LifecycleAssumption, NoneIsNoRow, <1>2 DEF LifecycleIInv, LifecycleTypeOK, Requests, OwnStep, ClearMarker, Goes, runVars, historyVars
<1>11. EndStep
  BY LifecycleAssumption, NoneIsNoRow, <1>2 DEF LifecycleIInv, LifecycleTypeOK, Requests, EndStep, DrainCovers, NothingRuns, ClearMarker, Goes, runVars, historyVars
<1> QED BY <1>3, <1>4, <1>5, <1>6, <1>7, <1>8, <1>9, <1>10, <1>11 DEF LifecycleIInv

LEMMA ResolveStep ==
  ASSUME LifecycleIInv, NEW r \in Patches \cup Deletes, Resolve(r)
  PROVE  LifecycleIInv' /\ OwnStep /\ EndStep
<1>1. LifecycleTypeOK'
  BY LifecycleAssumption, NoneIsNoRow DEF LifecycleIInv, LifecycleTypeOK, Requests, Resolve, Goes, runVars, historyVars, Rows
<1>2. MarksAgree'
  BY LifecycleAssumption, NoneIsNoRow DEF LifecycleIInv, LifecycleTypeOK, Requests, Resolve, Goes, runVars, historyVars, Rows, MarksAgree
<1>3. CreatedOnce'
  BY LifecycleAssumption, NoneIsNoRow DEF LifecycleIInv, LifecycleTypeOK, Requests, Resolve, Goes, runVars, historyVars, Rows, CreatedOnce
<1>4. EndedOrDeleted'
  BY LifecycleAssumption, NoneIsNoRow DEF LifecycleIInv, LifecycleTypeOK, Requests, Resolve, Goes, runVars, historyVars, Rows, CreatedOnce, EndedOrDeleted, MarksAgree
<1>5. NotedOnRow'
  BY LifecycleAssumption, NoneIsNoRow DEF LifecycleIInv, LifecycleTypeOK, Requests, Resolve, Goes, runVars, historyVars, Rows, CreatedOnce, NotedOnRow, MarksAgree
<1>6. DrainCovers'
  BY LifecycleAssumption, NoneIsNoRow DEF LifecycleIInv, LifecycleTypeOK, Requests, Resolve, Goes, runVars, historyVars, Rows, Mine, DrainCovers, MarksAgree, CreatedOnce, NotedOnRow
<1>7. NothingRuns'
  BY LifecycleAssumption, NoneIsNoRow DEF LifecycleIInv, LifecycleTypeOK, Requests, Resolve, Goes, runVars, historyVars, Rows, Mine, NothingRuns, DrainCovers, MarksAgree
<1>8. OwnStep
  BY LifecycleAssumption, NoneIsNoRow DEF LifecycleIInv, LifecycleTypeOK, Requests, Resolve, Goes, runVars, historyVars, Rows, OwnStep
<1>9. EndStep
  BY LifecycleAssumption, NoneIsNoRow DEF LifecycleIInv, LifecycleTypeOK, Requests, Resolve, Goes, runVars, historyVars, Rows, EndStep, DrainCovers, NothingRuns
<1> QED BY <1>1, <1>2, <1>3, <1>4, <1>5, <1>6, <1>7, <1>8, <1>9 DEF LifecycleIInv

LEMMA PatchStep ==
  ASSUME LifecycleIInv, NEW r \in Patches, Patch(r)
  PROVE  LifecycleIInv' /\ OwnStep /\ EndStep
<1> DEFINE to == PatchTo[r]
<1>1. \/ UNCHANGED <<session, signals, over>> /\ Goes(r, "done")
      \/ /\ LockedRead(r) /\ to = "ended"
         /\ session' = [session EXCEPT !.status = to, !.life = r, !.lifeFresh = TRUE]
         /\ signals' = signals \cup {r} /\ over' = over \cup {saw[r]} /\ Goes(r, "hook")
      \/ /\ LockedRead(r) /\ (session.status = "ended" => to = "ended")
         /\ session' = [session EXCEPT !.status = to]
         /\ UNCHANGED <<signals, over>> /\ Goes(r, "done")
  BY DEF Patch
<1>2. to \in {"active", "paused", "ended"}
  BY LifecycleAssumption
<1>3. \/ UNCHANGED <<session, signals, over>>
      \/ /\ session # None /\ session \in Rows /\ session' \in Rows
         /\ session.inc = saw[r] /\ session'.inc = saw[r]
         /\ session.pend = None /\ session'.pend = None
         /\ session'.retry = session.retry /\ session'.fired = session.fired
         /\ (session.status = "ended" => session'.status = "ended")
         /\ \/ UNCHANGED <<signals, over>>
            \/ /\ session'.status = "ended"
               /\ signals' = signals \cup {r} /\ over' = over \cup {saw[r]}
  <2> HIDE DEF to
  <2>1. LockedRead(r) => session # None /\ session \in Rows /\ session.inc = saw[r] /\ session.pend = None
    BY DEF LifecycleIInv, LifecycleTypeOK, Requests, LockedRead
  <2>2. ASSUME session \in Rows
        PROVE  LET y == [session EXCEPT !.status = to, !.life = r, !.lifeFresh = TRUE]
               IN  /\ y \in Rows /\ y.inc = session.inc /\ y.pend = session.pend
                   /\ y.retry = session.retry /\ y.fired = session.fired /\ y.status = to
    BY <1>2, <2>2 DEF Rows
  <2>3. ASSUME session \in Rows
        PROVE  LET y == [session EXCEPT !.status = to]
               IN  /\ y \in Rows /\ y.inc = session.inc /\ y.pend = session.pend
                   /\ y.retry = session.retry /\ y.fired = session.fired /\ y.status = to
    BY <1>2, <2>3 DEF Rows
  <2> QED BY <1>1, <2>1, <2>2, <2>3
<1>4. LifecycleTypeOK'
  <2>1. req' \in [Requests -> {"idle", "hook", "clearing", "resolved", "prepared", "hooked", "failed", "done"}]
    BY <1>1 DEF LifecycleIInv, LifecycleTypeOK, Requests, Goes
  <2>2. session' \in Rows \cup {None}
    BY <1>3 DEF LifecycleIInv, LifecycleTypeOK, Requests
  <2>3. signals' \subseteq Requests
    BY <1>3 DEF LifecycleIInv, LifecycleTypeOK, Requests
  <2>4. over' \subseteq Creates
    <3>1. session \in Rows => session.inc \in Creates
      BY DEF Rows
    <3> QED BY <1>3, <3>1 DEF LifecycleIInv, LifecycleTypeOK, Requests
  <2> QED BY <2>1, <2>2, <2>3, <2>4 DEF LifecycleIInv, LifecycleTypeOK, Requests, Patch, runVars
<1>5. \A q \in Requests \ {r} : req'[q] = req[q]
  BY <1>1 DEF LifecycleIInv, LifecycleTypeOK, Requests, Goes
<1>6. req[r] = "resolved" /\ req'[r] \in {"hook", "done"} /\ UNCHANGED <<saw, plan, run, runInc, recorded>>
  BY <1>1 DEF Patch, runVars, LifecycleIInv, LifecycleTypeOK, Requests, Goes
<1>7. r \notin Deletes \/ (req[r] \notin {"prepared", "hooked"} /\ req'[r] \notin {"prepared", "hooked"})
  BY <1>6
<1>8. MarksAgree'
  BY LifecycleAssumption, NoneIsNoRow, <1>3, <1>5, <1>6 DEF LifecycleIInv, LifecycleTypeOK, Requests, MarksAgree
<1>9. CreatedOnce'
  BY LifecycleAssumption, NoneIsNoRow, <1>3, <1>5, <1>6 DEF LifecycleIInv, LifecycleTypeOK, Requests, CreatedOnce, Rows
<1>10. EndedOrDeleted'
  BY LifecycleAssumption, NoneIsNoRow, <1>3, <1>5, <1>6 DEF LifecycleIInv, LifecycleTypeOK, Requests, CreatedOnce, EndedOrDeleted, MarksAgree
<1>11. NotedOnRow'
  BY LifecycleAssumption, NoneIsNoRow, <1>3, <1>5, <1>6 DEF LifecycleIInv, LifecycleTypeOK, Requests, CreatedOnce, NotedOnRow, MarksAgree
<1>12. DrainCovers'
  BY LifecycleAssumption, NoneIsNoRow, <1>3, <1>5, <1>6 DEF LifecycleIInv, LifecycleTypeOK, Requests, Mine, DrainCovers, MarksAgree, CreatedOnce, NotedOnRow
<1>13. NothingRuns'
  BY LifecycleAssumption, NoneIsNoRow, <1>3, <1>5, <1>6 DEF LifecycleIInv, LifecycleTypeOK, Requests, Mine, NothingRuns, DrainCovers, MarksAgree
<1>14. OwnStep
  BY LifecycleAssumption, NoneIsNoRow, <1>3, <1>5, <1>6 DEF LifecycleIInv, LifecycleTypeOK, Requests, OwnStep
<1>15. EndStep
  BY LifecycleAssumption, NoneIsNoRow, <1>3, <1>5, <1>6 DEF LifecycleIInv, LifecycleTypeOK, Requests, EndStep, DrainCovers, NothingRuns
<1> QED BY <1>4, <1>8, <1>9, <1>10, <1>11, <1>12, <1>13, <1>14, <1>15 DEF LifecycleIInv

LEMMA PrepareStep ==
  ASSUME LifecycleIInv, NEW d \in Deletes, Prepare(d)
  PROVE  LifecycleIInv' /\ OwnStep /\ EndStep
<1> DEFINE hook == session.status # "ended" /\ ~SkipEnd
           ready == [ended |-> session.status = "ended", hook |-> hook, drain |-> Backlog]
<1>1. \/ UNCHANGED <<session, plan>> /\ Goes(d, "done")
      \/ /\ session # None /\ session.inc = saw[d] /\ (session.pend # None => Retryable)
         /\ plan' = [plan EXCEPT ![d] = ready] /\ Goes(d, "prepared")
         /\ session' = [session EXCEPT
              !.status = IF session.status = "ended" THEN "ended" ELSE "paused",
              !.life = None, !.lifeFresh = FALSE, !.pend = d, !.pendFresh = TRUE,
              !.retry = None,
              !.fired = IF SkipEnd THEN d ELSE None]
  BY DEF Prepare, ClearedControl
<1>2. \/ UNCHANGED <<session, plan>> /\ Goes(d, "done")
      \/ /\ session # None /\ session \in Rows /\ session' \in Rows
         /\ session.inc = saw[d] /\ session'.inc = saw[d] /\ (session.pend # None => Retryable)
         /\ session'.pend = d /\ session'.retry = None /\ session'.fired = (IF SkipEnd THEN d ELSE None)
         /\ session'.status = IF session.status = "ended" THEN "ended" ELSE "paused"
         /\ plan' = [plan EXCEPT ![d] = ready] /\ Goes(d, "prepared")
  <2> HIDE DEF ready
  <2>1. session # None => session \in Rows
    BY DEF LifecycleIInv, LifecycleTypeOK, Requests
  <2>2. /\ (IF session.status = "ended" THEN "ended" ELSE "paused") \in {"active", "paused", "ended"}
        /\ (IF SkipEnd THEN d ELSE None) \in Deletes \cup {None}
    OBVIOUS
  <2>3. ASSUME session \in Rows
        PROVE  LET y == [session EXCEPT
                           !.status = IF session.status = "ended" THEN "ended" ELSE "paused",
                           !.life = None, !.lifeFresh = FALSE, !.pend = d, !.pendFresh = TRUE,
                           !.retry = None,
                           !.fired = IF SkipEnd THEN d ELSE None]
               IN  /\ y \in Rows /\ y.inc = session.inc /\ y.pend = d /\ y.retry = None
                   /\ y.fired = (IF SkipEnd THEN d ELSE None)
                   /\ y.status = IF session.status = "ended" THEN "ended" ELSE "paused"
    BY <2>2, <2>3 DEF Rows
  <2> QED BY <1>1, <2>1, <2>3
<1>3. ready \in [ended : BOOLEAN, hook : BOOLEAN, drain : SUBSET Runs]
  BY DEF Backlog
<1>4. LifecycleTypeOK'
  <2> HIDE DEF ready
  <2>1. req' \in [Requests -> {"idle", "hook", "clearing", "resolved", "prepared", "hooked", "failed", "done"}]
    BY <1>2 DEF LifecycleIInv, LifecycleTypeOK, Requests, Goes
  <2>2. session' \in Rows \cup {None}
    BY <1>2 DEF LifecycleIInv, LifecycleTypeOK, Requests
  <2>3. plan' \in [Deletes -> [ended : BOOLEAN, hook : BOOLEAN, drain : SUBSET Runs]]
    BY <1>2, <1>3 DEF LifecycleIInv, LifecycleTypeOK, Requests
  <2>4. trouble' \in 0..MaxTrouble
    BY LifecycleAssumption DEF LifecycleIInv, LifecycleTypeOK, Requests, Prepare, Fails
  <2> QED BY <2>1, <2>2, <2>3, <2>4 DEF LifecycleIInv, LifecycleTypeOK, Requests, Prepare, runVars, historyVars
<1>5. /\ req[d] = "resolved" /\ UNCHANGED <<saw, run, runInc, signals, recorded, over>>
      /\ \A q \in Requests \ {d} : req'[q] = req[q]
      /\ req'[d] = "done" \/ req'[d] = "prepared"
  BY <1>2 DEF Prepare, runVars, historyVars, LifecycleIInv, LifecycleTypeOK, Requests, Goes
<1>6. DrainCovers'
  <2> SUFFICES ASSUME NEW e \in Deletes, req'[e] = "prepared", Mine(e)'
               PROVE  /\ \A j \in Runs : run[j] \in {"queued", "running"} /\ runInc[j] = saw[e] =>
                           j \in plan'[e].drain
                      /\ plan'[e].hook => saw[e] \notin recorded
    BY <1>5 DEF DrainCovers
  <2>1. CASE e = d
    <3>1. plan'[d] = ready /\ session # None /\ session.inc = saw[d] /\ (session.pend # None => Retryable)
      BY <1>2, <1>5, <2>1 DEF LifecycleIInv, LifecycleTypeOK, Requests, Goes
    <3>2. \A j \in Runs : run[j] \in {"queued", "running"} /\ runInc[j] = saw[d] => j \in plan'[d].drain
      BY <3>1 DEF Backlog
    <3>3. plan'[d].hook => saw[d] \notin recorded
      <4>1. plan'[d].hook => ~SkipEnd
        <5>1. ready.hook = hook
          BY Zenon
        <5> HIDE DEF ready
        <5>2. plan'[d].hook = hook
          BY <3>1, <5>1, Zenon
        <5> QED BY <5>2, Zenon
      <4>2. saw[d] \in recorded => SkipEnd
        BY <3>1 DEF LifecycleIInv, NotedOnRow, SkipEnd
      <4> QED BY <4>1, <4>2
    <3> QED BY <2>1, <3>2, <3>3
  <2>2. CASE e # d
    <3>1. plan'[e] = plan[e] /\ req[e] = "prepared" /\ Mine(e)
      BY <1>2, <1>5, <2>2 DEF LifecycleIInv, LifecycleTypeOK, Requests, Mine
    <3> QED BY <3>1 DEF LifecycleIInv, DrainCovers
  <2> QED BY <2>1, <2>2
<1> HIDE DEF ready
<1>7. MarksAgree'
  BY LifecycleAssumption, NoneIsNoRow, <1>2, <1>5 DEF LifecycleIInv, LifecycleTypeOK, Requests, MarksAgree
<1>8. CreatedOnce'
  BY LifecycleAssumption, NoneIsNoRow, <1>2, <1>5 DEF LifecycleIInv, LifecycleTypeOK, Requests, CreatedOnce, Rows
<1>9. EndedOrDeleted'
  BY LifecycleAssumption, NoneIsNoRow, <1>2, <1>5 DEF LifecycleIInv, LifecycleTypeOK, Requests, CreatedOnce, EndedOrDeleted, MarksAgree
<1>10. NotedOnRow'
  BY LifecycleAssumption, NoneIsNoRow, <1>2, <1>5 DEF LifecycleIInv, LifecycleTypeOK, Requests, CreatedOnce, NotedOnRow, MarksAgree, Retryable, SkipEnd
<1>11. NothingRuns'
  BY LifecycleAssumption, NoneIsNoRow, <1>2, <1>5 DEF LifecycleIInv, LifecycleTypeOK, Requests, Mine, NothingRuns, DrainCovers, MarksAgree
<1>12. OwnStep
  BY LifecycleAssumption, NoneIsNoRow, <1>2, <1>5 DEF LifecycleIInv, LifecycleTypeOK, Requests, OwnStep
<1>13. EndStep
  BY LifecycleAssumption, NoneIsNoRow, <1>2, <1>5 DEF LifecycleIInv, LifecycleTypeOK, Requests, EndStep, DrainCovers, NothingRuns
<1> QED BY <1>4, <1>6, <1>7, <1>8, <1>9, <1>10, <1>11, <1>12, <1>13 DEF LifecycleIInv

LEMMA DrainStep ==
  ASSUME LifecycleIInv, NEW d \in Deletes, Drain(d)
  PROVE  LifecycleIInv' /\ OwnStep /\ EndStep
<1>1. LifecycleTypeOK'
  <2>1. plan' \in [Deletes -> [ended : BOOLEAN, hook : BOOLEAN, drain : SUBSET Runs]]
    <3>1. CASE plan' = [plan EXCEPT ![d].drain = {}]
      <4>1. [plan[d] EXCEPT !.drain = {}] \in [ended : BOOLEAN, hook : BOOLEAN, drain : SUBSET Runs]
        BY DEF LifecycleIInv, LifecycleTypeOK, Requests
      <4> QED BY <3>1, <4>1 DEF LifecycleIInv, LifecycleTypeOK, Requests
    <3>2. CASE Drops(d)
      BY <3>2 DEF LifecycleIInv, LifecycleTypeOK, Requests, Drops, NoPlan
    <3> QED BY <3>1, <3>2 DEF Drain
  <2>2. req' \in [Requests -> {"idle", "hook", "clearing", "resolved", "prepared", "hooked", "failed", "done"}] /\ signals' \subseteq Requests
    BY DEF LifecycleIInv, LifecycleTypeOK, Requests, Drain, Goes
  <2> QED BY <2>1, <2>2 DEF LifecycleIInv, LifecycleTypeOK, Requests, Drain, runVars
<1>2. MarksAgree'
  BY LifecycleAssumption, NoneIsNoRow, <1>1 DEF LifecycleIInv, LifecycleTypeOK, Requests, MarksAgree, Drain, Goes, Drops, NoPlan, runVars, Mine
<1>3. CreatedOnce'
  BY LifecycleAssumption, NoneIsNoRow, <1>1 DEF LifecycleIInv, LifecycleTypeOK, Requests, CreatedOnce, Rows, Drain, Goes, Drops, NoPlan, runVars, Mine
<1>4. EndedOrDeleted'
  BY LifecycleAssumption, NoneIsNoRow, <1>1 DEF LifecycleIInv, LifecycleTypeOK, Requests, CreatedOnce, EndedOrDeleted, MarksAgree, Drain, Goes, Drops, NoPlan, runVars, Mine
<1>5. NotedOnRow'
  BY LifecycleAssumption, NoneIsNoRow, <1>1 DEF LifecycleIInv, LifecycleTypeOK, Requests, CreatedOnce, NotedOnRow, MarksAgree, Drain, Goes, Drops, NoPlan, runVars, Mine
<1>6. DrainCovers'
  BY LifecycleAssumption, NoneIsNoRow, <1>1 DEF LifecycleIInv, LifecycleTypeOK, Requests, Mine, DrainCovers, MarksAgree, CreatedOnce, NotedOnRow, Drain, Goes, Drops, NoPlan, runVars
<1>7. NothingRuns'
  BY LifecycleAssumption, NoneIsNoRow, <1>1 DEF LifecycleIInv, LifecycleTypeOK, Requests, Mine, NothingRuns, DrainCovers, MarksAgree, Drain, Goes, Drops, NoPlan, runVars
<1>8. OwnStep
  BY LifecycleAssumption, NoneIsNoRow, <1>1 DEF LifecycleIInv, LifecycleTypeOK, Requests, OwnStep, Drain, Goes, Drops, NoPlan, runVars, Mine
<1>9. EndStep
  BY LifecycleAssumption, NoneIsNoRow, <1>1 DEF LifecycleIInv, LifecycleTypeOK, Requests, EndStep, DrainCovers, NothingRuns, Drain, Goes, Drops, NoPlan, runVars, Mine
<1> QED BY <1>1, <1>2, <1>3, <1>4, <1>5, <1>6, <1>7, <1>8, <1>9 DEF LifecycleIInv

LEMMA DrainFailsStep ==
  ASSUME LifecycleIInv, NEW d \in Deletes, DrainFails(d)
  PROVE  LifecycleIInv' /\ OwnStep /\ EndStep
<1>1. LifecycleTypeOK'
  BY LifecycleAssumption, NoneIsNoRow DEF LifecycleIInv, LifecycleTypeOK, Requests, DrainFails, Goes, Drops, NoPlan, Fails, runVars, historyVars, Rows
<1>2. MarksAgree'
  BY LifecycleAssumption, NoneIsNoRow DEF LifecycleIInv, LifecycleTypeOK, Requests, DrainFails, Goes, Drops, NoPlan, Fails, runVars, historyVars, Rows, MarksAgree
<1>3. CreatedOnce'
  BY LifecycleAssumption, NoneIsNoRow DEF LifecycleIInv, LifecycleTypeOK, Requests, DrainFails, Goes, Drops, NoPlan, Fails, runVars, historyVars, Rows, CreatedOnce
<1>4. EndedOrDeleted'
  BY LifecycleAssumption, NoneIsNoRow DEF LifecycleIInv, LifecycleTypeOK, Requests, DrainFails, Goes, Drops, NoPlan, Fails, runVars, historyVars, Rows, CreatedOnce, EndedOrDeleted, MarksAgree
<1>5. NotedOnRow'
  BY LifecycleAssumption, NoneIsNoRow DEF LifecycleIInv, LifecycleTypeOK, Requests, DrainFails, Goes, Drops, NoPlan, Fails, runVars, historyVars, Rows, CreatedOnce, NotedOnRow, MarksAgree
<1>6. DrainCovers'
  BY LifecycleAssumption, NoneIsNoRow DEF LifecycleIInv, LifecycleTypeOK, Requests, DrainFails, Goes, Drops, NoPlan, Fails, runVars, historyVars, Rows, Mine, DrainCovers, MarksAgree, CreatedOnce, NotedOnRow
<1>7. NothingRuns'
  BY LifecycleAssumption, NoneIsNoRow DEF LifecycleIInv, LifecycleTypeOK, Requests, DrainFails, Goes, Drops, NoPlan, Fails, runVars, historyVars, Rows, Mine, NothingRuns, DrainCovers, MarksAgree
<1>8. OwnStep
  BY LifecycleAssumption, NoneIsNoRow DEF LifecycleIInv, LifecycleTypeOK, Requests, DrainFails, Goes, Drops, NoPlan, Fails, runVars, historyVars, Rows, OwnStep
<1>9. EndStep
  BY LifecycleAssumption, NoneIsNoRow DEF LifecycleIInv, LifecycleTypeOK, Requests, DrainFails, Goes, Drops, NoPlan, Fails, runVars, historyVars, Rows, EndStep, DrainCovers, NothingRuns
<1> QED BY <1>1, <1>2, <1>3, <1>4, <1>5, <1>6, <1>7, <1>8, <1>9 DEF LifecycleIInv

LEMMA FinishStep ==
  ASSUME LifecycleIInv, NEW d \in Deletes, Finish(d)
  PROVE  LifecycleIInv' /\ OwnStep /\ EndStep
<1>1. \/ UNCHANGED <<session, recorded>>
      \/ Mine(d) /\ session' = None /\ Noted(d)
      \/ Mine(d) /\ Noted(d) /\ session' \in {Ended(d), Retried(d, Ended(d))}
  BY DEF Finish
<1>2. \/ UNCHANGED <<session, recorded>>
      \/ Mine(d) /\ session' = None /\ Noted(d)
      \/ /\ Mine(d) /\ Noted(d)
         /\ session \in Rows /\ session' \in Rows
         /\ session'.inc = session.inc /\ session'.pend = d
         /\ session'.retry \in {session.retry, d}
         /\ session'.fired = (IF plan[d].ended THEN session.fired ELSE d)
         /\ session'.status \in {session.status, "paused"}
  <2>1. ASSUME Mine(d)
        PROVE  /\ session \in Rows /\ session.pend = d
               /\ Ended(d) \in Rows /\ Ended(d).inc = session.inc /\ Ended(d).pend = d
               /\ Ended(d).retry = session.retry /\ Ended(d).status = session.status
               /\ Ended(d).fired = (IF plan[d].ended THEN session.fired ELSE d)
    BY <2>1, RowNoted DEF LifecycleIInv, LifecycleTypeOK, Requests, Mine, Ended
  <2>2. ASSUME Mine(d)
        PROVE  LET y == Retried(d, Ended(d))
               IN  /\ y \in Rows /\ y.inc = session.inc /\ y.pend = d
                   /\ y.retry = d /\ y.status = "paused" /\ y.fired = Ended(d).fired
    BY <2>1, <2>2, RowRetried DEF Retried
  <2> QED BY <1>1, <2>1, <2>2
<1>3. /\ req[d] = "hooked" /\ req'[d] \in {"done", "failed"}
      /\ \A q \in Requests \ {d} : req'[q] = req[q]
      /\ \A q \in Deletes \ {d} : plan'[q] = plan[q]
      /\ UNCHANGED <<saw, run, runInc, signals, over>>
  BY DEF Finish, Goes, Drops, runVars, LifecycleIInv, LifecycleTypeOK, Requests
<1>4. Mine(d) /\ Noted(d) =>
        recorded' = recorded \cup (IF plan[d].ended THEN {} ELSE {session.inc})
  BY DEF Mine, Noted
<1>5. LifecycleTypeOK'
  <2>1. plan' \in [Deletes -> [ended : BOOLEAN, hook : BOOLEAN, drain : SUBSET Runs]]
    BY DEF LifecycleIInv, LifecycleTypeOK, Requests, Finish, Drops, NoPlan
  <2>2. req' \in [Requests -> {"idle", "hook", "clearing", "resolved", "prepared", "hooked", "failed", "done"}]
    BY DEF LifecycleIInv, LifecycleTypeOK, Requests, Finish, Goes
  <2>3. session' \in Rows \cup {None}
    BY <1>2 DEF LifecycleIInv, LifecycleTypeOK, Requests
  <2>4. recorded' \subseteq Creates
    <3>1. Mine(d) => session.inc \in Creates
      BY DEF LifecycleIInv, LifecycleTypeOK, Requests, Mine, Rows
    <3> QED BY <1>2, <1>4, <3>1 DEF LifecycleIInv, LifecycleTypeOK, Requests
  <2>5. trouble' \in 0..MaxTrouble
    BY LifecycleAssumption DEF LifecycleIInv, LifecycleTypeOK, Requests, Finish, Fails
  <2> QED BY <2>1, <2>2, <2>3, <2>4, <2>5 DEF LifecycleIInv, LifecycleTypeOK, Requests, Finish, runVars
<1>6. MarksAgree'
  BY LifecycleAssumption, NoneIsNoRow, <1>2, <1>3, <1>4 DEF LifecycleIInv, LifecycleTypeOK, Requests, MarksAgree, Mine
<1>7. CreatedOnce'
  BY LifecycleAssumption, NoneIsNoRow, <1>2, <1>3, <1>4 DEF LifecycleIInv, LifecycleTypeOK, Requests, CreatedOnce, Rows, Mine
<1>8. EndedOrDeleted'
  BY LifecycleAssumption, NoneIsNoRow, <1>2, <1>3, <1>4 DEF LifecycleIInv, LifecycleTypeOK, Requests, CreatedOnce, EndedOrDeleted, MarksAgree, Mine
<1>9. NotedOnRow'
  BY LifecycleAssumption, NoneIsNoRow, <1>2, <1>3, <1>4 DEF LifecycleIInv, LifecycleTypeOK, Requests, CreatedOnce, NotedOnRow, MarksAgree, Mine
<1>10. DrainCovers'
  BY LifecycleAssumption, NoneIsNoRow, <1>2, <1>3, <1>4 DEF LifecycleIInv, LifecycleTypeOK, Requests, Mine, DrainCovers, MarksAgree, CreatedOnce, NotedOnRow
<1>11. NothingRuns'
  BY LifecycleAssumption, NoneIsNoRow, <1>2, <1>3, <1>4 DEF LifecycleIInv, LifecycleTypeOK, Requests, Mine, NothingRuns, DrainCovers, MarksAgree
<1>12. OwnStep
  BY LifecycleAssumption, NoneIsNoRow, <1>2, <1>3, <1>4 DEF LifecycleIInv, LifecycleTypeOK, Requests, OwnStep, Mine
<1>13. EndStep
  BY LifecycleAssumption, NoneIsNoRow, <1>2, <1>3, <1>4 DEF LifecycleIInv, LifecycleTypeOK, Requests, EndStep, DrainCovers, NothingRuns, Mine
<1> QED BY <1>5, <1>6, <1>7, <1>8, <1>9, <1>10, <1>11, <1>12, <1>13 DEF LifecycleIInv

LEMMA MarkRetryableStep ==
  ASSUME LifecycleIInv, NEW d \in Deletes, MarkRetryable(d)
  PROVE  LifecycleIInv' /\ OwnStep /\ EndStep
<1>1. \/ UNCHANGED session
      \/ /\ Mine(d) /\ session \in Rows /\ session' \in Rows
         /\ session'.inc = session.inc /\ session'.pend = d /\ session'.retry = d
         /\ session'.fired = session.fired /\ session'.status = "paused"
  <2>1. ASSUME Mine(d)
        PROVE  LET y == Retried(d, session)
               IN  /\ session \in Rows /\ session.pend = d
                   /\ y \in Rows /\ y.inc = session.inc /\ y.pend = d
                   /\ y.retry = d /\ y.status = "paused" /\ y.fired = session.fired
    BY <2>1 DEF LifecycleIInv, LifecycleTypeOK, Requests, Mine, Retried, Rows
  <2> QED BY <2>1 DEF MarkRetryable
<1>2. /\ req[d] = "failed" /\ req'[d] = "done"
      /\ \A q \in Requests \ {d} : req'[q] = req[q]
      /\ UNCHANGED <<saw, plan, run, runInc, signals, recorded, over>>
  BY DEF MarkRetryable, Goes, runVars, historyVars, LifecycleIInv, LifecycleTypeOK, Requests
<1>3. LifecycleTypeOK'
  <2>1. req' \in [Requests -> {"idle", "hook", "clearing", "resolved", "prepared", "hooked", "failed", "done"}]
    BY DEF LifecycleIInv, LifecycleTypeOK, Requests, MarkRetryable, Goes
  <2>2. trouble' \in 0..MaxTrouble
    BY LifecycleAssumption DEF LifecycleIInv, LifecycleTypeOK, Requests, MarkRetryable, Fails
  <2>3. session' \in Rows \cup {None}
    BY <1>1 DEF LifecycleIInv, LifecycleTypeOK, Requests
  <2> QED BY <1>2, <2>1, <2>2, <2>3 DEF LifecycleIInv, LifecycleTypeOK, Requests
<1>4. MarksAgree'
  BY LifecycleAssumption, NoneIsNoRow, <1>1, <1>2 DEF LifecycleIInv, LifecycleTypeOK, Requests, MarksAgree, Mine
<1>5. CreatedOnce'
  BY LifecycleAssumption, NoneIsNoRow, <1>1, <1>2 DEF LifecycleIInv, LifecycleTypeOK, Requests, CreatedOnce, Rows, Mine
<1>6. EndedOrDeleted'
  BY LifecycleAssumption, NoneIsNoRow, <1>1, <1>2 DEF LifecycleIInv, LifecycleTypeOK, Requests, CreatedOnce, EndedOrDeleted, MarksAgree, Mine
<1>7. NotedOnRow'
  BY LifecycleAssumption, NoneIsNoRow, <1>1, <1>2 DEF LifecycleIInv, LifecycleTypeOK, Requests, CreatedOnce, NotedOnRow, MarksAgree, Mine
<1>8. DrainCovers'
  BY LifecycleAssumption, NoneIsNoRow, <1>1, <1>2 DEF LifecycleIInv, LifecycleTypeOK, Requests, Mine, DrainCovers, MarksAgree, CreatedOnce, NotedOnRow
<1>9. NothingRuns'
  BY LifecycleAssumption, NoneIsNoRow, <1>1, <1>2 DEF LifecycleIInv, LifecycleTypeOK, Requests, Mine, NothingRuns, DrainCovers, MarksAgree
<1>10. OwnStep
  BY LifecycleAssumption, NoneIsNoRow, <1>1, <1>2 DEF LifecycleIInv, LifecycleTypeOK, Requests, OwnStep, Mine
<1>11. EndStep
  BY LifecycleAssumption, NoneIsNoRow, <1>1, <1>2 DEF LifecycleIInv, LifecycleTypeOK, Requests, EndStep, DrainCovers, NothingRuns, Mine
<1> QED BY <1>3, <1>4, <1>5, <1>6, <1>7, <1>8, <1>9, <1>10, <1>11 DEF LifecycleIInv

LEMMA QueueStep ==
  ASSUME LifecycleIInv, NEW j \in Runs, Queue(j)
  PROVE  LifecycleIInv' /\ OwnStep /\ EndStep
<1>1. LifecycleTypeOK'
  BY LifecycleAssumption, NoneIsNoRow DEF LifecycleIInv, LifecycleTypeOK, Requests, Queue, historyVars, Rows
<1>2. MarksAgree'
  BY LifecycleAssumption, NoneIsNoRow DEF LifecycleIInv, LifecycleTypeOK, Requests, Queue, historyVars, Rows, MarksAgree
<1>3. CreatedOnce'
  BY LifecycleAssumption, NoneIsNoRow DEF LifecycleIInv, LifecycleTypeOK, Requests, Queue, historyVars, Rows, CreatedOnce
<1>4. EndedOrDeleted'
  BY LifecycleAssumption, NoneIsNoRow DEF LifecycleIInv, LifecycleTypeOK, Requests, Queue, historyVars, Rows, CreatedOnce, EndedOrDeleted, MarksAgree
<1>5. NotedOnRow'
  BY LifecycleAssumption, NoneIsNoRow DEF LifecycleIInv, LifecycleTypeOK, Requests, Queue, historyVars, Rows, CreatedOnce, NotedOnRow, MarksAgree
<1>6. DrainCovers'
  BY LifecycleAssumption, NoneIsNoRow DEF LifecycleIInv, LifecycleTypeOK, Requests, Queue, historyVars, Rows, Mine, DrainCovers, MarksAgree, CreatedOnce, NotedOnRow
<1>7. NothingRuns'
  BY LifecycleAssumption, NoneIsNoRow DEF LifecycleIInv, LifecycleTypeOK, Requests, Queue, historyVars, Rows, Mine, NothingRuns, DrainCovers, MarksAgree
<1>8. OwnStep
  BY LifecycleAssumption, NoneIsNoRow DEF LifecycleIInv, LifecycleTypeOK, Requests, Queue, historyVars, Rows, OwnStep
<1>9. EndStep
  BY LifecycleAssumption, NoneIsNoRow DEF LifecycleIInv, LifecycleTypeOK, Requests, Queue, historyVars, Rows, EndStep, DrainCovers, NothingRuns
<1> QED BY <1>1, <1>2, <1>3, <1>4, <1>5, <1>6, <1>7, <1>8, <1>9 DEF LifecycleIInv

LEMMA StartStep ==
  ASSUME LifecycleIInv, NEW j \in Runs, Start(j)
  PROVE  LifecycleIInv' /\ OwnStep /\ EndStep
<1>1. LifecycleTypeOK'
  BY LifecycleAssumption, NoneIsNoRow DEF LifecycleIInv, LifecycleTypeOK, Requests, Start, Live, historyVars, Rows
<1>2. MarksAgree'
  BY LifecycleAssumption, NoneIsNoRow DEF LifecycleIInv, LifecycleTypeOK, Requests, Start, Live, historyVars, Rows, MarksAgree
<1>3. CreatedOnce'
  BY LifecycleAssumption, NoneIsNoRow DEF LifecycleIInv, LifecycleTypeOK, Requests, Start, Live, historyVars, Rows, CreatedOnce
<1>4. EndedOrDeleted'
  BY LifecycleAssumption, NoneIsNoRow DEF LifecycleIInv, LifecycleTypeOK, Requests, Start, Live, historyVars, Rows, CreatedOnce, EndedOrDeleted, MarksAgree
<1>5. NotedOnRow'
  BY LifecycleAssumption, NoneIsNoRow DEF LifecycleIInv, LifecycleTypeOK, Requests, Start, Live, historyVars, Rows, CreatedOnce, NotedOnRow, MarksAgree
<1>6. DrainCovers'
  BY LifecycleAssumption, NoneIsNoRow DEF LifecycleIInv, LifecycleTypeOK, Requests, Start, Live, historyVars, Rows, Mine, DrainCovers, MarksAgree, CreatedOnce, NotedOnRow
<1>7. NothingRuns'
  BY LifecycleAssumption, NoneIsNoRow DEF LifecycleIInv, LifecycleTypeOK, Requests, Start, Live, historyVars, Rows, Mine, NothingRuns, DrainCovers, MarksAgree
<1>8. OwnStep
  BY LifecycleAssumption, NoneIsNoRow DEF LifecycleIInv, LifecycleTypeOK, Requests, Start, Live, historyVars, Rows, OwnStep
<1>9. EndStep
  BY LifecycleAssumption, NoneIsNoRow DEF LifecycleIInv, LifecycleTypeOK, Requests, Start, Live, historyVars, Rows, EndStep, DrainCovers, NothingRuns
<1> QED BY <1>1, <1>2, <1>3, <1>4, <1>5, <1>6, <1>7, <1>8, <1>9 DEF LifecycleIInv

LEMMA CommitStep ==
  ASSUME LifecycleIInv, NEW j \in Runs, Commit(j)
  PROVE  LifecycleIInv' /\ OwnStep /\ EndStep
<1>1. LifecycleTypeOK'
  BY LifecycleAssumption, NoneIsNoRow DEF LifecycleIInv, LifecycleTypeOK, Requests, Commit, Live, historyVars, Rows
<1>2. MarksAgree'
  BY LifecycleAssumption, NoneIsNoRow DEF LifecycleIInv, LifecycleTypeOK, Requests, Commit, Live, historyVars, Rows, MarksAgree
<1>3. CreatedOnce'
  BY LifecycleAssumption, NoneIsNoRow DEF LifecycleIInv, LifecycleTypeOK, Requests, Commit, Live, historyVars, Rows, CreatedOnce
<1>4. EndedOrDeleted'
  BY LifecycleAssumption, NoneIsNoRow DEF LifecycleIInv, LifecycleTypeOK, Requests, Commit, Live, historyVars, Rows, CreatedOnce, EndedOrDeleted, MarksAgree
<1>5. NotedOnRow'
  BY LifecycleAssumption, NoneIsNoRow DEF LifecycleIInv, LifecycleTypeOK, Requests, Commit, Live, historyVars, Rows, CreatedOnce, NotedOnRow, MarksAgree
<1>6. DrainCovers'
  BY LifecycleAssumption, NoneIsNoRow DEF LifecycleIInv, LifecycleTypeOK, Requests, Commit, Live, historyVars, Rows, Mine, DrainCovers, MarksAgree, CreatedOnce, NotedOnRow
<1>7. NothingRuns'
  BY LifecycleAssumption, NoneIsNoRow DEF LifecycleIInv, LifecycleTypeOK, Requests, Commit, Live, historyVars, Rows, Mine, NothingRuns, DrainCovers, MarksAgree
<1>8. OwnStep
  BY LifecycleAssumption, NoneIsNoRow DEF LifecycleIInv, LifecycleTypeOK, Requests, Commit, Live, historyVars, Rows, OwnStep
<1>9. EndStep
  BY LifecycleAssumption, NoneIsNoRow DEF LifecycleIInv, LifecycleTypeOK, Requests, Commit, Live, historyVars, Rows, EndStep, DrainCovers, NothingRuns
<1> QED BY <1>1, <1>2, <1>3, <1>4, <1>5, <1>6, <1>7, <1>8, <1>9 DEF LifecycleIInv

LEMMA DieStep ==
  ASSUME LifecycleIInv, NEW r \in Requests, Die(r)
  PROVE  LifecycleIInv' /\ OwnStep /\ EndStep
<1>1. LifecycleTypeOK'
  BY LifecycleAssumption, NoneIsNoRow DEF LifecycleIInv, LifecycleTypeOK, Requests, Die, Goes, Drops, NoPlan, Fails, runVars, historyVars, Rows
<1>2. MarksAgree'
  BY LifecycleAssumption, NoneIsNoRow DEF LifecycleIInv, LifecycleTypeOK, Requests, Die, Goes, Drops, NoPlan, Fails, runVars, historyVars, Rows, MarksAgree
<1>3. CreatedOnce'
  BY LifecycleAssumption, NoneIsNoRow DEF LifecycleIInv, LifecycleTypeOK, Requests, Die, Goes, Drops, NoPlan, Fails, runVars, historyVars, Rows, CreatedOnce
<1>4. EndedOrDeleted'
  BY LifecycleAssumption, NoneIsNoRow DEF LifecycleIInv, LifecycleTypeOK, Requests, Die, Goes, Drops, NoPlan, Fails, runVars, historyVars, Rows, CreatedOnce, EndedOrDeleted, MarksAgree
<1>5. NotedOnRow'
  BY LifecycleAssumption, NoneIsNoRow DEF LifecycleIInv, LifecycleTypeOK, Requests, Die, Goes, Drops, NoPlan, Fails, runVars, historyVars, Rows, CreatedOnce, NotedOnRow, MarksAgree
<1>6. DrainCovers'
  BY LifecycleAssumption, NoneIsNoRow DEF LifecycleIInv, LifecycleTypeOK, Requests, Die, Goes, Drops, NoPlan, Fails, runVars, historyVars, Rows, Mine, DrainCovers, MarksAgree, CreatedOnce, NotedOnRow
<1>7. NothingRuns'
  BY LifecycleAssumption, NoneIsNoRow DEF LifecycleIInv, LifecycleTypeOK, Requests, Die, Goes, Drops, NoPlan, Fails, runVars, historyVars, Rows, Mine, NothingRuns, DrainCovers, MarksAgree
<1>8. OwnStep
  BY LifecycleAssumption, NoneIsNoRow DEF LifecycleIInv, LifecycleTypeOK, Requests, Die, Goes, Drops, NoPlan, Fails, runVars, historyVars, Rows, OwnStep
<1>9. EndStep
  BY LifecycleAssumption, NoneIsNoRow DEF LifecycleIInv, LifecycleTypeOK, Requests, Die, Goes, Drops, NoPlan, Fails, runVars, historyVars, Rows, EndStep, DrainCovers, NothingRuns
<1> QED BY <1>1, <1>2, <1>3, <1>4, <1>5, <1>6, <1>7, <1>8, <1>9 DEF LifecycleIInv

LEMMA LeaseRunsOutStep ==
  ASSUME LifecycleIInv, LeaseRunsOut
  PROVE  LifecycleIInv' /\ OwnStep /\ EndStep
<1>1. /\ session # None /\ session \in Rows /\ session' \in Rows
      /\ session'.inc = session.inc /\ session'.status = session.status /\ session'.pend = session.pend
      /\ session'.retry = session.retry /\ session'.fired = session.fired
  <2>1. session # None /\ session \in Rows
    BY DEF LifecycleIInv, LifecycleTypeOK, LeaseRunsOut
  <2> QED BY <2>1 DEF LeaseRunsOut, Rows
<1>2. UNCHANGED <<req, saw, plan, run, runInc, trouble, signals, recorded, over>>
  BY DEF LeaseRunsOut, runVars, historyVars
<1>3. LifecycleTypeOK'
  BY <1>1, <1>2 DEF LifecycleIInv, LifecycleTypeOK
<1>4. MarksAgree'
  BY LifecycleAssumption, NoneIsNoRow, <1>1, <1>2 DEF LifecycleIInv, LifecycleTypeOK, Requests, MarksAgree, Mine
<1>5. CreatedOnce'
  BY LifecycleAssumption, NoneIsNoRow, <1>1, <1>2 DEF LifecycleIInv, LifecycleTypeOK, Requests, CreatedOnce, Rows, Mine
<1>6. EndedOrDeleted'
  BY LifecycleAssumption, NoneIsNoRow, <1>1, <1>2 DEF LifecycleIInv, LifecycleTypeOK, Requests, CreatedOnce, EndedOrDeleted, MarksAgree, Mine
<1>7. NotedOnRow'
  BY LifecycleAssumption, NoneIsNoRow, <1>1, <1>2 DEF LifecycleIInv, LifecycleTypeOK, Requests, CreatedOnce, NotedOnRow, MarksAgree, Mine
<1>8. DrainCovers'
  BY LifecycleAssumption, NoneIsNoRow, <1>1, <1>2 DEF LifecycleIInv, LifecycleTypeOK, Requests, Mine, DrainCovers, MarksAgree, CreatedOnce, NotedOnRow
<1>9. NothingRuns'
  BY LifecycleAssumption, NoneIsNoRow, <1>1, <1>2 DEF LifecycleIInv, LifecycleTypeOK, Requests, Mine, NothingRuns, DrainCovers, MarksAgree
<1>10. OwnStep
  BY LifecycleAssumption, NoneIsNoRow, <1>1, <1>2 DEF LifecycleIInv, LifecycleTypeOK, Requests, OwnStep, Mine
<1>11. EndStep
  BY LifecycleAssumption, NoneIsNoRow, <1>1, <1>2 DEF LifecycleIInv, LifecycleTypeOK, Requests, EndStep, DrainCovers, NothingRuns, Mine
<1> QED BY <1>3, <1>4, <1>5, <1>6, <1>7, <1>8, <1>9, <1>10, <1>11 DEF LifecycleIInv

LEMMA LifecycleStep ==
  ASSUME LifecycleIInv, [LifecycleNext]_lifecycleVars
  PROVE  LifecycleIInv' /\ (LifecycleNext => OwnStep /\ EndStep)
<1>1. CASE LifecycleNext
  BY <1>1, CreateStep, HookEndsStep, ClearMarkerStep, ResolveStep, PatchStep, PrepareStep, DrainStep,
     DrainFailsStep, FinishStep, MarkRetryableStep, QueueStep, StartStep, CommitStep, DieStep,
     LeaseRunsOutStep DEF LifecycleNext
<1>2. CASE UNCHANGED lifecycleVars /\ ~LifecycleNext
  BY <1>2 DEF lifecycleVars, runVars, LifecycleIInv, LifecycleTypeOK, MarksAgree, CreatedOnce, EndedOrDeleted,
     NotedOnRow, DrainCovers, NothingRuns, Mine
<1> QED BY <1>1, <1>2

LEMMA LifecycleHolds == LifecycleSpec => []LifecycleIInv
BY LifecycleInitially, LifecycleStep, PTL DEF LifecycleSpec

\* LifecycleInv (delete-route.ts, markDeletionRetryable): the marks of a
\* deletion are those of the generation in charge, and an ended session never
\* becomes active again, whatever fails.
THEOREM Lifecycle == LifecycleSpec => []LifecycleInv
<1>1. LifecycleIInv => LifecycleInv
  BY DEF LifecycleIInv, LifecycleInv, MarksAgree, EndedOrDeleted, EndedStaysClosed
<1> QED BY <1>1, LifecycleHolds, PTL

\* OwnIncarnationOnly (readLockedSession, clearLifecycleMarker,
\* completeDeletion): a request or run never changes the row of another
\* incarnation.
THEOREM OwnIncarnation == LifecycleSpec => OwnIncarnationOnly
<1>1. LifecycleIInv /\ [LifecycleNext]_lifecycleVars => [OwnStep]_lifecycleVars
  BY LifecycleStep
<1> QED BY <1>1, LifecycleHolds, PTL DEF LifecycleSpec, OwnIncarnationOnly, OwnStep

\* EndsOnce (completeDeletion, deletionEndHookFiredNonce): SessionEnd and the
\* removal of the row wait for the background runs, and SessionEnd does not
\* run again once it is noted.
THEOREM EndOnce == LifecycleSpec => EndsOnce
<1>1. LifecycleIInv /\ [LifecycleNext]_lifecycleVars => [EndStep]_lifecycleVars
  BY LifecycleStep
<1> QED BY <1>1, LifecycleHolds, PTL DEF LifecycleSpec, EndsOnce, EndStep
=============================================================================
