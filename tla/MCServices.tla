----------------------------- MODULE MCServices -----------------------------
(***************************************************************************)
(* One instance of each service module for TLC. The services share nothing *)
(* here: a behaviour is one of the service `part` names, and the variables *)
(* of the others keep their initial values.                                *)
(*                                                                         *)
(* Lifecycle: two creations of one id, one PATCH that ends the session and *)
(* one that activates it, two deletions and a background job. Turns: two   *)
(* requests, one of them new input, and two interjections. Projection: one *)
(* worker, whose clock is a tick off, a route and passes. Finalize: three  *)
(* results and one operation, as each of 6 kinds of execution, with a      *)
(* nested result, skipped and failed ones, upstreams and one read, twice.  *)
(* Barrier: one execution among others and two settling jobs. Approvals:   *)
(* an action under two scopes and one of another plugin, two payloads.     *)
(***************************************************************************)
EXTENDS MCSessionLifecycle, TurnControl, JobStatusProjection, FinalizeExecution,
        SettleBarrier, ApprovalGate

CONSTANTS s1, s2, p, q

VARIABLE part

MCMaxWait == s1 :> 1 @@ s2 :> 2

MCKeys == {<<1, p, "show">>, <<2, p, "show">>, <<1, q, "show">>}

Kinds ==
  LET a == "aux"  s == "story"  u == "setup"
  IN {<<a, a, a>>, <<s, a, a>>, <<a, s, a>>, <<a, a, s>>, <<u, s, a>>, <<a, u, s>>}

ResultStatuses ==
  {<<"success", "success", "success">>}
    \cup {[r \in 1..3 |-> IF r = bad THEN s ELSE "success"] :
            bad \in 1..2, s \in {"failed", "skipped"}}

Upstreams == {<<{}, {}, {}>>, <<{}, {}, {{2}}>>, <<{}, {}, {{1, 2}}>>, <<{}, {{1}}, {{2}}>>}

ReadEdges ==
  {<<2, Run(1)>>, <<3, Run(1)>>, <<3, Run(2)>>, <<1, Op(1)>>, <<2, Op(1)>>, <<3, Op(1)>>}

Reads ==
  {[r \in 1..3 |-> {}]}
    \cup {[r \in 1..3 |-> IF r = e[1] THEN {e[2]} ELSE {}] : e \in ReadEdges}

\* Only top-level results have upstreams and are ones.
MCPlans ==
  {w \in [root : {<<1, 2, 3>>, <<2, 2, 3>>}, kind : Kinds, status : ResultStatuses,
          needs : Upstreams, reads : Reads, caller : [1..1 -> 1..3]] :
     \A r \in 1..3 :
       w.root[r] # r => w.needs[r] = {} /\ \A u \in 1..3 : \A need \in w.needs[u] : r \notin need}

APlan == CHOOSE w \in MCPlans : TRUE

MCInit ==
  /\ LifecycleInit /\ TurnInit /\ ProjectionInit /\ BarrierInit /\ GateInit
  /\ \/ /\ part \in {"lifecycle", "turns", "projection", "barrier", "approvals"}
        /\ work = APlan /\ FinalizeInit
     \/ part = "finalize" /\ FinalizeInit
  /\ part # "barrier" => runnable = {}

MCNext ==
  \/ /\ part = "lifecycle" /\ LifecycleNext
     /\ UNCHANGED <<part, turnVars, projectionVars, finalizeVars, barrierVars, gateVars>>
  \/ /\ part = "turns" /\ TurnNext
     /\ UNCHANGED <<part, lifecycleVars, projectionVars, finalizeVars, barrierVars, gateVars>>
  \/ /\ part = "projection" /\ ProjectionNext
     /\ UNCHANGED <<part, lifecycleVars, turnVars, finalizeVars, barrierVars, gateVars>>
  \/ /\ part = "finalize" /\ FinalizeNext
     /\ UNCHANGED <<part, lifecycleVars, turnVars, projectionVars, barrierVars, gateVars>>
  \/ /\ part = "barrier" /\ BarrierNext
     /\ UNCHANGED <<part, lifecycleVars, turnVars, projectionVars, finalizeVars, gateVars>>
  \/ /\ part = "approvals" /\ GateNext
     /\ UNCHANGED <<part, lifecycleVars, turnVars, projectionVars, finalizeVars, barrierVars>>

MCSpec ==
  MCInit /\ [][MCNext]_<<part, lifecycleVars, turnVars, projectionVars, finalizeVars, barrierVars,
                         gateVars>>
=============================================================================
