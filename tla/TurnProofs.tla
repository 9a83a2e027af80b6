----------------------------- MODULE TurnProofs -----------------------------
(***************************************************************************)
(* Player actions and the commit of their executions, each for any values  *)
(* of its constants.                                                       *)
(***************************************************************************)
EXTENDS TurnControl, FinalizeExecution, FiniteSetTheorems, TLAPS

-----------------------------------------------------------------------------
(***************************************************************************)
(* Turn control, for any requests, messages and limits: the invariant      *)
(* (TurnControlInv), that a stop is final (StopIsFinal), and that new      *)
(* input ends automatic rounds (NewInputEndsRounds). The invariant has two *)
(* halves. The one about requests is about who holds the session lock, the *)
(* one about interjections says where each message is: with the player, in *)
(* the queue of one request, or saved.                                     *)
(***************************************************************************)

Stages == {"new", "ready", "queued", "admitting", "begun", "running", "settled", "ended", "finished", "gone"}

\* The types of what is not a queue.
ControlTyped ==
  /\ stage \in [Actions -> Stages]
  /\ turn \in [Actions -> {"first", "opening", "round"}]
  /\ rounds \in [Actions -> 0..MaxRounds]
  /\ execLock \in Actions \cup {NoAction} /\ active \in Actions \cup {NoAction}
  /\ waiting \subseteq Actions /\ aborted \subseteq Actions /\ barred \subseteq Actions
  /\ auto \subseteq Actions /\ open \subseteq Actions /\ finished \subseteq Actions
  /\ kept \subseteq Actions /\ superseded \subseteq Actions

\* The session lock is held from the admission of a turn to its end.
LockHeld == \A r \in Actions : execLock = r <=> stage[r] \in {"admitting", "begun", "running"}

\* A round that is yet to start is within the limit.
RoundAllowed ==
  \A r \in Actions :
    /\ stage[r] = "new" => turn[r] = "first"
    /\ turn[r] = "round" /\ stage[r] \in {"ready", "queued", "admitting", "begun"} => rounds[r] < MaxRounds

SupersededBarred == superseded \subseteq barred

ControlInv == ControlTyped /\ LockHeld /\ RunningIsActive /\ RoundAllowed /\ SupersededBarred

\* The two action properties, for one step.
StopStep ==
  \A r \in aborted :
    /\ stage[r] # "begun" => stage'[r] # "begun"
    /\ r \notin kept => r \notin kept'

RoundStep ==
  \A r \in superseded : turn[r] = "round" /\ stage[r] = "begun" => stage'[r] # "running"

LEMMA RegisterStep ==
  ASSUME ControlInv, NEW r \in Actions, Register(r)
  PROVE  ControlInv' /\ StopStep /\ RoundStep
<1>1. ControlTyped'
  BY TurnControlAssumption DEF ControlInv, ControlTyped, Register, GoesTo, Reachable, Stages
<1>2. LockHeld'
  BY TurnControlAssumption DEF ControlInv, ControlTyped, Register, GoesTo, Reachable, Stages, LockHeld
<1>3. RunningIsActive'
  BY TurnControlAssumption DEF ControlInv, ControlTyped, Register, GoesTo, Reachable, Stages, LockHeld, RunningIsActive
<1>4. RoundAllowed'
  BY TurnControlAssumption DEF ControlInv, ControlTyped, Register, GoesTo, Reachable, Stages, RoundAllowed
<1>5. SupersededBarred'
  BY TurnControlAssumption DEF ControlInv, ControlTyped, Register, GoesTo, Reachable, SupersededBarred
<1>6. StopStep
  BY TurnControlAssumption DEF ControlInv, ControlTyped, Register, GoesTo, Reachable, Stages, StopStep
<1>7. RoundStep
  BY TurnControlAssumption DEF ControlInv, ControlTyped, Register, GoesTo, Reachable, Stages, RoundStep, SupersededBarred
<1> QED BY <1>1, <1>2, <1>3, <1>4, <1>5, <1>6, <1>7 DEF ControlInv

LEMMA AskStep ==
  ASSUME ControlInv, NEW r \in Actions, Ask(r)
  PROVE  ControlInv' /\ StopStep /\ RoundStep
<1>1. ControlTyped'
  BY TurnControlAssumption DEF ControlInv, ControlTyped, Ask, GoesTo, Stages
<1>2. LockHeld'
  BY TurnControlAssumption DEF ControlInv, ControlTyped, Ask, GoesTo, Stages, LockHeld
<1>3. RunningIsActive'
  BY TurnControlAssumption DEF ControlInv, ControlTyped, Ask, GoesTo, Stages, LockHeld, RunningIsActive
<1>4. RoundAllowed'
  BY TurnControlAssumption DEF ControlInv, ControlTyped, Ask, GoesTo, Stages, RoundAllowed
<1>5. SupersededBarred'
  BY TurnControlAssumption DEF ControlInv, ControlTyped, Ask, GoesTo, SupersededBarred
<1>6. StopStep
  BY TurnControlAssumption DEF ControlInv, ControlTyped, Ask, GoesTo, Stages, StopStep
<1>7. RoundStep
  BY TurnControlAssumption DEF ControlInv, ControlTyped, Ask, GoesTo, Stages, RoundStep, SupersededBarred
<1> QED BY <1>1, <1>2, <1>3, <1>4, <1>5, <1>6, <1>7 DEF ControlInv

LEMMA StopWaitingStep ==
  ASSUME ControlInv, NEW r \in Actions, StopWaiting(r)
  PROVE  ControlInv' /\ StopStep /\ RoundStep
<1>1. ControlTyped'
  BY TurnControlAssumption DEF ControlInv, ControlTyped, StopWaiting, GoesTo, Stages
<1>2. LockHeld'
  BY TurnControlAssumption DEF ControlInv, ControlTyped, StopWaiting, GoesTo, Stages, LockHeld
<1>3. RunningIsActive'
  BY TurnControlAssumption DEF ControlInv, ControlTyped, StopWaiting, GoesTo, Stages, LockHeld, RunningIsActive
<1>4. RoundAllowed'
  BY TurnControlAssumption DEF ControlInv, ControlTyped, StopWaiting, GoesTo, Stages, RoundAllowed
<1>5. SupersededBarred'
  BY TurnControlAssumption DEF ControlInv, ControlTyped, StopWaiting, GoesTo, SupersededBarred
<1>6. StopStep
  BY TurnControlAssumption DEF ControlInv, ControlTyped, StopWaiting, GoesTo, Stages, StopStep
<1>7. RoundStep
  BY TurnControlAssumption DEF ControlInv, ControlTyped, StopWaiting, GoesTo, Stages, RoundStep, SupersededBarred
<1> QED BY <1>1, <1>2, <1>3, <1>4, <1>5, <1>6, <1>7 DEF ControlInv

LEMMA TakeLockStep ==
  ASSUME ControlInv, NEW r \in Actions, TakeLock(r)
  PROVE  ControlInv' /\ StopStep /\ RoundStep
<1>1. ControlTyped'
  BY TurnControlAssumption DEF ControlInv, ControlTyped, TakeLock, GoesTo, Stages
<1>2. LockHeld'
  BY TurnControlAssumption DEF ControlInv, ControlTyped, TakeLock, GoesTo, Stages, LockHeld
<1>3. RunningIsActive'
  BY TurnControlAssumption DEF ControlInv, ControlTyped, TakeLock, GoesTo, Stages, LockHeld, RunningIsActive
<1>4. RoundAllowed'
  BY TurnControlAssumption DEF ControlInv, ControlTyped, TakeLock, GoesTo, Stages, RoundAllowed
<1>5. SupersededBarred'
  BY TurnControlAssumption DEF ControlInv, ControlTyped, TakeLock, GoesTo, SupersededBarred
<1>6. StopStep
  BY TurnControlAssumption DEF ControlInv, ControlTyped, TakeLock, GoesTo, Stages, StopStep
<1>7. RoundStep
  BY TurnControlAssumption DEF ControlInv, ControlTyped, TakeLock, GoesTo, Stages, RoundStep, SupersededBarred
<1> QED BY <1>1, <1>2, <1>3, <1>4, <1>5, <1>6, <1>7 DEF ControlInv

LEMMA RefuseStep ==
  ASSUME ControlInv, NEW r \in Actions, Refuse(r)
  PROVE  ControlInv' /\ StopStep /\ RoundStep
<1>1. ControlTyped'
  BY TurnControlAssumption DEF ControlInv, ControlTyped, Refuse, TurnEnds, GoesTo, Stages
<1>2. LockHeld'
  BY TurnControlAssumption DEF ControlInv, ControlTyped, Refuse, TurnEnds, GoesTo, Stages, LockHeld
<1>3. RunningIsActive'
  BY TurnControlAssumption DEF ControlInv, ControlTyped, Refuse, TurnEnds, GoesTo, Stages, LockHeld, RunningIsActive
<1>4. RoundAllowed'
  BY TurnControlAssumption DEF ControlInv, ControlTyped, Refuse, TurnEnds, GoesTo, Stages, RoundAllowed
<1>5. SupersededBarred'
  BY TurnControlAssumption DEF ControlInv, ControlTyped, Refuse, TurnEnds, GoesTo, SupersededBarred
<1>6. StopStep
  BY TurnControlAssumption DEF ControlInv, ControlTyped, Refuse, TurnEnds, GoesTo, Stages, StopStep
<1>7. RoundStep
  BY TurnControlAssumption DEF ControlInv, ControlTyped, Refuse, TurnEnds, GoesTo, Stages, RoundStep, SupersededBarred
<1> QED BY <1>1, <1>2, <1>3, <1>4, <1>5, <1>6, <1>7 DEF ControlInv

LEMMA BeginStep ==
  ASSUME ControlInv, NEW r \in Actions, Begin(r)
  PROVE  ControlInv' /\ StopStep /\ RoundStep
<1>1. ControlTyped'
  BY TurnControlAssumption DEF ControlInv, ControlTyped, Begin, GoesTo, StoppedLate, Stages
<1>2. LockHeld'
  BY TurnControlAssumption DEF ControlInv, ControlTyped, Begin, GoesTo, StoppedLate, Stages, LockHeld
<1>3. RunningIsActive'
  BY TurnControlAssumption DEF ControlInv, ControlTyped, Begin, GoesTo, StoppedLate, Stages, LockHeld, RunningIsActive
<1>4. RoundAllowed'
  BY TurnControlAssumption DEF ControlInv, ControlTyped, Begin, GoesTo, StoppedLate, Stages, RoundAllowed
<1>5. SupersededBarred'
  BY TurnControlAssumption DEF ControlInv, ControlTyped, Begin, GoesTo, StoppedLate, SupersededBarred
<1>6. StopStep
  BY TurnControlAssumption DEF ControlInv, ControlTyped, Begin, GoesTo, StoppedLate, Stages, StopStep
<1>7. RoundStep
  BY TurnControlAssumption DEF ControlInv, ControlTyped, Begin, GoesTo, StoppedLate, Stages, RoundStep, SupersededBarred
<1> QED BY <1>1, <1>2, <1>3, <1>4, <1>5, <1>6, <1>7 DEF ControlInv

LEMMA ExecuteStep ==
  ASSUME ControlInv, NEW r \in Actions, Execute(r)
  PROVE  ControlInv' /\ StopStep /\ RoundStep
<1>1. ControlTyped'
  BY TurnControlAssumption DEF ControlInv, ControlTyped, Execute, GoesTo, Unwanted, CanAdvance, RoundAllowed, Stages
<1>2. LockHeld'
  BY TurnControlAssumption DEF ControlInv, ControlTyped, Execute, GoesTo, Unwanted, CanAdvance, RoundAllowed, Stages, LockHeld
<1>3. RunningIsActive'
  BY TurnControlAssumption DEF ControlInv, ControlTyped, Execute, GoesTo, Unwanted, CanAdvance, RoundAllowed, Stages, LockHeld, RunningIsActive
<1>4. RoundAllowed'
  BY TurnControlAssumption DEF ControlInv, ControlTyped, Execute, GoesTo, Unwanted, CanAdvance, RoundAllowed, Stages
<1>5. SupersededBarred'
  BY TurnControlAssumption DEF ControlInv, ControlTyped, Execute, GoesTo, Unwanted, CanAdvance, RoundAllowed, SupersededBarred
<1>6. StopStep
  BY TurnControlAssumption DEF ControlInv, ControlTyped, Execute, GoesTo, Unwanted, CanAdvance, RoundAllowed, Stages, StopStep
<1>7. RoundStep
  BY TurnControlAssumption DEF ControlInv, ControlTyped, Execute, GoesTo, Unwanted, CanAdvance, RoundAllowed, Stages, RoundStep, SupersededBarred
<1> QED BY <1>1, <1>2, <1>3, <1>4, <1>5, <1>6, <1>7 DEF ControlInv

LEMMA ReadSteeringStep ==
  ASSUME ControlInv, NEW r \in Actions, ReadSteering(r)
  PROVE  ControlInv' /\ StopStep /\ RoundStep
<1>1. ControlTyped'
  BY TurnControlAssumption DEF ControlInv, ControlTyped, ReadSteering, Stages
<1>2. LockHeld'
  BY TurnControlAssumption DEF ControlInv, ControlTyped, ReadSteering, Stages, LockHeld
<1>3. RunningIsActive'
  BY TurnControlAssumption DEF ControlInv, ControlTyped, ReadSteering, Stages, LockHeld, RunningIsActive
<1>4. RoundAllowed'
  BY TurnControlAssumption DEF ControlInv, ControlTyped, ReadSteering, Stages, RoundAllowed
<1>5. SupersededBarred'
  BY TurnControlAssumption DEF ControlInv, ControlTyped, ReadSteering, SupersededBarred
<1>6. StopStep
  BY TurnControlAssumption DEF ControlInv, ControlTyped, ReadSteering, Stages, StopStep
<1>7. RoundStep
  BY TurnControlAssumption DEF ControlInv, ControlTyped, ReadSteering, Stages, RoundStep, SupersededBarred
<1> QED BY <1>1, <1>2, <1>3, <1>4, <1>5, <1>6, <1>7 DEF ControlInv

LEMMA CloseSteeringStep ==
  ASSUME ControlInv, NEW r \in Actions, CloseSteering(r)
  PROVE  ControlInv' /\ StopStep /\ RoundStep
<1>1. ControlTyped'
  BY TurnControlAssumption DEF ControlInv, ControlTyped, CloseSteering, Stages
<1>2. LockHeld'
  BY TurnControlAssumption DEF ControlInv, ControlTyped, CloseSteering, Stages, LockHeld
<1>3. RunningIsActive'
  BY TurnControlAssumption DEF ControlInv, ControlTyped, CloseSteering, Stages, LockHeld, RunningIsActive
<1>4. RoundAllowed'
  BY TurnControlAssumption DEF ControlInv, ControlTyped, CloseSteering, Stages, RoundAllowed
<1>5. SupersededBarred'
  BY TurnControlAssumption DEF ControlInv, ControlTyped, CloseSteering, SupersededBarred
<1>6. StopStep
  BY TurnControlAssumption DEF ControlInv, ControlTyped, CloseSteering, Stages, StopStep
<1>7. RoundStep
  BY TurnControlAssumption DEF ControlInv, ControlTyped, CloseSteering, Stages, RoundStep, SupersededBarred
<1> QED BY <1>1, <1>2, <1>3, <1>4, <1>5, <1>6, <1>7 DEF ControlInv

LEMMA CommitTurnStep ==
  ASSUME ControlInv, NEW r \in Actions, CommitTurn(r)
  PROVE  ControlInv' /\ StopStep /\ RoundStep
<1>1. ControlTyped'
  BY TurnControlAssumption DEF ControlInv, ControlTyped, CommitTurn, CloseInterjections, ShutSteering, GoesTo, Stages
<1>2. LockHeld'
  BY TurnControlAssumption DEF ControlInv, ControlTyped, CommitTurn, CloseInterjections, ShutSteering, GoesTo, Stages, LockHeld
<1>3. RunningIsActive'
  BY TurnControlAssumption DEF ControlInv, ControlTyped, CommitTurn, CloseInterjections, ShutSteering, GoesTo, Stages, LockHeld, RunningIsActive
<1>4. RoundAllowed'
  BY TurnControlAssumption DEF ControlInv, ControlTyped, CommitTurn, CloseInterjections, ShutSteering, GoesTo, Stages, RoundAllowed
<1>5. SupersededBarred'
  BY TurnControlAssumption DEF ControlInv, ControlTyped, CommitTurn, CloseInterjections, ShutSteering, GoesTo, SupersededBarred
<1>6. StopStep
  BY TurnControlAssumption DEF ControlInv, ControlTyped, CommitTurn, CloseInterjections, ShutSteering, GoesTo, Stages, StopStep
<1>7. RoundStep
  BY TurnControlAssumption DEF ControlInv, ControlTyped, CommitTurn, CloseInterjections, ShutSteering, GoesTo, Stages, RoundStep, SupersededBarred
<1> QED BY <1>1, <1>2, <1>3, <1>4, <1>5, <1>6, <1>7 DEF ControlInv

LEMMA FailTurnStep ==
  ASSUME ControlInv, NEW r \in Actions, FailTurn(r)
  PROVE  ControlInv' /\ StopStep /\ RoundStep
<1>1. ControlTyped'
  BY TurnControlAssumption DEF ControlInv, ControlTyped, FailTurn, TurnEnds, GoesTo, Stages
<1>2. LockHeld'
  BY TurnControlAssumption DEF ControlInv, ControlTyped, FailTurn, TurnEnds, GoesTo, Stages, LockHeld
<1>3. RunningIsActive'
  BY TurnControlAssumption DEF ControlInv, ControlTyped, FailTurn, TurnEnds, GoesTo, Stages, LockHeld, RunningIsActive
<1>4. RoundAllowed'
  BY TurnControlAssumption DEF ControlInv, ControlTyped, FailTurn, TurnEnds, GoesTo, Stages, RoundAllowed
<1>5. SupersededBarred'
  BY TurnControlAssumption DEF ControlInv, ControlTyped, FailTurn, TurnEnds, GoesTo, SupersededBarred
<1>6. StopStep
  BY TurnControlAssumption DEF ControlInv, ControlTyped, FailTurn, TurnEnds, GoesTo, Stages, StopStep
<1>7. RoundStep
  BY TurnControlAssumption DEF ControlInv, ControlTyped, FailTurn, TurnEnds, GoesTo, Stages, RoundStep, SupersededBarred
<1> QED BY <1>1, <1>2, <1>3, <1>4, <1>5, <1>6, <1>7 DEF ControlInv

LEMMA ChainOpeningStep ==
  ASSUME ControlInv, NEW r \in Actions, ChainOpening(r)
  PROVE  ControlInv' /\ StopStep /\ RoundStep
<1>1. ControlTyped'
  BY TurnControlAssumption DEF ControlInv, ControlTyped, ChainOpening, GoesTo, Stages
<1>2. LockHeld'
  BY TurnControlAssumption DEF ControlInv, ControlTyped, ChainOpening, GoesTo, Stages, LockHeld
<1>3. RunningIsActive'
  BY TurnControlAssumption DEF ControlInv, ControlTyped, ChainOpening, GoesTo, Stages, LockHeld, RunningIsActive
<1>4. RoundAllowed'
  BY TurnControlAssumption DEF ControlInv, ControlTyped, ChainOpening, GoesTo, Stages, RoundAllowed
<1>5. SupersededBarred'
  BY TurnControlAssumption DEF ControlInv, ControlTyped, ChainOpening, GoesTo, SupersededBarred
<1>6. StopStep
  BY TurnControlAssumption DEF ControlInv, ControlTyped, ChainOpening, GoesTo, Stages, StopStep
<1>7. RoundStep
  BY TurnControlAssumption DEF ControlInv, ControlTyped, ChainOpening, GoesTo, Stages, RoundStep, SupersededBarred
<1> QED BY <1>1, <1>2, <1>3, <1>4, <1>5, <1>6, <1>7 DEF ControlInv

LEMMA ChainRoundStep ==
  ASSUME ControlInv, NEW r \in Actions, ChainRound(r)
  PROVE  ControlInv' /\ StopStep /\ RoundStep
<1>1. ControlTyped'
  BY TurnControlAssumption DEF ControlInv, ControlTyped, ChainRound, GoesTo, Stages
<1>2. LockHeld'
  BY TurnControlAssumption DEF ControlInv, ControlTyped, ChainRound, GoesTo, Stages, LockHeld
<1>3. RunningIsActive'
  BY TurnControlAssumption DEF ControlInv, ControlTyped, ChainRound, GoesTo, Stages, LockHeld, RunningIsActive
<1>4. RoundAllowed'
  BY TurnControlAssumption DEF ControlInv, ControlTyped, ChainRound, GoesTo, Stages, RoundAllowed
<1>5. SupersededBarred'
  BY TurnControlAssumption DEF ControlInv, ControlTyped, ChainRound, GoesTo, SupersededBarred
<1>6. StopStep
  BY TurnControlAssumption DEF ControlInv, ControlTyped, ChainRound, GoesTo, Stages, StopStep
<1>7. RoundStep
  BY TurnControlAssumption DEF ControlInv, ControlTyped, ChainRound, GoesTo, Stages, RoundStep, SupersededBarred
<1> QED BY <1>1, <1>2, <1>3, <1>4, <1>5, <1>6, <1>7 DEF ControlInv

LEMMA FinishActionStep ==
  ASSUME ControlInv, NEW r \in Actions, FinishAction(r)
  PROVE  ControlInv' /\ StopStep /\ RoundStep
<1>1. ControlTyped'
  BY TurnControlAssumption DEF ControlInv, ControlTyped, FinishAction, GoesTo, Stages
<1>2. LockHeld'
  BY TurnControlAssumption DEF ControlInv, ControlTyped, FinishAction, GoesTo, Stages, LockHeld
<1>3. RunningIsActive'
  BY TurnControlAssumption DEF ControlInv, ControlTyped, FinishAction, GoesTo, Stages, LockHeld, RunningIsActive
<1>4. RoundAllowed'
  BY TurnControlAssumption DEF ControlInv, ControlTyped, FinishAction, GoesTo, Stages, RoundAllowed
<1>5. SupersededBarred'
  BY TurnControlAssumption DEF ControlInv, ControlTyped, FinishAction, GoesTo, SupersededBarred
<1>6. StopStep
  BY TurnControlAssumption DEF ControlInv, ControlTyped, FinishAction, GoesTo, Stages, StopStep
<1>7. RoundStep
  BY TurnControlAssumption DEF ControlInv, ControlTyped, FinishAction, GoesTo, Stages, RoundStep, SupersededBarred
<1> QED BY <1>1, <1>2, <1>3, <1>4, <1>5, <1>6, <1>7 DEF ControlInv

LEMMA ReleaseStep ==
  ASSUME ControlInv, NEW r \in Actions, Release(r)
  PROVE  ControlInv' /\ StopStep /\ RoundStep
<1>1. ControlTyped'
  BY TurnControlAssumption DEF ControlInv, ControlTyped, Release, GoesTo, LeaveActive, Stages
<1>2. LockHeld'
  BY TurnControlAssumption DEF ControlInv, ControlTyped, Release, GoesTo, LeaveActive, Stages, LockHeld
<1>3. RunningIsActive'
  BY TurnControlAssumption DEF ControlInv, ControlTyped, Release, GoesTo, LeaveActive, Stages, LockHeld, RunningIsActive
<1>4. RoundAllowed'
  BY TurnControlAssumption DEF ControlInv, ControlTyped, Release, GoesTo, LeaveActive, Stages, RoundAllowed
<1>5. SupersededBarred'
  BY TurnControlAssumption DEF ControlInv, ControlTyped, Release, GoesTo, LeaveActive, SupersededBarred
<1>6. StopStep
  BY TurnControlAssumption DEF ControlInv, ControlTyped, Release, GoesTo, LeaveActive, Stages, StopStep
<1>7. RoundStep
  BY TurnControlAssumption DEF ControlInv, ControlTyped, Release, GoesTo, LeaveActive, Stages, RoundStep, SupersededBarred
<1> QED BY <1>1, <1>2, <1>3, <1>4, <1>5, <1>6, <1>7 DEF ControlInv

LEMMA SteerStep ==
  ASSUME ControlInv, NEW m \in Messages, Steer(m)
  PROVE  ControlInv' /\ StopStep /\ RoundStep
<1>1. ControlTyped'
  BY TurnControlAssumption DEF ControlInv, ControlTyped, Steer, Stages
<1>2. LockHeld'
  BY TurnControlAssumption DEF ControlInv, ControlTyped, Steer, Stages, LockHeld
<1>3. RunningIsActive'
  BY TurnControlAssumption DEF ControlInv, ControlTyped, Steer, Stages, LockHeld, RunningIsActive
<1>4. RoundAllowed'
  BY TurnControlAssumption DEF ControlInv, ControlTyped, Steer, Stages, RoundAllowed
<1>5. SupersededBarred'
  BY TurnControlAssumption DEF ControlInv, ControlTyped, Steer, SupersededBarred
<1>6. StopStep
  BY TurnControlAssumption DEF ControlInv, ControlTyped, Steer, Stages, StopStep
<1>7. RoundStep
  BY TurnControlAssumption DEF ControlInv, ControlTyped, Steer, Stages, RoundStep, SupersededBarred
<1> QED BY <1>1, <1>2, <1>3, <1>4, <1>5, <1>6, <1>7 DEF ControlInv

LEMMA StopActionStep ==
  ASSUME ControlInv, StopAction
  PROVE  ControlInv' /\ StopStep /\ RoundStep
<1>1. ControlTyped'
  BY TurnControlAssumption DEF ControlInv, ControlTyped, StopAction, Stages
<1>2. LockHeld'
  BY TurnControlAssumption DEF ControlInv, ControlTyped, StopAction, Stages, LockHeld
<1>3. RunningIsActive'
  BY TurnControlAssumption DEF ControlInv, ControlTyped, StopAction, Stages, LockHeld, RunningIsActive
<1>4. RoundAllowed'
  BY TurnControlAssumption DEF ControlInv, ControlTyped, StopAction, Stages, RoundAllowed
<1>5. SupersededBarred'
  BY TurnControlAssumption DEF ControlInv, ControlTyped, StopAction, SupersededBarred
<1>6. StopStep
  BY TurnControlAssumption DEF ControlInv, ControlTyped, StopAction, Stages, StopStep
<1>7. RoundStep
  BY TurnControlAssumption DEF ControlInv, ControlTyped, StopAction, Stages, RoundStep, SupersededBarred
<1> QED BY <1>1, <1>2, <1>3, <1>4, <1>5, <1>6, <1>7 DEF ControlInv


LEMMA ControlInitially == TurnInit => ControlInv
BY TurnControlAssumption DEF TurnInit, ControlInv, ControlTyped, Stages, LockHeld, RunningIsActive, RoundAllowed,
   SupersededBarred

LEMMA ControlStep ==
  ASSUME ControlInv, [TurnNext]_turnVars
  PROVE  ControlInv' /\ (TurnNext => StopStep /\ RoundStep)
<1>1. CASE TurnNext
  BY <1>1, RegisterStep, AskStep, StopWaitingStep, TakeLockStep, RefuseStep, BeginStep, ExecuteStep,
     ReadSteeringStep, CloseSteeringStep, CommitTurnStep, FailTurnStep, ChainOpeningStep, ChainRoundStep,
     FinishActionStep, ReleaseStep, SteerStep, StopActionStep DEF TurnNext
<1>2. CASE UNCHANGED turnVars /\ ~TurnNext
  BY <1>2 DEF turnVars, ControlInv, ControlTyped, LockHeld, RunningIsActive, RoundAllowed, SupersededBarred
<1> QED BY <1>1, <1>2

LEMMA ControlHolds == TurnSpec => []ControlInv
BY ControlInitially, ControlStep, PTL DEF TurnSpec

\* StopIsFinal (abortActiveTurn, beginTurn, commitExecution): no turn of a
\* request that a stop has found starts or is saved later.
THEOREM StopFinal == TurnSpec => StopIsFinal
<1>1. ControlInv /\ [TurnNext]_turnVars => [StopStep]_turnVars
  BY ControlStep
<1> QED BY <1>1, ControlHolds, PTL DEF TurnSpec, StopIsFinal, StopStep

\* NewInputEndsRounds (registerActionRequest, canAdvance): an older request
\* that new input has found starts no further round.
THEOREM RoundsEnd == TurnSpec => NewInputEndsRounds
<1>1. ControlInv /\ [TurnNext]_turnVars => [RoundStep]_turnVars
  BY ControlStep
<1> QED BY <1>1, ControlHolds, PTL DEF TurnSpec, NewInputEndsRounds, RoundStep

-----------------------------------------------------------------------------
(* Interjections *)

\* What a model call has not read is the end of what was accepted.
QueuesMatch ==
  \A r \in Actions :
    /\ accepted[r] \in Seq(Messages) /\ steering[r] \in Seq(Messages) /\ readUpTo[r] \in Nat
    /\ readUpTo[r] + Len(steering[r]) = Len(accepted[r])
    /\ \A i \in 1..Len(steering[r]) : steering[r][i] = accepted[r][readUpTo[r] + i]

\* A message is with the player, accepted by one request, or saved, once.
MessagesOnce ==
  /\ unsent \subseteq Messages /\ saved \in Seq(Messages)
  /\ \A i \in 1..Len(saved) : saved[i] \notin unsent
  /\ \A i, j \in 1..Len(saved) : saved[i] = saved[j] => i = j
  /\ \A r \in Actions : \A i \in 1..Len(accepted[r]) :
       /\ accepted[r][i] \notin unsent
       /\ \A j \in 1..Len(saved) : saved[j] # accepted[r][i]
       /\ \A q \in Actions : \A j \in 1..Len(accepted[q]) :
            accepted[q][j] = accepted[r][i] => q = r /\ i = j

\* A request whose last turn committed accepts nothing.
KeptIsShut == \A r \in kept : r \notin open /\ accepted[r] = <<>>

QueueInv ==
  /\ accepted = [r \in Actions |-> accepted[r]]
  /\ steering = [r \in Actions |-> steering[r]]
  /\ readUpTo = [r \in Actions |-> readUpTo[r]]
  /\ QueuesMatch /\ MessagesOnce /\ KeptIsShut

LEMMA QueuesInitially == TurnInit => QueueInv
BY DEF TurnInit, QueueInv, QueuesMatch, MessagesOnce, KeptIsShut

LEMMA Appended ==
  ASSUME NEW s \in Seq(Messages), NEW m \in Messages
  PROVE  /\ Append(s, m) \in Seq(Messages) /\ Len(Append(s, m)) = Len(s) + 1
         /\ Append(s, m)[Len(s) + 1] = m
         /\ \A i \in 1..Len(s) : Append(s, m)[i] = s[i]
OBVIOUS

\* What was read is the head of what was accepted: a message at the end of both.
LEMMA SteerMatches ==
  ASSUME NEW a \in Seq(Messages), NEW s \in Seq(Messages), NEW n \in Nat, NEW m \in Messages,
         n + Len(s) = Len(a), \A i \in 1..Len(s) : s[i] = a[n + i]
  PROVE  /\ n + Len(Append(s, m)) = Len(Append(a, m))
         /\ \A i \in 1..Len(Append(s, m)) : Append(s, m)[i] = Append(a, m)[n + i]
<1>1. n + Len(Append(s, m)) = Len(Append(a, m))
  BY Appended
<1>2. ASSUME NEW i \in 1..Len(Append(s, m)) PROVE Append(s, m)[i] = Append(a, m)[n + i]
  <2>1. CASE i = Len(s) + 1
    <3>1. n + i = Len(a) + 1
      BY <2>1
    <3> QED BY <2>1, <3>1, Appended
  <2>2. CASE i \in 1..Len(s)
    <3>1. n + i \in 1..Len(a)
      BY <2>2
    <3> QED BY <2>2, <3>1, Appended
  <2> QED BY <1>2, <2>1, <2>2, Appended
<1> QED BY <1>1, <1>2

LEMMA SteerQueues ==
  ASSUME ControlInv, QueueInv, NEW m \in Messages, Steer(m)
  PROVE  QueueInv'
<1> DEFINE a == active
<1>1. /\ a \in Actions /\ a \in open /\ m \in unsent
      /\ unsent' = unsent \ {m} /\ UNCHANGED <<open, kept, readUpTo, saved>>
      /\ steering' = [steering EXCEPT ![a] = Append(steering[a], m)]
      /\ accepted' = [accepted EXCEPT ![a] = Append(accepted[a], m)]
  BY DEF Steer, ControlInv, ControlTyped
<1> HIDE DEF a
<1>2. /\ accepted'[a] = Append(accepted[a], m) /\ steering'[a] = Append(steering[a], m)
      /\ \A r \in Actions \ {a} : accepted'[r] = accepted[r] /\ steering'[r] = steering[r]
  BY <1>1 DEF QueueInv
<1>3. QueuesMatch'
  <2> SUFFICES ASSUME NEW r \in Actions
               PROVE  /\ accepted'[r] \in Seq(Messages) /\ steering'[r] \in Seq(Messages)
                      /\ readUpTo'[r] \in Nat
                      /\ readUpTo'[r] + Len(steering'[r]) = Len(accepted'[r])
                      /\ \A i \in 1..Len(steering'[r]) : steering'[r][i] = accepted'[r][readUpTo'[r] + i]
    BY DEF QueuesMatch
  <2>1. /\ accepted[r] \in Seq(Messages) /\ steering[r] \in Seq(Messages) /\ readUpTo[r] \in Nat
        /\ readUpTo[r] + Len(steering[r]) = Len(accepted[r])
        /\ \A i \in 1..Len(steering[r]) : steering[r][i] = accepted[r][readUpTo[r] + i]
    BY DEF QueueInv, QueuesMatch
  <2>2. CASE r = a
    BY <1>1, <1>2, <2>1, <2>2, Appended, SteerMatches
  <2>3. CASE r # a
    BY <1>1, <1>2, <2>1, <2>3
  <2> QED BY <2>2, <2>3
<1>4. MessagesOnce'
  <2>1. accepted[a] \in Seq(Messages)
    BY <1>1 DEF QueueInv, QueuesMatch
  <2>2. \A q \in Actions : \A i \in 1..Len(accepted'[q]) :
          \/ i \in 1..Len(accepted[q]) /\ accepted'[q][i] = accepted[q][i]
          \/ q = a /\ i = Len(accepted[a]) + 1 /\ accepted'[q][i] = m
    <3> SUFFICES ASSUME NEW q \in Actions, NEW i \in 1..Len(accepted'[q])
                 PROVE  \/ i \in 1..Len(accepted[q]) /\ accepted'[q][i] = accepted[q][i]
                        \/ q = a /\ i = Len(accepted[a]) + 1 /\ accepted'[q][i] = m
      OBVIOUS
    <3>1. CASE q = a
      <4>1. accepted'[q] = Append(accepted[a], m)
        BY <1>2, <3>1
      <4>2. i \in 1..Len(accepted[a]) \/ i = Len(accepted[a]) + 1
        BY <2>1, <4>1, Appended
      <4> QED BY <2>1, <3>1, <4>1, <4>2, Appended
    <3>2. CASE q # a
      BY <1>2, <3>2
    <3> QED BY <3>1, <3>2
  <2>3. \A q \in Actions : \A i \in 1..Len(accepted[q]) : accepted[q][i] # m
    BY <1>1 DEF QueueInv, MessagesOnce
  <2>4. ASSUME NEW p \in Actions, NEW i \in 1..Len(accepted'[p])
        PROVE  /\ accepted'[p][i] \notin unsent'
               /\ \A j \in 1..Len(saved') : saved'[j] # accepted'[p][i]
    BY <1>1, <2>2 DEF QueueInv, MessagesOnce
  <2>5. ASSUME NEW p \in Actions, NEW i \in 1..Len(accepted'[p]),
               NEW q \in Actions, NEW j \in 1..Len(accepted'[q]), accepted'[q][j] = accepted'[p][i]
        PROVE  q = p /\ i = j
    <3>1. ASSUME i \in 1..Len(accepted[p]), j \in 1..Len(accepted[q]),
                 accepted[q][j] = accepted[p][i]
          PROVE  q = p /\ i = j
      BY <3>1 DEF QueueInv, MessagesOnce
    <3> QED BY <2>2, <2>3, <2>5, <3>1
  <2>6. /\ unsent' \subseteq Messages /\ saved' \in Seq(Messages)
        /\ \A i \in 1..Len(saved') : saved'[i] \notin unsent'
        /\ \A i, j \in 1..Len(saved') : saved'[i] = saved'[j] => i = j
    BY <1>1 DEF QueueInv, MessagesOnce
  <2> QED BY <2>4, <2>5, <2>6 DEF MessagesOnce
<1>5. KeptIsShut'
  BY <1>1, <1>2 DEF QueueInv, KeptIsShut, ControlInv, ControlTyped
<1> QED BY <1>1, <1>3, <1>4, <1>5 DEF QueueInv

LEMMA ReadQueues ==
  ASSUME ControlInv, QueueInv, NEW r \in Actions, ReadSteering(r)
  PROVE  QueueInv'
<1>1. /\ readUpTo' = [readUpTo EXCEPT ![r] = readUpTo[r] + Len(steering[r])]
      /\ steering' = [steering EXCEPT ![r] = <<>>]
      /\ UNCHANGED <<accepted, unsent, saved, open, kept>>
  BY DEF ReadSteering
<1>2. /\ readUpTo'[r] = readUpTo[r] + Len(steering[r]) /\ steering'[r] = <<>>
      /\ \A q \in Actions \ {r} : readUpTo'[q] = readUpTo[q] /\ steering'[q] = steering[q]
  BY <1>1 DEF QueueInv
<1>3. QueuesMatch'
  <2> SUFFICES ASSUME NEW q \in Actions
               PROVE  /\ accepted'[q] \in Seq(Messages) /\ steering'[q] \in Seq(Messages)
                      /\ readUpTo'[q] \in Nat
                      /\ readUpTo'[q] + Len(steering'[q]) = Len(accepted'[q])
                      /\ \A i \in 1..Len(steering'[q]) : steering'[q][i] = accepted'[q][readUpTo'[q] + i]
    BY DEF QueuesMatch
  <2>1. /\ accepted[q] \in Seq(Messages) /\ steering[q] \in Seq(Messages) /\ readUpTo[q] \in Nat
        /\ readUpTo[q] + Len(steering[q]) = Len(accepted[q])
        /\ \A i \in 1..Len(steering[q]) : steering[q][i] = accepted[q][readUpTo[q] + i]
    BY DEF QueueInv, QueuesMatch
  <2>2. CASE q = r
    BY <1>1, <1>2, <2>1, <2>2
  <2>3. CASE q # r
    BY <1>1, <1>2, <2>1, <2>3
  <2> QED BY <2>2, <2>3
<1>4. MessagesOnce' /\ KeptIsShut'
  BY <1>1 DEF QueueInv, MessagesOnce, KeptIsShut
<1>5. UNCHANGED accepted
  BY <1>1
<1> QED BY <1>1, <1>3, <1>4, <1>5 DEF QueueInv

LEMMA CommitQueues ==
  ASSUME ControlInv, QueueInv, NEW r \in Actions, CommitTurn(r)
  PROVE  QueueInv'
<1>1. /\ steering' = [steering EXCEPT ![r] = <<>>] /\ readUpTo' = [readUpTo EXCEPT ![r] = 0]
      /\ accepted' = [accepted EXCEPT ![r] = <<>>] /\ open' = open \ {r} /\ UNCHANGED unsent
      /\ \/ saved' = saved \o accepted[r] /\ kept' = kept \cup {r}
         \/ UNCHANGED <<saved, kept>>
  BY DEF CommitTurn, CloseInterjections, ForgetQueue, ShutSteering
<1>2. /\ accepted'[r] = <<>> /\ steering'[r] = <<>> /\ readUpTo'[r] = 0
      /\ \A q \in Actions \ {r} :
           accepted'[q] = accepted[q] /\ steering'[q] = steering[q] /\ readUpTo'[q] = readUpTo[q]
  BY <1>1 DEF QueueInv
<1>3. QueuesMatch'
  <2> SUFFICES ASSUME NEW q \in Actions
               PROVE  /\ accepted'[q] \in Seq(Messages) /\ steering'[q] \in Seq(Messages)
                      /\ readUpTo'[q] \in Nat
                      /\ readUpTo'[q] + Len(steering'[q]) = Len(accepted'[q])
                      /\ \A i \in 1..Len(steering'[q]) : steering'[q][i] = accepted'[q][readUpTo'[q] + i]
    BY DEF QueuesMatch
  <2>1. CASE q = r
    <3>1. /\ accepted'[q] = <<>> /\ steering'[q] = <<>> /\ readUpTo'[q] = 0
      BY <1>2, <2>1
    <3>2. <<>> \in Seq(Messages) /\ Len(<<>>) = 0
      OBVIOUS
    <3> QED BY <3>1, <3>2
  <2>2. CASE q # r
    BY <1>2, <2>2 DEF QueueInv, QueuesMatch
  <2> QED BY <2>1, <2>2
<1>4. MessagesOnce'
  <2>0. \A q \in Actions : \A i \in 1..Len(accepted'[q]) :
          q # r /\ i \in 1..Len(accepted[q]) /\ accepted'[q][i] = accepted[q][i]
    <3>1. Len(accepted'[r]) = 0
      BY <1>2
    <3> QED BY <1>2, <3>1
  <2>1. CASE UNCHANGED saved
    <3>1. /\ unsent' \subseteq Messages /\ saved' \in Seq(Messages)
          /\ \A i \in 1..Len(saved') : saved'[i] \notin unsent'
          /\ \A i, j \in 1..Len(saved') : saved'[i] = saved'[j] => i = j
      BY <1>1, <2>1 DEF QueueInv, MessagesOnce
    <3>2. ASSUME NEW q \in Actions, NEW i \in 1..Len(accepted'[q])
          PROVE  /\ accepted'[q][i] \notin unsent'
                 /\ \A j \in 1..Len(saved') : saved'[j] # accepted'[q][i]
      <4>1. i \in 1..Len(accepted[q]) /\ accepted'[q][i] = accepted[q][i]
        BY <2>0
      <4>2. /\ accepted[q][i] \notin unsent
            /\ \A j \in 1..Len(saved) : saved[j] # accepted[q][i]
        BY <4>1 DEF QueueInv, MessagesOnce
      <4> QED BY <1>1, <2>1, <4>1, <4>2
    <3>3. ASSUME NEW p \in Actions, NEW i \in 1..Len(accepted'[p]),
                 NEW q \in Actions, NEW j \in 1..Len(accepted'[q])
          PROVE  accepted'[q][j] = accepted'[p][i] => q = p /\ i = j
      BY <2>0 DEF QueueInv, MessagesOnce
    <3> QED BY <3>1, <3>2, <3>3 DEF MessagesOnce
  <2>2. CASE saved' = saved \o accepted[r]
    <3>1. saved \in Seq(Messages) /\ accepted[r] \in Seq(Messages)
      BY DEF QueueInv, QueuesMatch, MessagesOnce
    <3>2. /\ saved' \in Seq(Messages) /\ Len(saved') = Len(saved) + Len(accepted[r])
          /\ \A i \in 1..Len(saved') :
               saved'[i] = IF i <= Len(saved) THEN saved[i] ELSE accepted[r][i - Len(saved)]
      BY <2>2, <3>1
    <3>3. \A i \in 1..Len(saved') :
            \/ i \in 1..Len(saved) /\ saved'[i] = saved[i]
            \/ i - Len(saved) \in 1..Len(accepted[r]) /\ saved'[i] = accepted[r][i - Len(saved)]
      BY <3>1, <3>2
    <3>4. \A i, j \in 1..Len(saved') : saved'[i] = saved'[j] => i = j
      BY <3>1, <3>3 DEF QueueInv, MessagesOnce
    <3>5. \A i \in 1..Len(saved') : saved'[i] \notin unsent'
      BY <1>1, <3>3 DEF QueueInv, MessagesOnce
    <3>6. ASSUME NEW q \in Actions, NEW i \in 1..Len(accepted'[q])
          PROVE  /\ accepted'[q][i] \notin unsent'
                 /\ \A j \in 1..Len(saved') : saved'[j] # accepted'[q][i]
      <4>1. /\ q # r /\ i \in 1..Len(accepted[q]) /\ accepted'[q][i] = accepted[q][i]
        BY <2>0
      <4>2. \A j \in 1..Len(saved) : saved[j] # accepted[q][i]
        BY <4>1 DEF QueueInv, MessagesOnce
      <4>3. \A j \in 1..Len(accepted[r]) : accepted[r][j] # accepted[q][i]
        BY <4>1 DEF QueueInv, MessagesOnce
      <4>4. accepted[q][i] \notin unsent
        BY <4>1 DEF QueueInv, MessagesOnce
      <4>5. ASSUME NEW j \in 1..Len(saved') PROVE saved'[j] # accepted[q][i]
        BY <3>3, <4>2, <4>3
      <4> QED BY <1>1, <4>1, <4>4, <4>5
    <3>7. ASSUME NEW p \in Actions, NEW i \in 1..Len(accepted'[p]),
                 NEW q \in Actions, NEW j \in 1..Len(accepted'[q])
          PROVE  accepted'[q][j] = accepted'[p][i] => q = p /\ i = j
      BY <2>0 DEF QueueInv, MessagesOnce
    <3> QED BY <1>1, <3>2, <3>4, <3>5, <3>6, <3>7 DEF QueueInv, MessagesOnce
  <2> QED BY <1>1, <2>1, <2>2
<1>5. KeptIsShut'
  <2> SUFFICES ASSUME NEW q \in kept' PROVE q \notin open' /\ accepted'[q] = <<>>
    BY DEF KeptIsShut
  <2>1. CASE q = r
    BY <1>1, <1>2, <2>1
  <2>2. CASE q # r
    <3>1. q \in kept /\ q \in Actions
      BY <1>1, <2>2 DEF ControlInv, ControlTyped
    <3>2. q \notin open /\ accepted[q] = <<>>
      BY <3>1 DEF QueueInv, KeptIsShut
    <3>3. accepted'[q] = accepted[q]
      BY <1>2, <2>2, <3>1
    <3> QED BY <1>1, <3>2, <3>3
  <2> QED BY <2>1, <2>2
<1> QED BY <1>1, <1>3, <1>4, <1>5 DEF QueueInv

\* The other steps of a request leave the queues alone, and open no request
\* whose last turn is saved.
LEMMA OtherQueues ==
  ASSUME QueueInv, UNCHANGED <<queueVars, unsent, saved>>,
         \A r \in kept' : r \in kept /\ (r \in open' => r \in open)
  PROVE  QueueInv'
BY DEF queueVars, QueueInv, QueuesMatch, MessagesOnce, KeptIsShut

LEMMA QueuesStep ==
  ASSUME ControlInv, QueueInv, [TurnNext]_turnVars
  PROVE  QueueInv'
<1>1. ASSUME NEW r \in Actions, Begin(r)
      PROVE  QueueInv'
  BY <1>1, OtherQueues DEF Begin, ControlInv, ControlTyped
<1>2. ASSUME NEW r \in Actions, Refuse(r) \/ FailTurn(r)
      PROVE  QueueInv'
  BY <1>2, OtherQueues DEF Refuse, FailTurn, TurnEnds, queueVars
<1>3. ASSUME NEW r \in Actions,
             \/ Register(r) \/ Ask(r) \/ StopWaiting(r) \/ TakeLock(r) \/ Execute(r) \/ CloseSteering(r)
             \/ ChainOpening(r) \/ ChainRound(r) \/ FinishAction(r) \/ Release(r) \/ StopAction
      PROVE  QueueInv'
  <2>1. UNCHANGED <<queueVars, unsent, saved, kept>> /\ open' \subseteq open
    BY <1>3 DEF Register, Ask, StopWaiting, TakeLock, Execute, CloseSteering, ChainOpening, ChainRound,
       FinishAction, Release, StopAction
  <2> QED BY <2>1, OtherQueues
<1>4. CASE UNCHANGED turnVars \/ StopAction
  BY <1>4, OtherQueues DEF turnVars, StopAction
<1> QED BY <1>1, <1>2, <1>3, <1>4, SteerQueues, ReadQueues, CommitQueues DEF TurnNext

\* TurnControlInv (beginTurn, drainSteering, closeInterjections): the turn that
\* runs is the one a stop reaches, the queues of a request agree, and an
\* interjection is saved once or with no turn that committed.
THEOREM Control == TurnSpec => []TurnControlInv
<1>1. ControlInv /\ QueueInv => TurnControlInv
  <2> SUFFICES ASSUME ControlInv, QueueInv PROVE TurnControlInv
    OBVIOUS
  <2>1. TurnTypeOK
    BY DEF ControlInv, ControlTyped, QueueInv, MessagesOnce, TurnTypeOK, Stages
  <2>2. QueuesAgree
    <3> SUFFICES ASSUME NEW r \in Actions
                 PROVE  /\ readUpTo[r] + Len(steering[r]) = Len(accepted[r])
                        /\ steering[r] = SubSeq(accepted[r], readUpTo[r] + 1, Len(accepted[r]))
      BY DEF QueuesAgree
    <3> DEFINE a == accepted[r]  s == steering[r]  n == readUpTo[r]
    <3>1. /\ a \in Seq(Messages) /\ s \in Seq(Messages) /\ n \in Nat /\ n + Len(s) = Len(a)
          /\ \A i \in 1..Len(s) : s[i] = a[n + i]
      BY DEF QueueInv, QueuesMatch
    <3> HIDE DEF a, s, n
    <3>2. s = SubSeq(a, n + 1, Len(a))
      BY <3>1
    <3> QED BY <3>1, <3>2 DEF a, s, n
  <2>3. InterjectionsSaved
    <3>1. DOMAIN saved = 1..Len(saved)
      BY DEF QueueInv, MessagesOnce
    <3> QED BY <3>1 DEF QueueInv, MessagesOnce, KeptIsShut, InterjectionsSaved, IsInjective
  <2> QED BY <2>1, <2>2, <2>3 DEF TurnControlInv, ControlInv
<1>2. TurnSpec => []QueueInv
  BY QueuesInitially, QueuesStep, ControlHolds, PTL DEF TurnSpec
<1> QED BY <1>1, <1>2, ControlHolds, PTL

-----------------------------------------------------------------------------
(***************************************************************************)
(* What the saved results of a turn and its events say is true             *)
(* (FinalizeInv), and what landed stands on what it needs (StandsOnLanded),*)
(* for any execution, whatever its units, upstreams and reads. Of the      *)
(* units that are settled, those that were not dropped are in the          *)
(* transaction, and what a unit stood on when it was let in stays there.   *)
(***************************************************************************)

\* What r stands on is in W.
Stands(r, W) ==
  LET u == work.root[r]
      Had(x) == Writes(x) /\ Run(x) \notin W
  IN /\ \A need \in work.needs[u] :
          (\E x \in need : Had(x)) => \E x \in need : Run(x) \in W
     /\ Isolates(u) =>
          /\ \A x \in Results \ Members(u) : Run(x) \in work.reads[r] /\ x < r => ~Had(x)
          /\ \A o \in Ops :
               Op(o) \in work.reads[r] /\ work.caller[o] \notin Members(u)
                 /\ work.root[work.caller[o]] < r => Op(o) \in W

\* The units before n are settled, the others have not been looked at.
Settled(n, dropped) ==
  /\ n \in Nat /\ n > 0 /\ \A r \in Results : r < n => work.root[r] < n
  /\ dropped \subseteq {u \in Units : u < n /\ Isolates(u)}

\* A result is in W when its unit is settled and not dropped, an operation
\* when it was not refused next to a caller that is.
Holds(n, dropped, os, W) ==
  /\ W \subseteq {Run(r) : r \in Results} \cup {Op(o) : o \in Ops}
  /\ \A r \in Results : Run(r) \in W <=> r < n /\ Writes(r) /\ work.root[r] \notin dropped
  /\ os \in [Ops -> {"staged", "committed", "failed", "discarded"}]
  /\ \A o \in Ops :
       /\ Op(o) \in W <=> os[o] = "committed"
       /\ os[o] = "committed" =>
            work.caller[o] < n /\ Writes(work.caller[o]) /\ work.root[work.caller[o]] \notin dropped
       /\ os[o] = "staged" => ~(work.caller[o] < n) /\ Writes(work.caller[o])

AllStand(W) == \A r \in Results : Run(r) \in W => Stands(r, W)

Writing(n, dropped, os, W) == Settled(n, dropped) /\ Holds(n, dropped, os, W) /\ AllStand(W)

\* The store has nothing of an execution before it commits, and what its
\* transaction wrote afterwards.
StoreFollows ==
  /\ finalizing \in {"writing", "failed"} =>
       landed = {} /\ announced = {} /\ turnStatus = Unrecorded
  /\ finalizing = "committed" => landed = written

FinalizeTyped ==
  /\ work \in Plans /\ counts \in LogicalTurns \cup {NoTurn} /\ executions \in 0..MaxExecutions
  /\ finalizing \in {"idle", "writing", "committed", "failed"}
  /\ rereads \in BOOLEAN
  /\ turnStatus.status \in {"pending", "committed", "failed"}
  /\ ledger \subseteq LogicalTurns /\ IsFiniteSet(ledger)

FinalizeIInv ==
  /\ FinalizeTyped
  /\ Writing(upto, isolated, opState, written) /\ postCommit = written
  /\ landed \subseteq {Run(r) : r \in Results} \cup {Op(o) : o \in Ops} /\ AllStand(landed)
  /\ StoreFollows /\ RecordedIsTrue /\ CountedOnce

-----------------------------------------------------------------------------
LEMMA Distinct ==
  /\ \A x, y : Run(x) = Run(y) => x = y
  /\ \A x, y : Op(x) = Op(y) => x = y
  /\ \A x, y : Run(x) # Op(y)
BY DEF Run, Op

\* The shape of a plan.
LEMMA Shape ==
  ASSUME work \in Plans
  PROVE  /\ \A r \in Results : r \in Nat /\ r > 0
         /\ \A r \in Results : /\ work.root[r] \in Results /\ r <= work.root[r]
                               /\ work.root[work.root[r]] = work.root[r]
         /\ \A x, r \in Results : x <= r /\ r <= work.root[x] => work.root[r] = work.root[x]
         /\ \A x, r \in Results : x < r /\ work.root[x] # work.root[r] => work.root[x] < r
         /\ \A o \in Ops : work.caller[o] \in Results
         /\ \A u \in Results : \A need \in work.needs[u] : \A x \in need :
              x \in Results /\ x < u /\ work.root[x] = x
<1> DEFINE N == Len(work.root)
<1>1. N \in Nat /\ Results = 1..N
  BY FinalizeAssumption DEF Results
<1>2. \A r \in Results : /\ work.root[r] \in r..N
                         /\ \A x \in r..work.root[r] : work.root[x] = work.root[r]
  BY FinalizeAssumption DEF Results
<1>3. /\ \A o \in Ops : work.caller[o] \in Results
      /\ \A u \in Results : \A need \in work.needs[u] : \A x \in need :
           x \in 1..(u - 1) /\ work.root[x] = x
  BY FinalizeAssumption DEF Results, Ops
<1> HIDE DEF N
<1>4. \A r \in Results : /\ work.root[r] \in Results /\ r <= work.root[r]
                         /\ work.root[work.root[r]] = work.root[r]
  BY <1>1, <1>2
<1>5. \A x, r \in Results : x <= r /\ r <= work.root[x] => work.root[r] = work.root[x]
  BY <1>1, <1>2
<1>6. \A x, r \in Results : x < r /\ work.root[x] # work.root[r] => work.root[x] < r
  BY <1>1, <1>4, <1>5
<1>7. \A u \in Results : \A need \in work.needs[u] : \A x \in need : x \in Results /\ x < u
  BY <1>1, <1>3
<1> QED BY <1>1, <1>3, <1>4, <1>5, <1>6, <1>7

\* More in the transaction takes nothing away from what stands.
LEMMA StandsMore ==
  ASSUME NEW W, NEW V, W \subseteq V, NEW r, Stands(r, W)
  PROVE  Stands(r, V)
BY DEF Stands

\* The next unit begins where the settled ones end.
LEMMA UnitIsNext ==
  ASSUME work \in Plans, Settled(upto, isolated), NEW u \in Units, NextUnit(u)
  PROVE  /\ u \in Results /\ work.root[u] = u /\ u \in Nat /\ upto <= u /\ u \notin isolated
         /\ \A r \in Results : r < u + 1 <=> r < upto \/ r \in Members(u)
         /\ \A r \in Members(u) : r \in Results /\ ~(r < upto) /\ work.root[r] = u
         /\ \A r \in Results : r < u + 1 => work.root[r] < u + 1
<1>1. upto \in Results /\ work.root[upto] = u /\ upto \in Nat
  BY DEF NextUnit, Members, Settled
<1>2. u \in Results /\ work.root[u] = u /\ u \in Nat /\ upto <= u
  BY <1>1, Shape
<1>3. \A r \in Members(u) : r \in Results /\ ~(r < upto) /\ work.root[r] = u /\ r <= u
  BY <1>1, <1>2, Shape DEF Members, Settled
<1>4. ASSUME NEW r \in Results, r < u + 1, ~(r < upto) PROVE r \in Members(u)
  <2>0. r \in Nat
    BY Shape
  <2>1. r \in Nat /\ upto <= r /\ r <= work.root[upto]
    BY <1>1, <1>2, <1>4, <2>0
  <2>2. work.root[r] = work.root[upto]
    BY <1>1, <2>1, Shape
  <2> QED BY <1>1, <2>2 DEF Members
<1>5. ASSUME NEW r \in Results, r < upto PROVE work.root[r] < u + 1 /\ r < u + 1
  <2>1. r \in Nat /\ work.root[r] \in Nat /\ work.root[r] < upto
    BY <1>5, Shape DEF Settled
  <2> QED BY <1>1, <1>2, <1>5, <2>1
<1>6. ASSUME NEW r \in Members(u) PROVE r < u + 1 /\ work.root[r] < u + 1
  <2>1. r \in Nat /\ r <= u /\ work.root[r] = u
    BY <1>3, Shape
  <2> QED BY <1>2, <2>1
<1> QED BY <1>1, <1>2, <1>3, <1>4, <1>5, <1>6 DEF Settled

-----------------------------------------------------------------------------
\* A unit is dropped, and its operations with it.
LEMMA UnitDropped ==
  ASSUME work \in Plans, Writing(upto, isolated, opState, written), NEW u \in Units, NextUnit(u),
         Isolates(u), NEW refused \in SUBSET Staged(u), Settle({}, refused, Staged(u) \ refused)
  PROVE  Writing(u + 1, isolated \cup {u}, opState', written)
<1>1. Settled(upto, isolated) /\ Holds(upto, isolated, opState, written)
  BY DEF Writing
<1> DEFINE n == u + 1  dropped == isolated \cup {u}
<1>2. /\ u \in Results /\ work.root[u] = u /\ u \in Nat
      /\ \A r \in Results : r < n <=> r < upto \/ r \in Members(u)
      /\ \A r \in Members(u) : r \in Results /\ ~(r < upto) /\ work.root[r] = u
      /\ \A r \in Results : r < n => work.root[r] < n
      /\ \A r \in Results : work.root[r] = u => r \in Members(u)
  BY <1>1, UnitIsNext DEF Members
<1>3. \A v \in isolated : v \in Nat /\ v < upto /\ upto <= u
  BY <1>1, UnitIsNext, Shape DEF Settled, Units
<1>4. Settled(n, dropped)
  <2>1. upto \in Nat /\ isolated \subseteq {v \in Units : v < upto /\ Isolates(v)}
    BY <1>1 DEF Settled
  <2>2. \A v \in isolated : v < n
    BY <1>2, <1>3, <2>1
  <2>3. n \in Nat /\ n > 0 /\ u < n
    BY <1>2
  <2>4. dropped \subseteq {v \in Units : v < n /\ Isolates(v)}
    BY <2>1, <2>2, <2>3
  <2> QED BY <1>2, <2>3, <2>4 DEF Settled
<1>5. ASSUME NEW r \in Results
      PROVE  Run(r) \in written <=> r < n /\ Writes(r) /\ work.root[r] \notin dropped
  BY <1>1, <1>2 DEF Holds
<1>6. ASSUME NEW o \in Ops
      PROVE  /\ opState'[o] \in {"staged", "committed", "failed", "discarded"}
             /\ opState'[o] = "committed" <=> opState[o] = "committed"
             /\ opState'[o] = "staged" => opState[o] = "staged" /\ work.caller[o] \notin Members(u)
  BY <1>1 DEF Holds, Settle, Staged
<1>7. opState' = [o \in Ops |-> opState'[o]]
  BY DEF Settle
<1>8. ASSUME NEW o \in Ops
      PROVE  /\ Op(o) \in written <=> opState'[o] = "committed"
             /\ opState'[o] = "committed" =>
                  work.caller[o] < n /\ Writes(work.caller[o]) /\ work.root[work.caller[o]] \notin dropped
             /\ opState'[o] = "staged" => ~(work.caller[o] < n) /\ Writes(work.caller[o])
  <2>1. work.caller[o] \in Results
    BY Shape
  <2> QED BY <1>1, <1>2, <1>6, <2>1 DEF Holds
<1>9. Holds(n, dropped, opState', written)
  BY <1>1, <1>5, <1>6, <1>7, <1>8 DEF Holds
<1> QED BY <1>4, <1>9 DEF Writing

\* What a unit that is not dropped needs, and read, is in the transaction.
LEMMA LetIn ==
  ASSUME work \in Plans, Settled(upto, isolated), Holds(upto, isolated, opState, written),
         NEW u \in Units, NextUnit(u), ~LostUpstream(u), Isolates(u) => ~LostRead(u),
         NEW r \in Members(u), Writes(r)
  PROVE  Stands(r, written)
<1>1. /\ u \in Results /\ work.root[u] = u /\ u \in Nat /\ upto <= u /\ upto \in Nat
      /\ \A x \in Results : x < u + 1 <=> x < upto \/ x \in Members(u)
      /\ \A x \in Members(u) : x \in Results /\ ~(x < upto) /\ work.root[x] = u
      /\ \A x \in Results : x \in Nat
      /\ \A x \in Results : x <= work.root[x] /\ work.root[x] \in Results
  BY UnitIsNext, Shape DEF Settled
<1>2. \A x \in Results : x < u /\ x \notin Members(u) => x < upto
  BY <1>1
<1>3. \A x \in Results : x < upto /\ Writes(x) /\ Run(x) \notin written => work.root[x] \in isolated
  BY DEF Holds
<1>4. ASSUME NEW need \in work.needs[u], NEW x \in need, Writes(x), Run(x) \notin written
      PROVE  \E y \in need : Run(y) \in written
  <2>1. \A y \in need : y \in Results /\ y < u /\ work.root[y] = y /\ y \notin Members(u) /\ y < upto
    BY <1>1, <1>2, Shape
  <2>2. x \in isolated
    BY <1>3, <1>4, <2>1
  <2>3. PICK y \in need \ isolated : Succeeded(y)
    BY <2>2 DEF LostUpstream
  <2>4. Writes(y)
    BY <2>3 DEF Succeeded, Writes
  <2> QED BY <2>1, <2>3, <2>4 DEF Holds
<1>5. r <= u
  BY <1>1
<1>6. ASSUME Isolates(u), NEW x \in Results \ Members(u), Run(x) \in work.reads[r], x < r,
             Writes(x), Run(x) \notin written
      PROVE  FALSE
  <2>0. x \in Nat /\ r \in Nat /\ x < u
    <3>1. x \in Nat /\ r \in Nat
      BY <1>1
    <3> QED BY <1>1, <1>5, <1>6, <3>1
  <2>1. x < upto
    BY <1>2, <1>6, <2>0
  <2>2. work.root[x] \in isolated
    BY <1>3, <1>6, <2>1
  <2>3. x \in DroppedRuns
    BY <1>6, <2>2 DEF DroppedRuns, Members
  <2> QED BY <1>6, <2>3 DEF LostRead
<1>7. ASSUME Isolates(u), NEW o \in Ops, Op(o) \in work.reads[r], work.caller[o] \notin Members(u),
             work.root[work.caller[o]] < r
      PROVE  Op(o) \in written
  <2>1. ~OperationDropped(o)
    BY <1>7 DEF LostRead
  <2>2. work.caller[o] \in Results
    BY Shape
  <2>3. work.caller[o] < upto
    <3> DEFINE c == work.caller[o]
    <3>1. c \in Nat /\ work.root[c] \in Nat /\ c <= work.root[c] /\ r \in Nat
      BY <1>1, <2>2
    <3>2. c < u
      BY <1>1, <1>5, <1>7, <3>1
    <3> QED BY <1>2, <1>7, <2>2, <3>2
  <2>4. opState[o] # "staged"
    BY <2>3 DEF Holds
  <2> QED BY <2>1, <2>4 DEF OperationDropped, Holds
<1>8. work.root[r] = u
  BY <1>1
<1> QED BY <1>4, <1>6, <1>7, <1>8 DEF Stands

\* A unit enters the transaction, with those of its operations that succeed.
LEMMA UnitLands ==
  ASSUME work \in Plans, Writing(upto, isolated, opState, written), NEW u \in Units, NextUnit(u),
         ~LostUpstream(u), Isolates(u) => ~LostRead(u),
         NEW refused \in SUBSET Staged(u), Land(u, Staged(u) \ refused),
         Settle(Staged(u) \ refused, refused, {})
  PROVE  Writing(u + 1, isolated, opState', written')
<1>1. Settled(upto, isolated) /\ Holds(upto, isolated, opState, written) /\ AllStand(written)
  BY DEF Writing
<1> DEFINE n == u + 1  done == Staged(u) \ refused
<1>2. /\ u \in Results /\ work.root[u] = u /\ u \in Nat /\ upto \in Nat /\ upto <= u /\ u \notin isolated
      /\ \A r \in Results : r < n <=> r < upto \/ r \in Members(u)
      /\ \A r \in Members(u) : r \in Results /\ ~(r < upto) /\ work.root[r] = u
      /\ \A r \in Results : r < n => work.root[r] < n
  BY <1>1, UnitIsNext DEF Settled
<1>3. /\ \A x : Run(x) \in written' <=> Run(x) \in written \/ (x \in Members(u) /\ Writes(x))
      /\ \A o : Op(o) \in written' <=> Op(o) \in written \/ o \in done
      /\ written \subseteq written'
  BY Distinct DEF Land
<1>4. written' \subseteq {Run(r) : r \in Results} \cup {Op(o) : o \in Ops}
  BY <1>1, <1>2 DEF Land, Holds, Staged
<1>5. Settled(n, isolated)
  <2>1. \A v \in isolated : v \in Nat /\ v < upto
    BY <1>1, Shape DEF Settled, Units
  <2>2. \A v \in isolated : v < n
    BY <1>2, <2>1
  <2> QED BY <1>1, <1>2, <2>2 DEF Settled
<1>6. ASSUME NEW r \in Results
      PROVE  Run(r) \in written' <=> r < n /\ Writes(r) /\ work.root[r] \notin isolated
  BY <1>1, <1>2, <1>3 DEF Holds
<1>7. opState' = [o \in Ops |-> opState'[o]]
  BY DEF Settle
<1>8. ASSUME NEW o \in Ops
      PROVE  /\ opState'[o] \in {"staged", "committed", "failed", "discarded"}
             /\ opState'[o] = "committed" <=> opState[o] = "committed" \/ o \in done
             /\ opState'[o] = "staged" => opState[o] = "staged" /\ work.caller[o] \notin Members(u)
  BY <1>1 DEF Holds, Settle, Staged
<1>9. \A o \in done : work.caller[o] \in Members(u) /\ opState[o] = "staged"
  BY DEF Staged
<1>10. ASSUME NEW o \in Ops
       PROVE  /\ Op(o) \in written' <=> opState'[o] = "committed"
              /\ opState'[o] = "committed" =>
                   work.caller[o] < n /\ Writes(work.caller[o]) /\ work.root[work.caller[o]] \notin isolated
              /\ opState'[o] = "staged" => ~(work.caller[o] < n) /\ Writes(work.caller[o])
  <2>1. work.caller[o] \in Results
    BY Shape
  <2>2. /\ Op(o) \in written <=> opState[o] = "committed"
        /\ opState[o] = "committed" =>
             work.caller[o] < upto /\ Writes(work.caller[o]) /\ work.root[work.caller[o]] \notin isolated
        /\ opState[o] = "staged" => ~(work.caller[o] < upto) /\ Writes(work.caller[o])
    BY <1>1 DEF Holds
  <2>3. Op(o) \in written' <=> opState'[o] = "committed"
    BY <1>3, <1>8, <2>2
  <2>4. CASE o \in done
    BY <1>2, <1>8, <1>9, <2>1, <2>2, <2>3, <2>4
  <2>5. CASE o \notin done
    BY <1>2, <1>8, <2>1, <2>2, <2>3, <2>5
  <2> QED BY <2>4, <2>5
<1>11. Holds(n, isolated, opState', written')
  BY <1>4, <1>6, <1>7, <1>8, <1>10 DEF Holds
<1>12. ASSUME NEW r \in Results, Run(r) \in written'
       PROVE  Stands(r, written')
  <2>1. CASE Run(r) \in written
    BY <1>1, <1>3, <2>1, StandsMore DEF AllStand
  <2>2. CASE r \in Members(u) /\ Writes(r)
    BY <1>1, <1>3, <2>2, StandsMore, LetIn
  <2> QED BY <1>3, <1>12, <2>1, <2>2
<1> QED BY <1>5, <1>11, <1>12 DEF Writing, AllStand

\* Nothing is settled, nothing written.
LEMMA NothingWritten ==
  ASSUME work \in Plans, NEW os \in [Ops -> {"staged", "discarded"}],
         \A o \in Ops : os[o] = "staged" => Writes(work.caller[o])
  PROVE  Writing(1, {}, os, {})
<1>1. Settled(1, {})
  BY Shape DEF Settled
<1>2. Holds(1, {}, os, {})
  BY Shape DEF Holds
<1> QED BY <1>1, <1>2 DEF Writing, AllStand

\* Only `work` gives these their meaning.
LEMMA SamePlan ==
  ASSUME UNCHANGED work
  PROVE  /\ Writing(upto', isolated', opState', written') => Writing(upto, isolated, opState, written)'
         /\ AllStand(landed') => AllStand(landed)'
         /\ Results' = Results /\ Ops' = Ops /\ HasStory' = HasStory
         /\ \A r : Writes(r)' = Writes(r)
         /\ \A r : Protects(r)' = Protects(r)
<1>1. /\ Results' = Results /\ Ops' = Ops /\ HasStory' = HasStory /\ Units' = Units
      /\ \A r : Writes(r)' = Writes(r)
      /\ \A r : Protects(r)' = Protects(r)
      /\ \A u : Members(u)' = Members(u)
  BY DEF Results, Ops, HasStory, Units, Writes, Protects, Members, Succeeded
<1>2. \A u : Isolates(u)' = Isolates(u)
  BY <1>1 DEF Isolates
<1>3. \A r : Stands(r, landed') = Stands(r, landed)'
  BY <1>1, <1>2 DEF Stands
<1>4. \A r : Stands(r, written') = Stands(r, written)'
  BY <1>1, <1>2 DEF Stands
<1>5. AllStand(landed') => AllStand(landed)'
  BY <1>1, <1>3 DEF AllStand
<1>6. AllStand(written') => AllStand(written)'
  BY <1>1, <1>4 DEF AllStand
<1>7. Settled(upto', isolated') => Settled(upto, isolated)'
  BY <1>1, <1>2 DEF Settled
<1>8. Holds(upto', isolated', opState', written') => Holds(upto, isolated, opState, written)'
  BY <1>1 DEF Holds
<1> QED BY <1>1, <1>5, <1>6, <1>7, <1>8 DEF Writing

-----------------------------------------------------------------------------
LEMMA FinalizeInitially == FinalizeInit => FinalizeIInv
<1> SUFFICES ASSUME FinalizeInit PROVE FinalizeIInv
  OBVIOUS
<1>1. work \in Plans
  BY DEF FinalizeInit
<1>2. Writing(upto, isolated, opState, written)
  <2>1. opState \in [Ops -> {"staged", "discarded"}] /\ \A o \in Ops : opState[o] = "discarded"
    BY DEF FinalizeInit
  <2> QED BY <1>1, <2>1, NothingWritten DEF FinalizeInit
<1>3. IsFiniteSet(ledger) /\ Cardinality(ledger) = 0
  BY FS_EmptySet DEF FinalizeInit
<1>4. MaxExecutions \in Nat
  BY FinalizeAssumption
<1>5. 0 \in 0..MaxExecutions /\ turnStatus.status = "pending"
  BY <1>4 DEF FinalizeInit, Unrecorded
<1>6. FinalizeTyped /\ CountedOnce
  BY <1>1, <1>3, <1>5, Zenon DEF FinalizeInit, FinalizeTyped, CountedOnce
<1> QED BY <1>2, <1>6 DEF FinalizeInit, FinalizeIInv, AllStand, StoreFollows, RecordedIsTrue, Unrecorded

\* A unit that is settled changes the transaction only.
LEMMA UnitStep ==
  ASSUME FinalizeIInv, NEW u \in Units, DropUnit(u) \/ CommitIsolated(u) \/ CommitWithExecution(u)
  PROVE  /\ Writing(upto', isolated', opState', written') /\ postCommit' = written'
         /\ UNCHANGED <<workVars, finalizing, storeVars, fanVars>>
<1>1. /\ work \in Plans /\ Writing(upto, isolated, opState, written) /\ postCommit = written
      /\ NextUnit(u) /\ upto' = u + 1
  BY DEF FinalizeIInv, FinalizeTyped, DropUnit, CommitIsolated, CommitWithExecution, NextUnit
<1>2. UNCHANGED <<workVars, finalizing, storeVars, fanVars>>
  BY DEF DropUnit, CommitIsolated, CommitWithExecution
<1>3. CASE DropUnit(u)
  <2>1. Isolates(u) /\ Settle({}, {}, Staged(u) \ {}) /\ {} \in SUBSET Staged(u)
    BY <1>3 DEF DropUnit, Settle
  <2>2. Writing(u + 1, isolated \cup {u}, opState', written)
    BY <1>1, <2>1, UnitDropped
  <2> QED BY <1>1, <1>2, <1>3, <2>2 DEF DropUnit
<1>4. CASE CommitIsolated(u)
  <2>1. CASE Land(u, Staged(u)) /\ Settle(Staged(u), {}, {}) /\ UNCHANGED isolated
    <3>1. Staged(u) = Staged(u) \ {} /\ {} \in SUBSET Staged(u)
      OBVIOUS
    <3>2. Land(u, Staged(u) \ {}) /\ Settle(Staged(u) \ {}, {}, {})
      BY <2>1, <3>1
    <3>3. ~LostUpstream(u) /\ ~LostRead(u)
      BY <1>4 DEF CommitIsolated
    <3>4. Writing(u + 1, isolated, opState', written')
      BY <1>1, <3>1, <3>2, <3>3, UnitLands
    <3> QED BY <1>1, <1>2, <2>1, <3>4 DEF Land
  <2>2. ASSUME NEW refused \in SUBSET Staged(u), Settle({}, refused, Staged(u) \ refused),
               isolated' = isolated \cup {u}, TakeBack(u), UNCHANGED written
        PROVE  Writing(upto', isolated', opState', written') /\ postCommit' = written'
    <3>1. Isolates(u)
      BY <1>4 DEF CommitIsolated
    <3>2. Writing(u + 1, isolated \cup {u}, opState', written)
      BY <1>1, <2>2, <3>1, UnitDropped
    <3> QED BY <1>1, <2>2, <3>2 DEF TakeBack
  <2> QED BY <1>2, <1>4, <2>1, <2>2 DEF CommitIsolated
<1>5. CASE CommitWithExecution(u)
  <2>1. PICK refused \in SUBSET Staged(u) :
          Land(u, Staged(u) \ refused) /\ Settle(Staged(u) \ refused, refused, {})
    BY <1>5 DEF CommitWithExecution
  <2>2. ~LostUpstream(u) /\ ~Isolates(u) /\ UNCHANGED isolated
    BY <1>5 DEF CommitWithExecution
  <2>3. Writing(u + 1, isolated, opState', written')
    BY <1>1, <2>1, <2>2, UnitLands
  <2> QED BY <1>1, <1>2, <2>1, <2>2, <2>3 DEF Land
<1> QED BY <1>3, <1>4, <1>5

\* What a transaction leaves behind when the call is over.
LEMMA Forgotten ==
  ASSUME work \in Plans, Forget
  PROVE  Writing(upto', isolated', opState', written') /\ postCommit' = written'
<1>1. /\ upto' = 1 /\ isolated' = {} /\ written' = {} /\ postCommit' = {}
      /\ opState' \in [Ops -> {"staged", "discarded"}] /\ \A o \in Ops : opState'[o] = "discarded"
  BY DEF Forget
<1>2. Writing(1, {}, opState', {})
  BY <1>1, NothingWritten
<1> QED BY <1>1, <1>2

\* The results are saved with what has become of them.
LEMMA CommitRecords ==
  ASSUME FinalizeIInv, CommitTransaction
  PROVE  /\ \A r \in Results : Writes(r) => (Run(r) \in landed' <=> r \notin turnStatus'.failed)
         /\ \A o \in Ops : Op(o) \in landed' <=> o \in turnStatus'.committed
         /\ \A r \in Results : Protects(r) /\ Writes(r) => Run(r) \in landed'
         /\ ~HasStory => \A r \in Results : Writes(r) => Run(r) \in landed'
         /\ \A o \in Ops : Op(o) \in landed' => Run(work.caller[o]) \in landed'
<1>1. /\ work \in Plans /\ Settled(upto, isolated) /\ Holds(upto, isolated, opState, written)
      /\ landed' = written /\ turnStatus'.failed = DroppedRuns
      /\ turnStatus'.committed = {o \in Ops : opState[o] = "committed"}
  BY DEF FinalizeIInv, FinalizeTyped, Writing, CommitTransaction
<1>2. \A r \in Results : r < upto
  <2>1. \A r \in Results : r \in 1..Len(work.root)
    BY <1>1, FinalizeAssumption DEF Results
  <2>2. upto \in Nat /\ upto > 0 /\ upto \notin 1..Len(work.root)
    BY <1>1, FinalizeAssumption DEF CommitTransaction, Settled, Results
  <2>3. Len(work.root) \in Nat
    BY <1>1, FinalizeAssumption
  <2> QED BY <2>1, <2>2, <2>3
<1>3. \A r \in Results : Run(r) \in written <=> Writes(r) /\ work.root[r] \notin isolated
  BY <1>1, <1>2 DEF Holds
<1>4. \A r \in Results : r \in DroppedRuns <=> work.root[r] \in isolated
  BY <1>1, Shape DEF DroppedRuns, Members
<1>5. \A r \in Results : work.root[r] \in isolated => HasStory /\ ~Protects(r)
  BY <1>1 DEF Settled, Isolates, Members
<1>6. \A o \in Ops : Op(o) \in written => Run(work.caller[o]) \in written
  BY <1>1, <1>3, Shape DEF Holds
<1> QED BY <1>1, <1>3, <1>4, <1>5, <1>6 DEF Holds

\* What the invariant says of the store alone.
StoreInv ==
  /\ landed \subseteq {Run(r) : r \in Results} \cup {Op(o) : o \in Ops} /\ AllStand(landed)
  /\ RecordedIsTrue

LEMMA StoreKept ==
  ASSUME StoreInv, UNCHANGED <<work, landed, turnStatus>>, announced' \subseteq landed'
  PROVE  StoreInv'
<1>1. AllStand(landed)'
  BY SamePlan DEF StoreInv
<1>2. RecordedIsTrue'
  BY SamePlan DEF StoreInv, RecordedIsTrue
<1>3. (landed \subseteq {Run(r) : r \in Results} \cup {Op(o) : o \in Ops})'
  BY SamePlan DEF StoreInv
<1> QED BY <1>1, <1>2, <1>3 DEF StoreInv

LEMMA StoreEmpty ==
  ASSUME UNCHANGED work, landed' = {}, announced' = {}, turnStatus'.status # "committed"
  PROVE  StoreInv'
BY DEF StoreInv, AllStand, RecordedIsTrue

LEMMA FinalizeStep == FinalizeIInv /\ [FinalizeNext]_finalizeVars => FinalizeIInv'
<1> SUFFICES ASSUME FinalizeIInv, [FinalizeNext]_finalizeVars PROVE FinalizeIInv'
  OBVIOUS
<1>0. /\ work \in Plans /\ Writing(upto, isolated, opState, written) /\ postCommit = written
      /\ StoreInv /\ StoreFollows /\ FinalizeTyped /\ CountedOnce
  BY DEF FinalizeIInv, FinalizeTyped, StoreInv
<1>1. ASSUME UNCHANGED work, Writing(upto', isolated', opState', written'), postCommit' = written',
             StoreInv', StoreFollows', FinalizeTyped', CountedOnce'
      PROVE  FinalizeIInv'
  BY <1>1, SamePlan DEF FinalizeIInv, StoreInv
<1>2. ASSUME UNCHANGED <<ledger, playerTurns>> PROVE CountedOnce'
  BY <1>0, <1>2 DEF CountedOnce
<1>3. CASE BeginFinalize
  <2>1. Writing(upto', isolated', opState', written')
    <3>1. opState' \in [Ops -> {"staged", "discarded"}]
      BY <1>3 DEF BeginFinalize
    <3>2. \A o \in Ops : opState'[o] = "staged" => Writes(work.caller[o])
      BY <1>3 DEF BeginFinalize
    <3>3. Writing(1, {}, opState', {})
      BY <1>0, <3>1, <3>2, NothingWritten
    <3> QED BY <1>3, <3>3 DEF BeginFinalize
  <2>2. turnStatus'.status = "pending"
    BY <1>3 DEF BeginFinalize, Unrecorded
  <2>3. MaxExecutions \in Nat
    BY FinalizeAssumption
  <2>4. executions' \in 0..MaxExecutions
    BY <1>0, <1>3, <2>3 DEF BeginFinalize, FinalizeTyped
  <2>5. FinalizeTyped'
    BY <1>0, <1>3, <2>2, <2>4 DEF BeginFinalize, FinalizeTyped, clockVars
  <2>6. StoreInv' /\ StoreFollows'
    BY <1>3, <2>2, StoreEmpty DEF BeginFinalize, StoreFollows, Unrecorded
  <2> QED BY <1>1, <1>2, <1>3, <2>1, <2>5, <2>6 DEF BeginFinalize, clockVars
<1>4. CASE RollBack \/ FinalizeCrash
  <2>1. /\ Forget /\ finalizing' \in {"failed", "idle"} /\ (finalizing' = "failed" => finalizing = "writing")
        /\ UNCHANGED <<work, counts, executions, landed, turnStatus, ledger, playerTurns, announced, rereads>>
    BY <1>4 DEF RollBack, FinalizeCrash, workVars, storeVars, clockVars, fanVars
  <2>2. Writing(upto', isolated', opState', written') /\ postCommit' = written'
    BY <1>0, <2>1, Forgotten
  <2>3. FinalizeTyped' /\ StoreFollows'
    BY <1>0, <2>1 DEF FinalizeTyped, StoreFollows, Unrecorded
  <2>4. StoreInv'
    BY <1>0, <2>1, StoreKept DEF StoreInv, RecordedIsTrue
  <2> QED BY <1>1, <1>2, <2>1, <2>2, <2>3, <2>4
<1>5. CASE CommitTransaction
  <2>1. /\ finalizing = "writing" /\ finalizing' = "committed" /\ landed' = written
        /\ turnStatus'.status = "committed"
        /\ UNCHANGED <<work, counts, executions, upto, isolated, opState, written, postCommit, announced, rereads>>
    BY <1>5 DEF CommitTransaction, workVars, txVars, fanVars
  <2>2. announced' = {} /\ StoreFollows'
    BY <1>0, <2>1 DEF StoreFollows
  <2>3. StoreInv'
    <3>1. landed' \subseteq {Run(r) : r \in Results} \cup {Op(o) : o \in Ops} /\ AllStand(landed')
      BY <1>0, <2>1 DEF Writing, Holds
    <3>2. RecordedIsTrue'
      BY <1>5, <2>1, <2>2, CommitRecords, SamePlan DEF RecordedIsTrue
    <3> QED BY <2>1, <3>1, <3>2, SamePlan DEF StoreInv
  <2>4. FinalizeTyped' /\ CountedOnce'
    <3>1. CASE counts # NoTurn
      <4>1. /\ counts \in LogicalTurns /\ ledger' = ledger \cup {counts}
            /\ playerTurns' = IF counts \notin ledger THEN playerTurns + 1 ELSE playerTurns
        BY <1>0, <1>5, <3>1 DEF CommitTransaction, TurnCounts, Inserted, FinalizeTyped
      <4>2. IsFiniteSet(ledger) /\ playerTurns = Cardinality(ledger)
        BY <1>0 DEF FinalizeTyped, CountedOnce
      <4>3. /\ IsFiniteSet(ledger')
            /\ Cardinality(ledger') = IF counts \in ledger THEN Cardinality(ledger) ELSE Cardinality(ledger) + 1
        BY <4>1, <4>2, FS_AddElement
      <4> QED BY <1>0, <2>1, <4>1, <4>2, <4>3 DEF FinalizeTyped, CountedOnce
    <3>2. CASE counts = NoTurn
      BY <1>0, <1>2, <1>5, <2>1, <3>2 DEF CommitTransaction, TurnCounts, FinalizeTyped, clockVars
    <3> QED BY <3>1, <3>2
  <2> QED BY <1>0, <1>1, <2>1, <2>2, <2>3, <2>4
<1>6. CASE FlushPostCommit
  <2>1. /\ Forget /\ finalizing = "committed" /\ finalizing' = "idle" /\ announced' \subseteq postCommit
        /\ rereads' \in BOOLEAN
        /\ UNCHANGED <<work, counts, executions, landed, turnStatus, ledger, playerTurns>>
    BY <1>6 DEF FlushPostCommit, workVars, storeVars, clockVars
  <2>2. Writing(upto', isolated', opState', written') /\ postCommit' = written'
    BY <1>0, <2>1, Forgotten
  <2>3. FinalizeTyped' /\ StoreFollows'
    BY <1>0, <2>1 DEF FinalizeTyped, StoreFollows
  <2>4. StoreInv'
    BY <1>0, <2>1, StoreKept DEF StoreFollows
  <2> QED BY <1>1, <1>2, <2>1, <2>2, <2>3, <2>4
<1>7. CASE ConcludeFailed
  <2>1. /\ finalizing = "failed" /\ finalizing' = "idle" /\ turnStatus'.status \in {"failed", "pending"}
        /\ landed' = {} /\ announced' = {}
        /\ UNCHANGED <<work, counts, executions, upto, isolated, opState, written, postCommit,
                       ledger, playerTurns, rereads>>
    BY <1>0, <1>7 DEF ConcludeFailed, workVars, txVars, clockVars, fanVars, StoreFollows, Unrecorded
  <2>2. FinalizeTyped' /\ StoreFollows'
    BY <1>0, <2>1 DEF FinalizeTyped, StoreFollows
  <2>3. StoreInv'
    BY <2>1, StoreEmpty
  <2> QED BY <1>0, <1>1, <1>2, <2>1, <2>2, <2>3
<1>8. ASSUME NEW u \in Units, DropUnit(u) \/ CommitIsolated(u) \/ CommitWithExecution(u)
      PROVE  FinalizeIInv'
  <2>1. /\ Writing(upto', isolated', opState', written') /\ postCommit' = written'
        /\ UNCHANGED <<workVars, finalizing, storeVars, fanVars>>
    BY <1>8, UnitStep
  <2>2. /\ finalizing = "writing" /\ finalizing' = "writing"
        /\ UNCHANGED <<work, counts, executions, landed, turnStatus, ledger, playerTurns, announced, rereads>>
    BY <1>8, <2>1 DEF workVars, storeVars, clockVars, fanVars, DropUnit, CommitIsolated, CommitWithExecution, NextUnit
  <2>3. FinalizeTyped' /\ StoreFollows'
    BY <1>0, <2>2 DEF FinalizeTyped, StoreFollows
  <2>4. StoreInv'
    BY <1>0, <2>2, StoreKept DEF StoreInv, RecordedIsTrue
  <2> QED BY <1>1, <1>2, <2>1, <2>2, <2>3, <2>4
<1>9. CASE UNCHANGED finalizeVars
  <2>1. UNCHANGED <<work, counts, executions, finalizing, upto, isolated, opState, written, postCommit, landed,
                   turnStatus, ledger, playerTurns, announced, rereads>>
    BY <1>9 DEF finalizeVars, workVars, txVars, storeVars, clockVars, fanVars
  <2>2. FinalizeTyped' /\ StoreFollows'
    BY <1>0, <2>1 DEF FinalizeTyped, StoreFollows
  <2>3. StoreInv'
    BY <1>0, <2>1, StoreKept DEF StoreInv, RecordedIsTrue
  <2> QED BY <1>0, <1>1, <1>2, <2>1, <2>2, <2>3
<1> QED BY <1>3, <1>4, <1>5, <1>6, <1>7, <1>8, <1>9 DEF FinalizeNext

LEMMA FinalizeHolds == FinalizeSpec => []FinalizeIInv
BY FinalizeInitially, FinalizeStep, PTL DEF FinalizeSpec

\* FinalizeInv (finalizeExecution, settleTurnResults, applySessionClockTx): what
\* the saved results and the events say has landed, and a logical turn counts
\* once.
THEOREM Recorded == FinalizeSpec => []FinalizeInv
<1>1. FinalizeIInv => FinalizeInv
  <2> SUFFICES ASSUME FinalizeIInv PROVE FinalizeInv
    OBVIOUS
  <2>1. isolated \subseteq Units /\ opState \in [Ops -> {"staged", "committed", "failed", "discarded"}]
    BY DEF FinalizeIInv, Writing, Settled, Holds
  <2>2. announced \subseteq landed
    BY DEF FinalizeIInv, RecordedIsTrue
  <2>3. /\ written \subseteq {Run(r) : r \in Results} \cup {Op(o) : o \in Ops}
        /\ landed \subseteq {Run(r) : r \in Results} \cup {Op(o) : o \in Ops}
        /\ postCommit = written
    BY DEF FinalizeIInv, Writing, Holds
  <2>4. FinalizeTypeOK
    BY <2>1, <2>2, <2>3 DEF FinalizeTypeOK, FinalizeIInv, FinalizeTyped
  <2> QED BY <2>4 DEF FinalizeIInv, FinalizeInv
<1> QED BY <1>1, FinalizeHolds, PTL

\* StandsOnLanded (droppedUpstream, lostReadsOf): what landed has what it needs,
\* and an optional result all it had read.
THEOREM Stand == FinalizeSpec => []StandsOnLanded
<1>1. FinalizeIInv => StandsOnLanded
  BY DEF FinalizeIInv, AllStand, Stands, StandsOnLanded
<1> QED BY <1>1, FinalizeHolds, PTL
=============================================================================
