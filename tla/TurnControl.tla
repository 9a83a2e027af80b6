---------------------------- MODULE TurnControl ----------------------------
(***************************************************************************)
(* The player actions of one session (routes/api/actions.ts) and the       *)
(* registry through which a player stops them or speaks into them          *)
(* (routes/api/turn-control.ts). A request runs a turn, then perhaps an    *)
(* opening and automatic rounds, each under its own tenure of the session  *)
(* lock; in between, other requests may have theirs.                       *)
(***************************************************************************)
EXTENDS Integers, Sequences, Functions

CONSTANTS
  Actions,     \* action requests
  Submits,     \* those with new player input, which supersede older ones
  Openers,     \* those whose first turn may complete the setup
  Messages,    \* interjections of the player
  NoAction,
  MaxRounds    \* autoAdvanceLimit

ASSUME TurnControlAssumption ==
  /\ Submits \subseteq Actions /\ Openers \subseteq Actions
  /\ NoAction \notin Actions
  /\ MaxRounds \in Nat

VARIABLES
  stage,       \* progress of a request
  turn,        \* the turn it runs or will run: "first", "opening" or "round"
  rounds,      \* root.round
  execLock,    \* who holds the session lock
  waiting,     \* waitingRequests
  active,      \* activeTurns: the request that began a turn last, or NoAction
  aborted,     \* the requests whose controller is aborted
  barred,      \* the requests with advanceAllowed = false
  auto,        \* the requests whose state is not "ordinary"
  open,        \* the requests with steeringOpen
  finished,    \* the requests with finished
  steering,    \* interjections no model call has read
  accepted,    \* interjections since the last commit
  readUpTo,    \* read: how many of them a model call has read
  unsent,      \* messages the player has not sent
  saved,       \* history: interjections in the order of their commits
  kept,        \* history: the requests whose last turn committed
  superseded   \* history: the requests an input superseded

queueVars == <<steering, accepted, readUpTo>>
turnVars == <<stage, turn, rounds, execLock, waiting, active, aborted, barred, auto, open,
              finished, queueVars, unsent, saved, kept, superseded>>

TurnInit ==
  /\ stage = [r \in Actions |-> "new"]
  /\ turn = [r \in Actions |-> "first"]
  /\ rounds = [r \in Actions |-> 0]
  /\ execLock = NoAction /\ waiting = {} /\ active = NoAction
  /\ aborted = {} /\ barred = {} /\ auto = {} /\ finished = {}
  /\ open = Actions
  /\ steering = [r \in Actions |-> <<>>]
  /\ accepted = [r \in Actions |-> <<>>]
  /\ readUpTo = [r \in Actions |-> 0]
  /\ unsent = Messages /\ saved = <<>> /\ kept = {} /\ superseded = {}

GoesTo(r, s) == stage' = [stage EXCEPT ![r] = s]

CanAdvance(r) == r \notin barred \cup finished \cup aborted

-----------------------------------------------------------------------------
(* Requests *)

\* Who a stop or a new input finds: registered requests that have not begun a
\* turn, and the one that began a turn last.
Reachable == waiting \cup ({active} \ {NoAction})

\* registerActionRequest
Register(r) ==
  /\ stage[r] = "new" /\ GoesTo(r, "ready")
  /\ waiting' = waiting \cup {r}
  /\ LET older == IF r \in Submits THEN Reachable \ finished ELSE {}
     IN  /\ barred' = barred \cup older
         /\ aborted' = aborted \cup (older \cap auto)
         /\ superseded' = superseded \cup older
  /\ UNCHANGED <<turn, rounds, execLock, active, auto, open, finished, queueVars, unsent,
                 saved, kept>>

Stopped(r) == r \in aborted \/ (turn[r] = "round" /\ ~CanAdvance(r))

\* The head of runTurnOnce: a stopped turn does not start.
Ask(r) ==
  /\ stage[r] = "ready"
  /\ GoesTo(r, IF Stopped(r) THEN "ended" ELSE "queued")
  /\ UNCHANGED <<turn, rounds, execLock, waiting, active, aborted, barred, auto, open,
                 finished, queueVars, unsent, saved, kept, superseded>>

\* The signal ends the wait for the lock.
StopWaiting(r) ==
  /\ stage[r] = "queued" /\ r \in aborted
  /\ GoesTo(r, "ended")
  /\ UNCHANGED <<turn, rounds, execLock, waiting, active, aborted, barred, auto, open,
                 finished, queueVars, unsent, saved, kept, superseded>>

TakeLock(r) ==
  /\ stage[r] = "queued" /\ execLock = NoAction /\ r \notin aborted
  /\ execLock' = r
  /\ GoesTo(r, "admitting")
  /\ UNCHANGED <<turn, rounds, waiting, active, aborted, barred, auto, open, finished,
                 queueVars, unsent, saved, kept, superseded>>

\* A turn that does not start, or fails, gives the lock back.
TurnEnds(r) ==
  /\ execLock' = NoAction
  /\ GoesTo(r, "ended")
  /\ UNCHANGED <<turn, rounds, auto, finished, readUpTo, steering, unsent, saved,
                 superseded>>

\* The live session refuses the turn, or new input came while it waited.
Refuse(r) ==
  /\ stage[r] = "admitting"
  /\ TurnEnds(r)
  /\ UNCHANGED <<waiting, active, aborted, barred, open, accepted, kept>>

\* Mutant: a round does not look for new input again when it has the lock.
UnwantedNever(r) == FALSE

Unwanted(r) == turn[r] = "round" /\ ~CanAdvance(r)

\* Mutant: a turn that was stopped while it was admitted runs.
StoppedLateNever(r) == FALSE

StoppedLate(r) == r \in aborted

\* beginTurn, and the look at the signal after it.
Begin(r) ==
  /\ stage[r] = "admitting" /\ ~Unwanted(r)
  /\ waiting' = waiting \ {r}
  /\ active' = r
  /\ open' = IF r \in auto THEN open \ {r} ELSE open \cup {r}
  /\ kept' = kept \ {r}
  /\ IF StoppedLate(r) THEN GoesTo(r, "ended") /\ execLock' = NoAction
     ELSE GoesTo(r, "begun") /\ UNCHANGED execLock
  /\ UNCHANGED <<turn, rounds, aborted, barred, auto, finished, queueVars, unsent, saved,
                 superseded>>

\* turn.started, for a round with a last look for new input.
Execute(r) ==
  /\ stage[r] = "begun"
  /\ IF Unwanted(r) THEN GoesTo(r, "ended") /\ execLock' = NoAction /\ UNCHANGED <<rounds, auto, open>>
     ELSE /\ GoesTo(r, "running")
          /\ UNCHANGED execLock
          /\ IF turn[r] = "round"
             THEN /\ rounds' = [rounds EXCEPT ![r] = @ + 1]
                  /\ auto' = auto \cup {r} /\ open' = open \ {r}
             ELSE UNCHANGED <<rounds, auto, open>>
  /\ UNCHANGED <<turn, waiting, active, aborted, barred, finished, queueVars, unsent, saved,
                 kept, superseded>>

-----------------------------------------------------------------------------
(* Interjections *)

\* steerActiveTurn
Steer(m) ==
  /\ m \in unsent
  /\ active # NoAction /\ active \notin finished
  /\ active \in open \ aborted
  /\ unsent' = unsent \ {m}
  /\ steering' = [steering EXCEPT ![active] = Append(@, m)]
  /\ accepted' = [accepted EXCEPT ![active] = Append(@, m)]
  /\ UNCHANGED <<stage, turn, rounds, execLock, waiting, active, aborted, barred, auto, open,
                 finished, readUpTo, saved, kept, superseded>>

\* drainSteering, before a model call.
ReadSteering(r) ==
  /\ stage[r] = "running" /\ steering[r] # <<>>
  /\ readUpTo' = [readUpTo EXCEPT ![r] = @ + Len(steering[r])]
  /\ steering' = [steering EXCEPT ![r] = <<>>]
  /\ UNCHANGED <<stage, turn, rounds, execLock, waiting, active, aborted, barred, auto, open,
                 finished, accepted, unsent, saved, kept, superseded>>

\* closeSteering: no runtime of the turn reads interjections any more.
CloseSteering(r) ==
  /\ stage[r] = "running" /\ r \in open
  /\ open' = open \ {r}
  /\ UNCHANGED <<stage, turn, rounds, execLock, waiting, active, aborted, barred, auto,
                 finished, queueVars, unsent, saved, kept, superseded>>

\* Mutant: the count of read interjections outlives the commit.
ForgetQueueOnly(r) ==
  /\ steering' = [steering EXCEPT ![r] = <<>>]
  /\ UNCHANGED readUpTo

ForgetQueue(r) ==
  /\ steering' = [steering EXCEPT ![r] = <<>>]
  /\ readUpTo' = [readUpTo EXCEPT ![r] = 0]

\* Mutant: the commit takes the interjections and lets further ones in.
ShutSteeringNever(r) == UNCHANGED open

ShutSteering(r) == open' = open \ {r}

\* closeInterjections
CloseInterjections(r) ==
  /\ ForgetQueue(r)
  /\ ShutSteering(r)
  /\ accepted' = [accepted EXCEPT ![r] = <<>>]

\* commitExecution has called closeInterjections in its transaction.
CommitTurn(r) ==
  /\ stage[r] = "running"
  /\ CloseInterjections(r)
  /\ execLock' = NoAction
  /\ \/ /\ r \notin aborted
        /\ saved' = saved \o accepted[r]
        /\ kept' = kept \cup {r}
        /\ GoesTo(r, "settled")
     \/ GoesTo(r, "ended") /\ UNCHANGED <<saved, kept>>
  /\ UNCHANGED <<turn, rounds, waiting, active, aborted, barred, auto, finished, unsent,
                 superseded>>

\* The turn fails before that.
FailTurn(r) ==
  /\ stage[r] \in {"begun", "running"}
  /\ TurnEnds(r)
  /\ UNCHANGED <<waiting, active, aborted, barred, open, accepted, kept>>

-----------------------------------------------------------------------------
(* The next turn of a request, and its end *)

ChainOpening(r) ==
  /\ stage[r] = "settled" /\ turn[r] = "first" /\ r \in Openers
  /\ turn' = [turn EXCEPT ![r] = "opening"]
  /\ GoesTo(r, "ready")
  /\ UNCHANGED <<rounds, execLock, waiting, active, aborted, barred, auto, open, finished,
                 queueVars, unsent, saved, kept, superseded>>

\* runAutoAdvance publishes that a round waits.
ChainRound(r) ==
  /\ stage[r] = "settled" /\ rounds[r] < MaxRounds /\ CanAdvance(r)
  /\ turn' = [turn EXCEPT ![r] = "round"]
  /\ auto' = auto \cup {r} /\ open' = open \ {r}
  /\ GoesTo(r, "ready")
  /\ UNCHANGED <<rounds, execLock, waiting, active, aborted, barred, finished, queueVars,
                 unsent, saved, kept, superseded>>

\* finish
FinishAction(r) ==
  /\ stage[r] \in {"settled", "ended"}
  /\ finished' = finished \cup {r}
  /\ waiting' = waiting \ {r}
  /\ GoesTo(r, "finished")
  /\ UNCHANGED <<turn, rounds, execLock, active, aborted, barred, auto, open, queueVars,
                 unsent, saved, kept, superseded>>

\* Mutant: a request that ends clears the entry of whoever is active.
LeaveActiveAlways(r) == NoAction

LeaveActive(r) == IF active = r THEN NoAction ELSE active

\* release
Release(r) ==
  /\ stage[r] = "finished"
  /\ active' = LeaveActive(r)
  /\ GoesTo(r, "gone")
  /\ UNCHANGED <<turn, rounds, execLock, waiting, aborted, barred, auto, open, finished,
                 queueVars, unsent, saved, kept, superseded>>

\* abortActiveTurn
StopAction ==
  /\ aborted' = aborted \cup
       IF active # NoAction /\ active \notin finished THEN {active} ELSE waiting
  /\ UNCHANGED <<stage, turn, rounds, execLock, waiting, active, barred, auto, open,
                 finished, queueVars, unsent, saved, kept, superseded>>

TurnNext ==
  \/ \E r \in Actions :
       \/ Register(r) \/ Ask(r) \/ StopWaiting(r) \/ TakeLock(r) \/ Refuse(r) \/ Begin(r)
       \/ Execute(r) \/ ReadSteering(r) \/ CloseSteering(r) \/ CommitTurn(r) \/ FailTurn(r)
       \/ ChainOpening(r) \/ ChainRound(r) \/ FinishAction(r) \/ Release(r)
  \/ \E m \in Messages : Steer(m)
  \/ StopAction

TurnSpec == TurnInit /\ [][TurnNext]_turnVars

-----------------------------------------------------------------------------
(* Properties *)

TurnTypeOK ==
  /\ stage \in [Actions -> {"new", "ready", "queued", "admitting", "begun", "running",
                            "settled", "ended", "finished", "gone"}]
  /\ turn \in [Actions -> {"first", "opening", "round"}]
  /\ rounds \in [Actions -> 0..MaxRounds]
  /\ {execLock, active} \subseteq Actions \cup {NoAction}
  /\ waiting \cup aborted \cup barred \cup auto \cup open \cup finished \subseteq Actions
  /\ kept \cup superseded \subseteq Actions
  /\ unsent \subseteq Messages

\* The two queues of a request (drainSteering, closeInterjections) agree: what no
\* model call has read is the end of what was accepted since the last commit.
QueuesAgree ==
  \A r \in Actions :
    /\ readUpTo[r] + Len(steering[r]) = Len(accepted[r])
    /\ steering[r] = SubSeq(accepted[r], readUpTo[r] + 1, Len(accepted[r]))

\* The turn that runs is the one a stop and an interjection reach, whatever
\* other requests end meanwhile (beginTurn, release).
RunningIsActive == \A r \in Actions : stage[r] \in {"begun", "running"} => active = r

\* An interjection the player was told is accepted is part of the turn's
\* commit, once, or of no turn that committed (saveInterjections).
InterjectionsSaved ==
  /\ IsInjective(saved)
  /\ \A r \in kept : accepted[r] = <<>>

TurnControlInv == TurnTypeOK /\ QueuesAgree /\ RunningIsActive /\ InterjectionsSaved

\* A stop that finds a request is final: no turn of it starts or is saved later
\* (abortActiveTurn).
StopIsFinal ==
  [][\A r \in aborted :
       /\ stage[r] # "begun" => stage'[r] # "begun"
       /\ r \notin kept => r \notin kept']_turnVars

\* New input ends automatic advancing: an older request it finds starts no
\* further round (registerActionRequest, canAdvance).
NewInputEndsRounds ==
  [][\A r \in superseded :
       turn[r] = "round" /\ stage[r] = "begun" => stage'[r] # "running"]_turnVars
=============================================================================
