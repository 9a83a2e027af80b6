------------------------- MODULE FinalizeExecution -------------------------
(***************************************************************************)
(* finalizeExecution (packages/runtime/src/commit/finalize-execution.ts):  *)
(* what of an execution's results lands. In one transaction the units, a   *)
(* top-level result with those nested under it, commit in execution order. *)
(* Next to a story every unit without a story or setup run has a savepoint *)
(* of its own and may be dropped alone; what stands on it, or read it, is  *)
(* then dropped with it. Without a story nothing lands unless all does.    *)
(* Write-service operations follow their caller's unit; those of a story's *)
(* unit stand or fail alone. Events wait for the transaction to commit.    *)
(*                                                                         *)
(* Executions of one session follow one another under its lock; a logical  *)
(* turn may be finalized again, after a failure or as a duplicate.         *)
(* Results are numbered in commit order, a unit's top-level result last,   *)
(* and operations in the order they were called in. A plan is what an      *)
(* execution hands in:                                                     *)
(*   root    result -> the top-level result of its unit                    *)
(*   kind    result -> "story", "setup" or "aux" (anything else)           *)
(*   status  result -> "success", "skipped" (what it wrote before it       *)
(*           skipped commits) or "failed" (it commits nothing)             *)
(*   needs   top-level result -> its hard upstreams: sets of results, one  *)
(*           of which must have committed                                  *)
(*   reads   result -> the results and operations whose data it read       *)
(*   caller  operation -> the result that called it                        *)
(***************************************************************************)
EXTENDS Integers, Sequences, FiniteSets

CONSTANTS
  Plans,
  LogicalTurns,
  NoTurn,        \* countPolicy other than "complete-player-turn"
  MaxExecutions  \* bound

\* The results of a unit follow one another, and it needs only units before it.
ASSUME FinalizeAssumption ==
  /\ MaxExecutions \in Nat
  /\ \A w \in Plans :
       /\ w.root \in Seq(Nat)
       /\ \A r \in DOMAIN w.root :
            /\ w.root[r] \in r..Len(w.root)
            /\ \A x \in r..w.root[r] : w.root[x] = w.root[r]
       /\ \A u \in DOMAIN w.root : \A need \in w.needs[u] : \A x \in need :
            x \in 1..(u - 1) /\ w.root[x] = x
       /\ \A o \in DOMAIN w.caller : w.caller[o] \in DOMAIN w.root

VARIABLES
  work,       \* the execution's plan
  counts,     \* its logicalTurnId, or NoTurn
  finalizing,      \* progress of finalizeExecution
  upto,       \* results before this one are settled
  isolated,   \* top-level results of the units dropped so far
  opState,    \* operationState
  written,    \* results and operations written in the transaction
  postCommit, \* those whose events wait for it to commit
  landed,     \* results and operations of the execution in the store
  announced,  \* those whose events clients have been sent
  rereads,    \* invalidateReplay: clients are told to read the store
  turnStatus,   \* commit status of the turn's saved results
  ledger,     \* logicalTurnCompletions
  playerTurns, \* completedPlayerTurns
  executions  \* executions so far

workVars == <<work, counts, executions>>
txVars == <<isolated, opState, written, postCommit, upto>>
clockVars == <<ledger, playerTurns>>
storeVars == <<landed, turnStatus, clockVars>>
fanVars == <<announced, rereads>>
finalizeVars == <<workVars, finalizing, txVars, storeVars, fanVars>>

Results == DOMAIN work.root
Ops == DOMAIN work.caller
Op(o) == <<"op", o>>
Run(r) == <<"run", r>>

Unrecorded == [status |-> "pending", failed |-> {}, committed |-> {}]

Writes(r) == work.status[r] # "failed"

FinalizeInit ==
  /\ work \in Plans /\ counts = NoTurn /\ executions = 0
  /\ finalizing = "idle" /\ upto = 1
  /\ isolated = {} /\ opState = [o \in Ops |-> "discarded"]
  /\ written = {} /\ postCommit = {}
  /\ landed = {} /\ announced = {} /\ rereads = FALSE
  /\ turnStatus = Unrecorded /\ ledger = {} /\ playerTurns = 0

-----------------------------------------------------------------------------
Members(u) == {r \in Results : work.root[r] = u}
Units == {work.root[r] : r \in Results}

Succeeded(r) == work.status[r] = "success"
HasStory == \E r \in Results : work.kind[r] = "story" /\ Succeeded(r)
Protects(r) == work.kind[r] \in {"story", "setup"}
Isolates(u) == HasStory /\ \A r \in Members(u) : ~Protects(r)

DroppedRuns == UNION {Members(u) : u \in isolated}

\* Mutant: an operation that was refused next to the story still counts.
OnlyDiscarded(o) == opState[o] = "discarded"

OperationDropped(o) == opState[o] \in {"failed", "discarded"}

\* stagedOperationsOf
Staged(u) == {o \in Ops : work.caller[o] \in Members(u) /\ opState[o] = "staged"}

\* droppedUpstream: every result that would satisfy some need is gone.
LostUpstream(u) ==
  /\ \E r \in Members(u) : Writes(r)
  /\ \E need \in work.needs[u] :
       need \cap isolated # {} /\ \A r \in need \ isolated : ~Succeeded(r)

\* lostReadsOf: producers inside the unit, or that commit after the reader, do
\* not count.
LostRead(u) ==
  /\ \E r \in Members(u) : Writes(r)
  /\ \E r \in Members(u) : \E p \in work.reads[r] :
       \/ \E x \in Results \ Members(u) : p = Run(x) /\ x < r /\ x \in DroppedRuns
       \/ \E o \in Ops : /\ p = Op(o) /\ work.caller[o] \notin Members(u)
                         /\ work.root[work.caller[o]] < r /\ OperationDropped(o)

\* The writes of a unit and of operations `done` enter the transaction.
Land(u, done) ==
  LET all == {Run(r) : r \in {x \in Members(u) : Writes(x)}} \cup {Op(o) : o \in done}
  IN written' = written \cup all /\ postCommit' = postCommit \cup all

Settle(committed, failed, discarded) ==
  opState' = [o \in Ops |-> CASE o \in committed -> "committed"
                              [] o \in failed -> "failed"
                              [] o \in discarded -> "discarded"
                              [] OTHER -> opState[o]]

\* What is left when the call is over.
Forget ==
  /\ upto' = 1 /\ isolated' = {} /\ written' = {} /\ postCommit' = {}
  /\ opState' = [o \in Ops |-> "discarded"]

NextUnit(u) == finalizing = "writing" /\ u \in Units /\ upto \in Members(u) /\ upto' = u + 1

-----------------------------------------------------------------------------
\* The results are in, saved with status "pending"; operations of callers that
\* commit nothing are discarded.
BeginFinalize ==
  /\ finalizing = "idle" /\ executions < MaxExecutions
  /\ executions' = executions + 1
  /\ counts' \in LogicalTurns \cup {NoTurn}
  /\ finalizing' = "writing" /\ upto' = 1
  /\ isolated' = {} /\ written' = {} /\ postCommit' = {}
  /\ opState' = [o \in Ops |-> IF Writes(work.caller[o]) THEN "staged" ELSE "discarded"]
  /\ landed' = {} /\ announced' = {} /\ rereads' = FALSE /\ turnStatus' = Unrecorded
  /\ UNCHANGED <<work, clockVars>>

\* Anything thrown: an abort, the store, a story without a narrative, a refused
\* write that is not isolated, an upstream that a protected unit has lost.
RollBack ==
  /\ finalizing = "writing"
  /\ finalizing' = "failed"
  /\ Forget
  /\ UNCHANGED <<workVars, storeVars, fanVars>>

StoryFailed == \E r \in Results : work.kind[r] = "story" /\ work.status[r] = "failed"

\* An isolating unit is dropped for what it stands on or read.
DropUnit(u) ==
  /\ NextUnit(u) /\ ~StoryFailed /\ Isolates(u)
  /\ LostUpstream(u) \/ LostRead(u)
  /\ isolated' = isolated \cup {u}
  /\ Settle({}, {}, Staged(u))
  /\ UNCHANGED <<workVars, finalizing, written, postCommit, storeVars, fanVars>>

\* Mutant: what a dropped unit would have announced is not taken back.
KeepBuffered(u) == postCommit' = postCommit \cup {Run(r) : r \in Members(u)}

TakeBack(u) == UNCHANGED postCommit

\* A unit with a savepoint: all of it lands, or a write of its results or of
\* one operation is refused and the savepoint rolled back.
CommitIsolated(u) ==
  /\ NextUnit(u) /\ ~StoryFailed /\ Isolates(u)
  /\ ~LostUpstream(u) /\ ~LostRead(u)
  /\ \/ Land(u, Staged(u)) /\ Settle(Staged(u), {}, {}) /\ UNCHANGED isolated
     \/ /\ isolated' = isolated \cup {u}
        /\ \E refused \in SUBSET Staged(u) :
             /\ Cardinality(refused) <= 1
             /\ Settle({}, refused, Staged(u) \ refused)
        /\ TakeBack(u) /\ UNCHANGED written
  /\ UNCHANGED <<workVars, finalizing, storeVars, fanVars>>

\* A unit that stands with the execution, whatever it read. Only next to a
\* story, and in a unit with a story or setup run, may its operations fail.
CommitWithExecution(u) ==
  /\ NextUnit(u) /\ ~StoryFailed /\ ~Isolates(u) /\ ~LostUpstream(u)
  /\ \E refused \in SUBSET Staged(u) :
       /\ ~HasStory => refused = {}
       /\ Land(u, Staged(u) \ refused)
       /\ Settle(Staged(u) \ refused, refused, {})
  /\ UNCHANGED <<workVars, finalizing, isolated, storeVars, fanVars>>

\* Mutant: every completion of a logical turn counts.
InsertedAlways == TRUE

\* insertLogicalTurnCompletion
Inserted == counts \notin ledger

\* applySessionClockTx
TurnCounts ==
  IF counts # NoTurn
  THEN /\ ledger' = ledger \cup {counts}
       /\ playerTurns' = IF Inserted THEN playerTurns + 1 ELSE playerTurns
  ELSE UNCHANGED clockVars

\* The transaction commits: writes, clock and the status of the turn's results.
CommitTransaction ==
  /\ finalizing = "writing" /\ upto \notin Results
  /\ finalizing' = "committed"
  /\ landed' = written
  /\ TurnCounts
  /\ turnStatus' = [status |-> "committed", failed |-> DroppedRuns,
                  committed |-> {o \in Ops : opState[o] = "committed"}]
  /\ UNCHANGED <<workVars, txVars, fanVars>>

\* flushPostCommit: a thunk that fails cannot undo the commit. One at most does.
FlushPostCommit ==
  /\ finalizing = "committed"
  /\ finalizing' = "idle"
  /\ announced' \in {postCommit} \cup {postCommit \ {x} : x \in postCommit}
  /\ rereads' = (announced' # postCommit)
  /\ Forget
  /\ UNCHANGED <<workVars, storeVars>>

\* conclude of a failed execution; saving the status may fail as well.
ConcludeFailed ==
  /\ finalizing = "failed"
  /\ finalizing' = "idle"
  /\ turnStatus' \in {[status |-> "failed", failed |-> {}, committed |-> {}], turnStatus}
  /\ UNCHANGED <<workVars, txVars, landed, clockVars, fanVars>>

FinalizeCrash ==
  /\ finalizing # "idle"
  /\ finalizing' = "idle"
  /\ Forget
  /\ UNCHANGED <<workVars, storeVars, fanVars>>

FinalizeNext ==
  \/ BeginFinalize \/ RollBack \/ CommitTransaction \/ FlushPostCommit \/ ConcludeFailed
  \/ FinalizeCrash
  \/ \E u \in Units : DropUnit(u) \/ CommitIsolated(u) \/ CommitWithExecution(u)

FinalizeSpec == FinalizeInit /\ [][FinalizeNext]_finalizeVars

-----------------------------------------------------------------------------
FinalizeTypeOK ==
  LET Items == {Run(r) : r \in Results} \cup {Op(o) : o \in Ops}
  IN /\ work \in Plans /\ counts \in LogicalTurns \cup {NoTurn} /\ executions \in 0..MaxExecutions
     /\ finalizing \in {"idle", "writing", "committed", "failed"}
     /\ isolated \subseteq Units
     /\ opState \in [Ops -> {"staged", "committed", "failed", "discarded"}]
     /\ \A items \in {written, postCommit, landed, announced} : items \subseteq Items
     /\ rereads \in BOOLEAN
     /\ turnStatus.status \in {"pending", "committed", "failed"}
     /\ ledger \subseteq LogicalTurns

\* A result that landed has what it needs: of each hard upstream it had in this
\* execution one landed, and an optional one lost nothing it had read from what
\* commits before it (commit-dependencies.ts).
StandsOnLanded ==
  \A r \in Results : Run(r) \in landed =>
    LET u == work.root[r]
        Had(x) == Writes(x) /\ Run(x) \notin landed
    IN /\ \A need \in work.needs[u] :
            (\E x \in need : Had(x)) => \E x \in need : Run(x) \in landed
       /\ Isolates(u) =>
            /\ \A x \in Results \ Members(u) : Run(x) \in work.reads[r] /\ x < r => ~Had(x)
            /\ \A o \in Ops :
                 Op(o) \in work.reads[r] /\ work.caller[o] \notin Members(u)
                   /\ work.root[work.caller[o]] < r => Op(o) \in landed

\* The saved results say what landed: nothing of a failed execution, all of a
\* unit or none, the story whenever the turn counts as committed, without a
\* story everything. Events announce only what landed.
RecordedIsTrue ==
  /\ turnStatus.status # "committed" => landed = {}
  /\ turnStatus.status = "committed" =>
       /\ \A r \in Results : Writes(r) => (Run(r) \in landed <=> r \notin turnStatus.failed)
       /\ \A o \in Ops : Op(o) \in landed <=> o \in turnStatus.committed
       /\ \A r \in Results : Protects(r) /\ Writes(r) => Run(r) \in landed
       /\ ~HasStory => \A r \in Results : Writes(r) => Run(r) \in landed
  /\ \A o \in Ops : Op(o) \in landed /\ Writes(work.caller[o]) => Run(work.caller[o]) \in landed
  /\ announced \subseteq landed

\* The clock counts a logical turn once, when its first execution commits
\* (session-clock.ts: "at most once, even if the same logical turn is finalized
\* twice").
CountedOnce == playerTurns = Cardinality(ledger)

FinalizeInv == FinalizeTypeOK /\ RecordedIsTrue /\ CountedOnce
=============================================================================
