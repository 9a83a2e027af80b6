# Covel: specifications and proofs

Covel is a framework for AI role-playing games. A server (`src/apps/server`) runs *turns* of a game session: it loads the session, runs the plugin
runtimes of the turn (most of them calls to a language model), and commits state patches, turn rows and events. Slow runtimes are detached from
the turn and run later as *durable runtime jobs*. Several server processes ("pods") may share one PostgreSQL database.

This directory holds TLA+ specifications of the parts of that server and of its web client that are hard to test, the TLC models that check them and
TLAPS proofs about them. `PROJECT.json` maps each definition to the lines it models and lists components, runs, mutants, hazards, findings and theorems.

## 1. Inventory

| Component | State | Operations | Hard about it | Modelled in |
|---|---|---|---|---|
| Durable runtime jobs, `plugin-rpc/jobs.ts` | job rows of a session and plugin (status, owner, lease, `updatedAt` as compare-and-set revision, attempt, sequence), sequence counter | create, claim, renew, transition, recover, prune | several workers, clocks, stale snapshots | `RuntimeJobs` |
| Runtime job worker, `plugin-rpc/runtime-job-worker.ts` | runs in memory, abort signals, timers | `runOne`, lease renewal, execution deadline, `close` | four concurrent activities per run, shutdown, process death | `RuntimeJobs` |
| Runtime job execution, `runtime-job-executor.ts`, `runDetached` in `runtime-turn.ts` | locks held, commit transaction | admit, authorise, provider call, commit barrier, commit | session read minutes before it is used, lost answers | `RuntimeJobs` |
| Job requests, `runtime-jobs.ts`, `runtime-job-enqueue.ts` | none of their own | enqueue, cancel, retry | race the worker | `RuntimeJobs` |
| Worker drain loop | wake hints, pass under way, timer, active runtime keys | wake, drain, close | wake-ups during a pass, failed passes, capacity | `WorkerDrain` |
| Job status projection, same file | status rows derived from job rows, what the passes have covered | append, reconcile | rows written after the fact, out of order, or for a job that is gone | `JobStatusProjection` |
| In-process session lock, `lib/session-lock.ts` | a map from key to the tail of a promise chain, lease contexts | `withLock`, `withLocks`, `tryWithLock` | re-entrancy through async contexts, branches nobody awaits | `SessionLock`, `FifoLease` |
| PostgreSQL session lock, `lib/pg-session-lock.ts` | reserved connections, advisory locks, nested-call counts | the same | pool limits, re-entrant connections, deadlines | `PgSessionLock` |
| Settle barrier, `settled-session-lock.ts`, `settled-request.ts` | a deadline per call | wait for settling jobs, then lock, then look again | check and use apart; waiting under the lock would block the jobs | `SettleBarrier` |
| Player actions, `actions.ts`, `turn-control.ts` | registry of waiting and active requests, interjection queues | run, chain, stop, steer, finish | several tenures of the lock per request, stops and inputs at any moment | `TurnControl` |
| Session life, `session.ts`, `session/delete-route.ts`, `lifecycle.ts` | session row, lifecycle and deletion marks | create, change status, delete, take over a failed deletion | ids used again, hooks between lock tenures, failing steps | `SessionLifecycle` |
| Commit and finalize, session clock, `packages/runtime/src/commit` | staged operations, savepoints, turn counter | commit units, drop units, count, fan out | one part of a commit dropped while others stand on it | `FinalizeExecution`; one atomic step of `RuntimeJobs` |
| Event bus, `packages/events`, `pg-event-transport.ts` | replay ring, epochs, pins, outbox, receive streams per origin | emit, publish, receive, replay, invalidate, evict | lost, late and reordered frames, eviction, reconnects | `EventBus` |
| Event stream of a web client, `subscribe.ts`, `apps/web` | connection, cursor, restored view, recovery | watch, handshake, replay, live, resume, recover | a cutover between three sources of events | `EventStream` |
| Approval gate, `packages/approval` | pending requests, session approvals, one-time grants | evaluate, decide, revoke, expire | single use, expiry, revocation | `ApprovalGate` |
| Turn executor, DAG scheduler; suspension and resume | the schedule of a turn; pending suspensions | level by level; suspend, resume | fault propagation; single use | planned |
| Store write gates, browser sync, settings persistence, job credentials | queues, versions, envelopes | write | serialisation | planned |

The remaining parts (provider gateway, loaders, prompt assembly, user interfaces, templates) hold no protocol state; `PROJECT.json` says for each why it
is left out.

**How they interact.** A request of a player registers in turn control, passes the settle barrier, takes the session lock, runs its turn, commits it
with `finalizeExecution` and fans its events out to the event bus, which carries them to the streams of this pod and, over PostgreSQL notifications, of
the others. The commit also creates runtime jobs. A worker claims a queued job with a transaction on the row; while it runs the job, the execution takes
the *runtime lock* (one execution per runtime and session) and, nested in it, twice briefly the *session lock*: before the provider call to re-read the
session, and after it to commit. A timer renews the lease by rewriting the row; another one enforces the deadline by settling it; users cancel and
retry; recovery of any worker takes over rows whose lease has lapsed. All meet in the row's revision, in the abort signal of the run, and in the two
locks. Whoever moves the job projects its status afterwards; passes of the workers repair the projection. In one process the locks are promise chains,
with PostgreSQL they are advisory locks on a reserved connection, and the nested lock must be taken on the connection of the outer one. A deletion
drains the runtime locks of the session's unfinished jobs before its hook runs. Community code runs only behind the approval gate.

**What makes them correct.** A job's writes commit at most once and agree with its final status; only into a session that still admits the job; jobs of
a runtime are serial and in order; a job always settles, and its last status row comes to show how. A lock is exclusive and fair, never leaves a holder
behind, never loses a connection, never deadlocks on the orders in which callers list keys, and does not take a released lease for a live one. What
lands of a turn stands on what landed, and is what is recorded and announced. A stop is final, an interjection is saved once or not at all. A request
never touches a later incarnation of its session id, SessionEnd runs once. A client whose stream is quiet knows every change. No code runs without a
decision of the player that covers it.

## 2. The modules

### RuntimeJobs

State: `job`, `counter` are the database; `run[w][j]` is the invocation of `runOne` of worker `w` for job `j`, with the program counters of its four
activities (`main`, `exec`, `renew`, `dl`), the abort reason, the in-memory status and the revisions read for a later swap; `sessLock`, `rtLock` are
the two locks; `session` is what an admission depends on. `commits`, `verdict`, `born`, `origin` are history variables: no guard reads the first three,
and `origin` only travels from a job to its retry.

| Actions | Code |
|---|---|
| `TurnEnqueue`, `Retry`, `ExecCommit` with a follower | `createRuntimeJob`, in the transaction of its caller |
| `Claim`, `QueueTimeout` | `claimRuntimeJob`, `claimNextRuntimeJob` |
| `RecoverScan`, `Recover`, `Prune` | `recoverExpiredRuntimeJobs` on its snapshot, `pruneTerminalRuntimeJobs` |
| `Start` ... `Check`, `Catch`, `Settle`, `Requeue`, `SettleFails` | `runOne` |
| `ExecAdmit` ... `ExecCommitLock` | `executeRuntimeJob`, `runDetached` |
| `ExecBarrierRead`, `ExecBarrierCas`, `ExecMark` | `beforeCommit` |
| `RenewRead`, `RenewCas`, `RenewError`; `DeadlineFires`, `DeadlineSettles` | the two timers |
| `Close`, `Exit`, `Crash`, `LoseLocks` | shutdown, process death, a dropped lock connection |
| `Cancel`, `ChangeStatus`, `ChangeScope` | requests |

Time is which bounds have passed: a lease may lapse at any moment after it was written. The revision is a number produced by `NextRevision` from a clock
reading, as in the code; `Clock = {0}` is a clock that never moves, the case in which revisions must be pushed forward on every write.

*Granularity.* Transactions and single compare-and-sets are atomic. The commit barrier and the renewal, which race each other inside one run, and the
recovery, which works on a snapshot, are split into the read and the swap. Any other transition is one step: a swap that loses against a write
in between has the effect of a read after that write. Closing a worker while a claim is under way is `Claim`, `Close`, `Start`.

### FifoLease, SessionLock

`FifoLease` is the promise: per key, a line of calls and its holder. `SessionLock` is the code: `tail[k]` is the map entry, the
call whose promise is the key's tail; `pred[c]` is the call whose promise `c` awaits; `ctx` is the lease context, which branches that outlive a lease
still carry; a release drops the map entry only if nobody queued behind it. A call of several keys takes them one after the other in sorted order.
`line` is a history variable that no guard reads, the order of asking; `QueueInv` says the promise chain is that line, and `ImplementsLease` that line and
holders behave as `FifoLease` says.

### PgSessionLock

An outermost call is its `PgLockState`: `conn`, `active`, and the nested calls `Inside` it. `held` is the `heldKeys` of the context a callback runs in;
`got` what the call itself has locked; `loc` what it holds in the in-process lock of its connection; `adv` is PostgreSQL's table of advisory locks, with
the count that makes a connection re-entrant. `WithLocks` and `TryWithLock` begin a call in one of the three ways of the code (own connection, nested,
or everything held already); a query, a checkout, a deadline and the end of a callback are one step each. `late` are callers that timed out while their
`reserve()` stayed queued. `When` says at which stage of its caller's call a branch may make a call; awaited calls come while the callback runs.
`hashSessionId` is injective in the model; a failed unlock on a live connection is not modelled.

### WorkerDrain

How a worker comes to claim a job, which `RuntimeJobs` leaves to fairness. Rows are reduced to who works on them (`mine`, `theirs`, `lapsed`: a lease
nobody works under). `hints`, `fullScan`, `wakeReq`, `scheduled`, `timer` are the worker's variables of those names; `pc` with `full`, `scope`, `snap`,
`sess`, `todo` is the pass under way, cut at its awaits: maintenance (`Recover`, `Reconcile`), `List`, then `Loop` and, for each claim, `Visit` of
sessions and `Try` of their candidates in queue order. Sessions are visited in any order, which contains the round-robin cursor. `PassFails` is any
store call that throws, `PassEnds` the `finally` of `drainScheduled`. A request commits a row (`Enqueue`) and wakes the worker once, later (`Tell`):
`owed` are the requests that have committed and not yet woken it. `told` is a history variable for the properties: the jobs for which a request has
woken the worker since they could run. Nothing in the worker depends on it; a cancellation, after which nobody wakes the worker for the jobs behind the
cancelled one, ends the claim for them.

### EventBus, EventStream

`EventBus` is the bus of every pod. `sess[p]` is the replay state of the one session on pod `p`: epoch (`gen`), sequence, ring, floor, pins. `outbox`
and `wire` are the frames a pod still has to publish and those on their way; `recv`, `chain` the receiving side per origin (expected number, parked
frames, the delivery chain); `listening` the LISTEN connection. `news[e]` is the fate of event `e`. `EventStream` adds one web client: `conn` is the
server side of its stream, `client` its cursor, restored view, what it knows, and whether a recovery runs. The stream hears, in the same step, what a
step of the bus broadcasts to it; hence one module extends the other and `BusStep` conjoins the two.

| Actions | Code |
|---|---|
| `CommitNext`, `Emit`, `EmitFails`, `SaveSettles`, `Publish` | `emit` after a commit; the outbox; the save of a frame too large to send inline |
| `Receive`, `FlushTimer`, `DeliverNext`, `ResetNext`, `SkipNext` | `handleTransportFrame`, its hole timer, and the delivery chain |
| `Disconnect`, `Reconnect`, `Evict`, `EvictReceive` | LISTEN loss, the caps of the tables |
| `ReadView`, `Connect`, `Activate`, `WriteConnected`, `WriteReplay`, `WriteBuffered`, `WriteLive`, `Heartbeat`, `EndStream` | `GET /view`; the handler of `subscribe.ts` from its watch to its cleanup |
| `ApplyView`, `Leave`, `Recover` | the client: snapshot alignment, disconnect or pause, recovery |

Faults are counted (`MaxFaults`) and each is of a kind in `Faults`. `Init` is a client that opens the session (`InitOpening`) or one whose first stream
is live (`InitLive`), which lets both phases meet the whole budget of faults. *Granularity:* a commit and the fate of its emission are one step, and so
are a frame the server writes and the client's handling of it, since the server learns nothing from the client. A silent leave is the pause for an
action of the page; it counts as `pause` once the stream has brought its first event or heartbeat, and as `earlyPause` before, when the client may
still skip a reset (`skipReset`). `event_stream` has no `earlyPause`, for the reason section 6 gives. Left out: topics, the recheck of a
foreign incarnation, the connection budget, flushing at close, failed recovery reads, the resource revision fence; write deadlines of a slow client are
`Leave`.

### SessionLifecycle

`session` is the row (or `None`) with its lifecycle mark and the marks of a deletion; `req[r]`, `saw[r]`, `plan[d]` are a request's progress, the
incarnation it was resolved for, and what a deletion has prepared; `run`, `runInc` are background jobs. What a request does under the session lock is
one step; a deletion is three (`Prepare`, `Drain`, `Finish`) with its hook in between. A creation that fails leaves any part of itself that the code can
leave. Requests may die between any two steps, leases of marks run out at any moment. The request that creates a session names the incarnation.

### TurnControl

`waiting`, `active`, and per request `aborted`, `barred` (`advanceAllowed`), `auto`, `open`, `finished` and the three queues are the fields of
`turn-control.ts`; `stage`, `turn`, `rounds` follow a request through its tenures of `execLock`. `saved`, `kept`, `superseded` are history variables.

### JobStatusProjection

One job. `durable` is the status of its row, `shown` that of its last status row. `appending[a]` is a projection under way by writer `a`: a worker's
run, a worker's pass, or the cancel route; it lands at most `AppendTime` later. `through[w]` is `reconciledThrough`. Clocks differ by up to `MaxSkew`,
and `ProjectionAssumption` says that delay and skew fit into `RECONCILE_OVERLAP_MS`: section 6 says what happens otherwise.

### FinalizeExecution

`work` is what an execution hands in (a *plan*: results in commit order with their units, kinds, outcomes, hard upstreams, reads and write-service
operations). `isolated`, `opState`, `written`, `postCommit` are the state of the transaction; `landed`, `turnStatus`, `ledger`, `playerTurns` the
store; `announced`, `rereads` what clients were told. A unit is dropped, committed under a savepoint, or committed with the execution; any write may be
refused. Left out: proposals and validators, setup settlement, saving of suspensions, dimension settlements, presentation, stores without savepoints.

### SettleBarrier

Each execution goes through `poll`, `polled`, `queued`, `locked`, `relisted`, `in`: the listing and the use of what it said are apart. Jobs are queued,
finish and become runnable or not at any moment. Entries nested in an execution do not pass the barrier.

### ApprovalGate

`pending`, `sessionCache`, `oneTime` are the maps of `rpc-approval.ts`, `consents` the history of decisions that still count. Expiry is a clock.

## 3. The runs

| Run | Shows | Instance |
|---|---|---|
| `jobs_races` | commit once, commit and outcome agree, a committer keeps its row, final rows are final, stale only after a change, recovery only of lapsed leases, commits only into the session the job was admitted to | 1 job, 2 workers that may close or crash, all timers, 1 session change |
| `jobs_queue` | order and exclusion of a runtime's jobs, quiet hand-back at shutdown | 2 jobs, 2 workers |
| `jobs_retry` | settling jobs commit in the order of their source executions | 3 job ids, 1 worker, `Keep = 1` |
| `jobs_crash_live` | every job settles and locks come back, although a worker crashes and locks vanish; the row alone keeps commit and outcome together | 2 jobs and 1 worker, or 1 job and 2 workers of which 1 is mortal, `LockLoss` |
| `session_lock` | queue per key, no entry left behind, refinement of `FifoLease`, no function starts without a live lease, every call returns | 7 calls, 3 keys |
| `pg_lock` | advisory locks match the calls' belief, connections accounted for, calls of a key serialized, every call returns, also if no deadline helps | 8 calls, 2 keys, 2 pods with 1 connection, deadlines |
| `drain` | the limit holds, no wake-up is lost, every job leaves the queue, `close` ends everything | 3 jobs of 2 runtimes and 2 sessions, room for 1 run; three environments: no maintenance and 1 failure, another worker that may die, deadlines and cancellations |
| `event_stream` | a client whose stream is quiet knows every change; ids on a stream grow; the replay window and its pins | 2 pods, 3 commits of 1 (one oversized, one a trace), a ring of 1 event, 2 faults of 9 kinds (all but `earlyPause`) |
| `services` | one instance of each of the six service modules | see `MCServices` |
| `jobs_shutdown_doc`, `pg_lock_stale`, `session_end_doc` | findings, section 6 | |

In `services` a behaviour belongs to one service (`part`), and the variables of the others never change: they share no state in the instance. It shows
for `SessionLifecycle` that marks of a deletion agree and an ended session stays closed (`LifecycleInv`), `OwnIncarnationOnly`, `EndsOnce`; for
`TurnControl` that interjections are saved once and a stop reaches the running turn (`TurnControlInv`), `StopIsFinal`, `NewInputEndsRounds`; for
`JobStatusProjection` that a wrong last row is one the next passes look at (`ProjectionInv`), `NoRowAfterJob`; for `FinalizeExecution` that what is
recorded and announced is what landed, each turn counts once (`FinalizeInv`), `StandsOnLanded`; for `SettleBarrier` that no job is waited for under the
lock, and what an execution did not wait for is named and was waited for long enough (`BarrierInv`); for `ApprovalGate` `AllowedByPlayer`.

**Why the bounds are enough.** The races of `RuntimeJobs` are between the four activities of one run, a second worker that recovers or re-runs the same
job, and requests: one job and two workers have them all. Order and exclusion are between two jobs of one runtime; a third id is needed only for a retry
that is overtaken. `MaxRev` stops renewals (not other writes) at a small revision: one renewal before and one during the commit barrier are
possible. `MaxChanges = 1` allows a change at every point. `LiveInit` of `jobs_crash_live` starts with one worker already down or one job already pruned,
states a deployment is in after a restart or a while. For the drain, two jobs of one runtime and one of another session are the ways two jobs may be
related. One connection per pod is the worst case of the pool. A ring of one event overflows with the second, an outbox of two with the third; two
faults meet in every order, and three commits are one before, one during and one after what they disturb. A deletion needs two rivals and a second
incarnation, a stop a second request, a projection a writer and a pass of which both may be late. Three results are a chain of units, a unit with a
nested result, or independent ones; one operation is read or not. Workers or job ids are interchangeable and used as symmetry sets where no liveness
is checked. Deadlock is not checked in runs where the system may stop: all workers are gone, all calls have returned, or requests, commits and faults
are used up.

**Fairness.** For jobs: promise chains continue and timers fire (weak fairness of the steps of a run); a provider call and a foreground turn end; leases
lapse as time passes; the maintenance timer of a living worker claims and recovers again and again. An execution waits for locks that others take
and release in between; the in-process lock serves in order of arrival and the PostgreSQL wait is repeated without end
(`withBackgroundSessionLock`), hence strong fairness of `ExecStep` and of `Recover`. Nothing is assumed of crashes, requests, renewals or deadlines. For
the locks: a callback ends, a promise or query continues; weak fairness of a call's steps. For the drain: a pass goes on, timers fire, runs end, and
a request that has committed a job gets to wake the worker.

## 4. Proofs

**RuntimeJobsProofs**, for any sets of workers, jobs and runtimes and any clock. With and without lock loss: `TypeCorrect`, `CommitOutcome`
(`OutcomeMatchesCommit`), `SerialExecution` (`SerialPerRuntime`), `FinalRows` (`TerminalIsFinal`), `QuietQueue` (`QueuedIsQuiet`), `OrphansLapsed`
(`OrphanOnlyLapsed`). Under `~LockLoss`: `SerializedProvider` (`OneExecutionPerRuntime`), `CommitterProtected` (`CommitterKeepsRow`), `StaleIsEarned`
(`StaleOnlyAfterChange`), `AuthorisedCommit` (`CommitIsAuthorised`). Under `Keep > 0`: `SettlingOrder` (`SettlingCommitsInSourceOrder`). No property is
inductive; there are four invariants: `RunInv` and `OrderInv` rest on `IInv`, `LocksInv` on both `IInv` and `RunInv`.

- `IInv`: sequences are bounded by the counter (`SeqBound`), nobody works on a job that was never enqueued (`AbsentIsIdle`),
  and the revisions that the barrier and the renewal read earlier are not ahead of the row, and if they are still the row's, then the row is still in the
  state in which it was read (`BarrierReadIsCurrent`, `RenewalReadIsCurrent`). The last two are where the growing revision is used: a swap that
  succeeds acts on the row it read. The argument has two layers. Every action is shown to have a *shape* (`StepShape`): what it does to the rows is
  nothing, a legal move with a greater revision, a claim, a renewal, a creation, a commit or a prune, and what it does to a run keeps the facts about
  its reads. Then each conjunct of `IInv` is shown to be kept by every shape.
- `RunInv`: which combinations of `main`, `exec`, `renew` and `dl` a run can be in (`Shape`), what each says of the row (`Fits`), and that a recovery's
  snapshot that still names the row names one whose lease is lapsed (`ScanFits`).
- `LocksInv`: an execution holds the locks its stage says (`Holding`), a job enqueued after the last change of its session is still admitted
  (`BirthFits`), and a foreground turn runs in an active session. It needs `~LockLoss`: a dropped PostgreSQL connection frees the lock under an execution
  that goes on, after which two providers run together, a recovery takes a committing row, and a follower is created for a session that was paused
  meanwhile. The runs with `LockLoss` therefore do not state these four properties.
- `OrderInv`: the retained jobs of a settling runtime are queued in the order of their sources, the newest of them comes from the latest source of all,
  and none that is still to be done is behind one that committed. It needs `Keep > 0`, as the code has it (`RETAINED_TERMINAL_RUNTIME_JOBS`): were the
  newest row pruned, the retry of an older one would not be refused.

**SessionLockProofs**, for any calls, keys and nesting: `Queues` (`QueueInv`: types, how far each call is through its keys, and that the predecessors
of a key form a chain from its tail), `LiveEntries` (`EntryIsLive`), `Implementation`, that the lock implements `FifoLease`, and `UnderLease`
(`StartsUnderLease`). Steps are proved key by key: a key is untouched, asked for, entered or released (`KeyKept`, `KeyAsked`, `KeyEntered`, `KeyReleased`).
`LeaseInv` says, of a call whose callers all await it, that they run (`CallersRun`), that every lease in its context is live and comes from itself or
its caller (`LeasesLive`), and of every call that it passed over no key its context has no lease of (`KeysPassed`). A function that ends has no awaited
call left, hence no call counts on its leases; this needs that calls form a forest, which `CallsAssumption` says: a call is made in the callback of an
earlier one.

**EventStreamProofs**, for any pods, events and faults, with a transport that may reorder: `Replay` (`ReplayInv`), `Stream` (`StreamInv`) and, for any
faults but `earlyPause`, `Sync` (`InSync`). The `IInv` of the first says of every pod that its window is in order and that it has no pins when it is
untracked (`Kept`), and that the pins are those of the stream's stage (`PinsMatch`). `Stream` needs `Carried`: whatever is kept, travels or is known
is of the committed events; and of the stream, `StreamOrder`. An id is *past* for a session that has given it out (`Past`), and *in its ring* if a
cursor below it gets its event or a gap (`InRing`); every step of a session keeps both (`Grows`), and an announced event is later than all that is
past (`Announces`). Before the answer, what was heard is after the cursor and in the ring (`Waiting`), so the replay either has it or is a reset;
during the answer, what was heard was sent, is still to be sent, or is later than both (`Replaying`); afterwards it is later than the last id written.
The eviction and the invalidation of a session start a new epoch, in which nothing old is in the ring and everything old is past. `Entries` and
`Ascending` are characterised by induction on the size of a set (`AscendingLists`, `EntriesFacts`).

`InSync` speaks of a moment when nothing is under way, so what is inductive must say of every earlier moment how a change will still reach the client.
`Sync` adds two invariants to the above. `BusOrder`: no two frames of a stream of frames have one number, an outbox holds its frames in the order of their
numbers and after all that was sent, and a receiver has passed a number only if that one or a later one was sent. With it, an event that a pod has yet to
hear `ComesTo` it: its frame waits, is saved, travels, is parked or is in a chain; or it is lost, and then a later frame of its stream will reveal the
hole, or the pod's LISTEN connection will be back and reset everything, or it is one of the two losses that `InSync` names. A step at a pod either brings
the event, or a reset, to all its sessions there, or the event still comes (`Told`, `Flies`). `InformInv`: every change is `Covered`. The client knows it;
or will read it, since a recovery is due; or it is in the view being read, or the head that comes with the stream will show the view to be too old; or it
is `Ahead` of the cursor from which the stream is or will be answered, so a replay from there has it or is a reset; or it is heard and buffered, or comes
to the pod of the stream. Each action of the client moves a change from one of these cases to another: reading and applying the view, connecting, the
answer, the frames, the end of the stream and the recovery. The invariant carries with it what the cases rest on, which phase of the stream goes with
which state of the client (`Shape`) and that the buffered events are in the ring (`BufKept`). A reset that the client skips is
harmless on the stream its recovery began with, since that stream hears what is committed after the recovery's read; an early pause leaves that stream.

**SessionLifecycleProofs**, for any requests and runs: `Lifecycle` (`LifecycleInv`), `OwnIncarnation`, `EndOnce`. `LifecycleIInv` adds that an incarnation is
created once (`CreatedOnce`), that once its SessionEnd is noted the row says so until it is gone (`NotedOnRow`), and that a prepared deletion waits
for every job that can be at work (`DrainCovers`), so that after the drain none is and none starts (`NothingRuns`).

**PgSessionLockProofs**, for any calls and nesting, keys, pods and pool sizes: `Accounts` (`LockInv`), `Serialization` (`Serialized`). The eight parts of
`IInv` are types; what a call knows at each stage of its root, its held keys and its own keys (`CallInv`); the calls of one connection are kept apart by its
in-process lock (`Apart`), hence PostgreSQL's re-entrance never grants a key twice; a connection has one outermost call (`ConnKnown`), which is there while
calls use it (`RootWaits`), as a callback is for the calls it awaits (`CallbackWaits`); PostgreSQL's table is the union of what calls have locked
(`LocksMatchCalls`); and a key a callback takes for granted is locked by a call above it (`HeldIsLocked`). Each step of a call is one of a few *moves*
(`Move`), and each part is shown to be kept by every move. `PgAssumption` says that a call is made in the callback of an earlier one, so
calls form a forest. The hypothesis of both theorems is `BranchesCounted`: a branch that its callback does not await is made directly in an outermost
callback, while it runs or when it is over, and asks for a key that callback does not hold. The instance of `pg_lock` satisfies it, and so does every
program that awaits its branches. It cannot be dropped: section 6 has what TLC finds for each of its conjuncts.

**WorkerDrainProofs**, for any jobs, limit and environment: `Drain` (`DrainInv`), by what a pass remembers of the runs it started and the claims it
made, and `Wakeups` (`WakeupsKept`). `WakeInv` follows a job the worker was told of: it is in the scope of a pass that is certain to come (`Awaited`), or
the pass under way has yet to look at it or had a reason not to claim it (`Attended`), and passes and timers exclude each other (`OnePending`).

**TurnProofs**. *Turn control*, for any requests, rounds and messages: `StopFinal`, `RoundsEnd`, `Control` (`TurnControlInv`). Two invariants: where each
request is, seen from the lock, the registry and the signal (`ControlInv`), and where each message is: with the player, accepted by one request, or
saved, and in one place of it (`QueueInv`, `MessagesOnce`).

*Finalize*, for any plan: `Recorded` (`FinalizeInv`), `Stand` (`StandsOnLanded`). The units before `upto` are settled; of those, what
was not dropped is exactly what the transaction holds (`Holds`), and what a unit stood on when it was let in stays there, since the transaction only
grows (`StandsMore`). `FinalizeAssumption` says what a plan is: units are contiguous and need only earlier ones.

**ServiceProofs**. *Settle barrier*, for any executions, jobs and budgets: `Barrier` (`BarrierInv`). The list made under the lock has every unfinished job that was
ahead, whatever became of the earlier list, and a deadline is the budget of some enqueued job, the least one.

*Approval gate*, for any keys, payloads and limits: `Allowed` (`AllowedByPlayer`). What the gate stores was decided, a decision counts until it
is withdrawn, and an approval id names one request.

*Job status projection*, for any number of workers and an overlap that covers a projection and the skew of clocks, as `ProjectionAssumption` asks:
`Projection` (`ProjectionInv`), `NoRowLater` (`NoRowAfterJob`). Whoever projects or has seen an earlier status began before the job ended, as far as clocks
agree (`EarlierIsRecent`), and no projection is older than its time-out (`Timely`); hence a wrong row is one that every complete pass to come looks at
(`Revisited`), also if the pass under way fails and its predecessor's mark stays.

The assumptions are the named ones of the modules (`...Assumption`, `NoneIsNoRow`): kinds of requests are disjoint, special values are not
ordinary ones, bounds are numbers. TLC evaluates them in every run of the module.

**Only model-checked.** Every liveness property (the prover does not treat fairness): `EveryJobSettles`, `LocksAreReturned`, `EveryCallReturns` of both
locks, `CloseEnds`, `QueuedIsTaken`. Every invariant and every action property that a passing run checks is a theorem. The event and service modules
state no liveness.

## 5. Not modelled

- Parts the inventory lists as planned: the DAG scheduler, suspension and resume, write gates, browser sync, settings, job credentials.
- What a runtime computes, proposals and their validators, presentation; the content of events and rows.
- In the job modules a commit is one atomic transaction, which `FinalizeExecution` takes apart on its own; the services are not composed with each
  other, except where one extends the other. Jobs of several sessions or plugins share nothing but the workers' capacity.
- An unlock query of the PostgreSQL lock that fails on a live connection (`pg-session-lock.ts:133` only logs it; the connection returns to the pool
  with the advisory lock held), and collisions of `hashSessionId`.
- The loss of the connection of a PostgreSQL lock is in `RuntimeJobs` (`LockLoss`), not in `PgSessionLock`.
- In the session life: world import and media, rotation of approval scopes, PATCH of other fields. In the event modules: see section 2.

## 6. Findings

1. `jobs_shutdown_doc`: a close between the swap to `committing` and the in-memory mark sends a committing job back to the queue, which
   `docs/en/internals/flow.md` excludes. Nothing was committed; the job runs again.
2. `pg_lock_stale`: a branch that outlives a nested call of the PostgreSQL lock still finds the released key in its `heldKeys` while the outer call
   is active, and runs without the lock beside the key's next holder. The contract of the lock says calls are strictly serialized, and the in-process
   lock is tested for this case. A caller that awaits all its branches never meets it.
3. `session_end_doc`: when the deletion of an ended session fails, the row is left paused; the retry takes it for a session that was never ended and
   runs SessionEnd a second time, which the API reference and a test exclude.

The run `pg_lock` therefore lets the branch that outlives its caller call while the outermost callback runs, or after the outermost call is over. It
leaves out one more moment: an outermost `tryWithLock` clears `active` only after its unlock query (`pg-session-lock.ts:344`), and `withLocks` only
after the microtask of `await state.nestedIdle`; a branch that locks another key just then is nested on a connection that goes back to the pool under
it. With `When[c] = {"unlock"}` for a branch of a probe, TLC finds `ConnectionsAccounted` violated. The third conjunct of `BranchesCounted` is of the same
kind: a branch that asks only for keys the outermost callback holds runs without being counted (`withLocks`, every key in `heldKeys`), so the outermost
call may unlock under it. TLC then finds `Serialized` violated, and `LockInv` when such a branch awaits a call that nests another key.

The run `event_stream` leaves out one kind of fault, and `Sync` assumes it away: `earlyPause`. The web client skips the first `system.reset` after a
reconnect, as one that asks for the recovery the reconnect has already begun (`reconnectRecoveryOpen`, `session-store/subscription.ts:539-543`, `660-662`).
Another event ends that, or a change of the connection state; but a pause for an action of the page changes no state (`handlePauseChange`,
`services/subscription.ts:477-491`). So when the action starts before the stream's first event or heartbeat, the reset that answers the resumed stream
is skipped as well, though the recovery may have read before the change. `docs/en/reference/protocol.md:829-832` says that a client that receives
`system.reset` fetches the authoritative state again. With `Faults = {"leave", "earlyPause"}` in `EventStream.cfg`, TLC finds `InSync` violated in 15
states: reconnect, recovery, a commit, the pause, and a resumption on the other pod. The change stays unread until something else makes the client read.

Smaller observations met while modelling, which no run states:

- Cancelling a queued job does not wake the worker, although `flow.md` says that job endings do. Jobs behind it wait for the next event or maintenance,
  at most 30 seconds (`QueuedIsTaken`).
- An event frame that is dropped at the cap of the outbox just before its origin starts a new epoch leaves no hole a receiver could see: the numbering
  starts again (`event-bus.ts`, `getReceiveState`). `InSync` names the case (`LostAtTail`).
- Between two chained turns a request is neither in `waitingRequests` nor in `activeTurns` once another request has begun a turn, so a stop or a new
  input at that moment does not reach it; the comment in `turn-control.ts` says it is reachable "between the turns it chains". `StopIsFinal` and
  `NewInputEndsRounds` therefore speak of the requests that were found.
- A projection that lands later than `RECONCILE_OVERLAP_MS` after its change, over a newer row, stays wrong until a worker restarts: the next
  complete passes no longer look at the job.
- A second one-time approval of an action for another payload replaces the first one, as both are stored under one key.

## 7. Plan

Done: jobs, both locks, drain loop, status projection, settle barrier, session life, turn control, finalize, event bus with a client, approval gate.
Next, in this order:

1. Suspension and resume of turns (`packages/runtime/src/resume`), with the single use of a suspension; then the DAG scheduler as functions against a
   reference definition.
2. The finalize transaction as a refinement of the atomic commit of `RuntimeJobs`; turn control composed with the settle barrier and the lock.
3. Store write gates, settings persistence, job credentials, browser sync.
