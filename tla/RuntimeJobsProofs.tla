------------------------- MODULE RuntimeJobsProofs -------------------------
(***************************************************************************)
(* Proofs about RuntimeJobs, for every value of its constants: any number  *)
(* of workers, jobs and runtimes, and any clock. Four invariants, each     *)
(* inductive on top of the first:                                          *)
(*   IInv      types, sequence numbers, revisions, outcome and queue order;*)
(*   RunInv    where a run can stand and what it may assume of its row;    *)
(*   LocksInv  which locks a run holds and what they keep as it is;        *)
(*   OrderInv  the order of the executions settling jobs come from.        *)
(* Only the theorems from LocksInv assume that no lock connection drops    *)
(* while its owner lives (~LockLoss), and only the last one that pruning   *)
(* keeps a row (Keep > 0).                                                 *)
(***************************************************************************)
EXTENDS RuntimeJobs, FiniteSetTheorems, TLAPS

-----------------------------------------------------------------------------
(* The inductive invariant *)

\* No retained row is past the counter, so the next sequence number is new.
SeqBound == \A j \in Jobs : Exists(j) => job[j].seq <= counter

\* Nobody works on a job that was never enqueued.
AbsentIsIdle ==
  \A w \in Workers, j \in Jobs : job[j].status = "absent" => run[w][j] = NoRun

\* The revision beforeCommit read is a past one, and still names the row only
\* while the row is what it was read as.
BarrierReadIsCurrent ==
  \A w \in Workers, j \in Jobs :
    run[w][j].exec = "cas" /\ Exists(j) =>
      /\ run[w][j].casRev <= job[j].rev
      /\ run[w][j].casRev = job[j].rev => job[j].status = "running" /\ job[j].owner = w

\* The same for the row a lease renewal read.
RenewalReadIsCurrent ==
  \A w \in Workers, j \in Jobs :
    run[w][j].renew = "read" /\ Exists(j) =>
      /\ run[w][j].readRev <= job[j].rev
      /\ run[w][j].readRev = job[j].rev => job[j].status \in Active /\ job[j].owner = w

TypeInv == TypeOK /\ SeqBound

IInv ==
  /\ TypeInv
  /\ AbsentIsIdle
  /\ BarrierReadIsCurrent
  /\ RenewalReadIsCurrent
  /\ OutcomeMatchesCommit
  /\ SerialPerRuntime

-----------------------------------------------------------------------------
(* Lemmas about the operators *)

\* A write always has a later revision than the row it replaces, whatever the
\* clock says.
LEMMA RevisionGrows ==
  ASSUME NEW p \in Nat, NEW now \in Clock
  PROVE  NextRevision(p, now) \in Nat /\ NextRevision(p, now) > p
BY ConstantsAssumption DEF NextRevision

\* The allocated sequence number is the counter's successor.
LEMMA SequenceIsNew ==
  ASSUME TypeInv
  PROVE  NextSeq = counter + 1
<1> DEFINE taken == {job[j].seq : j \in {k \in Jobs : Exists(k)}} \cup {counter}
<1>1. counter \in taken /\ \A n \in taken : n \in Nat /\ n <= counter
  BY DEF TypeInv, TypeOK, SeqBound, Row
<1>2. \A m \in taken : (\A n \in taken : n <= m) => m = counter
  BY <1>1
<1>3. (CHOOSE m \in taken : \A n \in taken : n <= m) = counter
  BY <1>1, <1>2
<1> QED BY <1>3 DEF NextSeq

\* What transitionRuntimeJob does to the rows.
Moves(j, to) ==
  /\ job' \in [Jobs -> Row]
  /\ \A k \in Jobs \ {j} : job'[k] = job[k]
  /\ job'[j].status = to
  /\ job'[j].rev > job[j].rev
  /\ job'[j].seq = job[j].seq
  /\ job'[j].owner = IF to = "queued" THEN NoWorker ELSE job[j].owner

LEMMA MovedRow ==
  ASSUME TypeOK, NEW j \in Jobs, NEW to \in Status, NEW now \in Clock,
         job' = [job EXCEPT ![j] = Moved(@, to, now)]
  PROVE  Moves(j, to)
<1>1. job[j] \in Row
  BY DEF TypeOK
<1>2. NextRevision(job[j].rev, now) \in Nat /\ NextRevision(job[j].rev, now) > job[j].rev
  BY <1>1, RevisionGrows DEF Row
<1>3. Moved(job[j], to, now) \in Row
  BY <1>1, <1>2 DEF Moved, Row
<1>4. /\ Moved(job[j], to, now).status = to
      /\ Moved(job[j], to, now).rev = NextRevision(job[j].rev, now)
      /\ Moved(job[j], to, now).seq = job[j].seq
      /\ Moved(job[j], to, now).owner = IF to = "queued" THEN NoWorker ELSE job[j].owner
  BY <1>1 DEF Moved, Row
<1> QED BY <1>2, <1>3, <1>4 DEF Moves, TypeOK

LEMMA TransitionMoves ==
  ASSUME TypeOK, NEW j \in Jobs, NEW to \in Status, Transition(j, to)
  PROVE  /\ Moves(j, to)
         /\ leaseLate' \subseteq Jobs
         /\ scan' \in [Jobs -> Nat \cup {NoRev}]
<1>1. Moves(j, to)
  BY MovedRow DEF Transition
<1>2. leaseLate' \subseteq Jobs /\ scan' \in [Jobs -> Nat \cup {NoRev}]
  BY DEF Transition, Rest, TypeOK
<1> QED BY <1>1, <1>2

\* A created row: absent before, queued with the next sequence number after.
Creates(j) ==
  /\ job[j].status = "absent"
  /\ job'[j].status = "queued"
  /\ job'[j].seq = counter + 1
  /\ counter' = counter + 1

LEMMA CreateMoves ==
  ASSUME TypeInv, NEW rows \in [Jobs -> Row], NEW j \in Jobs, NEW source \in Nat,
         job[j].status = "absent", Create(rows, j, source)
  PROVE  /\ job' \in [Jobs -> Row]
         /\ \A k \in Jobs \ {j} : job'[k] = rows[k]
         /\ Creates(j)
         /\ born' \in [Jobs -> Nat]
         /\ origin' \in [Jobs -> Nat]
<1>1. NextSeq = counter + 1 /\ NextSeq \in Nat
  BY SequenceIsNew DEF TypeInv, TypeOK
<1>2. PICK now \in Clock :
        job' = [rows EXCEPT ![j] =
                  [status |-> "queued", owner |-> NoWorker, rev |-> now,
                   attempt |-> 0, seq |-> NextSeq, gen |-> session.gen]]
  BY DEF Create
<1>3. [status |-> "queued", owner |-> NoWorker, rev |-> now,
       attempt |-> 0, seq |-> NextSeq, gen |-> session.gen] \in Row
  BY <1>1, ConstantsAssumption DEF Row, Status, TypeInv, TypeOK
<1>4. born' \in [Jobs -> Nat] /\ origin' \in [Jobs -> Nat]
  BY DEF Create, TypeInv, TypeOK
<1> QED BY <1>1, <1>2, <1>3, <1>4 DEF Creates, Create

LEMMA RunTypes ==
  ASSUME NEW r \in RunState, NEW reason \in Reason
  PROVE  /\ Aborted(r, reason) \in RunState
         /\ RenewalStopped(r) \in RunState
         /\ Left(r) \in RunState
         /\ Returned(r, reason) \in RunState
         /\ NoRun \in RunState
<1>1. NoRun \in RunState
  BY DEF NoRun, RunState, Reason
<1>2. Aborted(r, reason) \in RunState
  <2>1. /\ [r EXCEPT !.abort = reason, !.main = "catch", !.err = reason] \in RunState
        /\ [r EXCEPT !.abort = reason, !.main = r.main, !.err = r.err] \in RunState
    BY DEF RunState
  <2> QED BY <2>1 DEF Aborted
<1>3. RenewalStopped(r) \in RunState
  <2>1. CASE r.renew = "timer"
    <3>1. [r EXCEPT !.stopRenewing = TRUE, !.renew = "off"] \in RunState
      BY DEF RunState
    <3> QED BY <2>1, <3>1 DEF RenewalStopped
  <2>2. CASE r.renew # "timer"
    <3>1. [r EXCEPT !.stopRenewing = TRUE, !.renew = r.renew] \in RunState
      BY DEF RunState
    <3> QED BY <2>2, <3>1 DEF RenewalStopped
  <2> QED BY <2>1, <2>2
<1>4. Left(r) \in RunState
  <2>1. [r EXCEPT !.main = "done", !.renew = "off", !.dl = "off", !.stopRenewing = TRUE]
          \in RunState
    BY DEF RunState
  <2> QED BY <1>1, <2>1 DEF Left
<1>5. Returned(r, reason) \in RunState
  <2>1. /\ [r EXCEPT !.exec = "ret", !.main = "check", !.err = reason] \in RunState
        /\ [r EXCEPT !.exec = "ret", !.main = "catch", !.err = reason] \in RunState
        /\ [r EXCEPT !.exec = "ret", !.main = r.main, !.err = r.err] \in RunState
    BY DEF RunState
  <2> QED BY <1>1, <2>1 DEF Returned
<1> QED BY <1>1, <1>2, <1>3, <1>4, <1>5

LEMMA SetType ==
  ASSUME TypeOK, NEW w \in Workers, NEW j \in Jobs, NEW r \in RunState, Set(w, j, r)
  PROVE  /\ run' \in [Workers -> [Jobs -> RunState]]
         /\ run'[w][j] = r
         /\ \A v \in Workers, k \in Jobs : v # w \/ k # j => run'[v][k] = run[v][k]
BY DEF TypeOK, Set

LEMMA ReturnType ==
  ASSUME TypeOK, NEW w \in Workers, NEW j \in Jobs, NEW error \in Reason,
         Return(w, j, error)
  PROVE  /\ run' \in [Workers -> [Jobs -> RunState]]
         /\ run'[w][j] = Returned(run[w][j], error)
         /\ \A v \in Workers, k \in Jobs : v # w \/ k # j => run'[v][k] = run[v][k]
         /\ sessLock' \in Runs \cup {Turn, NoHolder}
         /\ rtLock' \in [Runtimes -> Runs \cup {NoHolder}]
<1>1. run[w][j] \in RunState
  BY DEF TypeOK
<1>2. Returned(run[w][j], error) \in RunState
  BY <1>1, RunTypes
<1>3. Set(w, j, Returned(run[w][j], error))
  BY DEF Return
<1>4. /\ sessLock' \in Runs \cup {Turn, NoHolder}
      /\ rtLock' \in [Runtimes -> Runs \cup {NoHolder}]
  BY DEF Return, TypeOK
<1> QED BY <1>2, <1>3, <1>4, SetType

-----------------------------------------------------------------------------
(* What one step does to the rows and to the runs *)

SameHistory == commits' = commits /\ verdict' = verdict

RowsSame == job' = job /\ counter' = counter /\ SameHistory

OthersSame(J) == \A k \in Jobs \ J : job'[k] = job[k]

\* A lease renewal: only the revision of an active row changes.
RowRenewed(j) ==
  /\ job[j].status \in Active
  /\ job'[j].status = job[j].status
  /\ job'[j].owner = job[j].owner
  /\ job'[j].seq = job[j].seq
  /\ job'[j].rev > job[j].rev
  /\ OthersSame({j})
  /\ counter' = counter
  /\ SameHistory

\* A transition outside a commit: from a row that is not final, never to
\* succeeded, and into the active states only from there or past NoPredecessor.
RowMoved(j) ==
  /\ Exists(j) /\ job[j].status \notin Terminal
  /\ job'[j].status \notin Absent \cup {"succeeded"}
  /\ job'[j].status \in Active => job[j].status \in Active \/ NoPredecessor(j)
  /\ job'[j].seq = job[j].seq
  /\ job'[j].rev > job[j].rev
  /\ OthersSame({j})
  /\ counter' = counter
  /\ SameHistory

RowCreated(j) == Creates(j) /\ OthersSame({j}) /\ SameHistory

\* The commit transaction of j, which may create the follower f.
RowCommitted(j, to, f) ==
  /\ job[j].status = "committing"
  /\ to \in {"succeeded", "failed"}
  /\ job'[j].status = to
  /\ job'[j].seq = job[j].seq
  /\ job'[j].rev > job[j].rev
  /\ OthersSame({j, f})
  /\ IF f = NoJob THEN counter' = counter ELSE f \in Jobs /\ Creates(f)
  /\ commits' = [commits EXCEPT ![j] = @ + 1]
  /\ verdict' = [verdict EXCEPT ![j] = to]

\* Pruned rows have a later one of their runtime, if any are to be kept.
RowPruned(j) ==
  /\ job[j].status \in Terminal
  /\ Keep > 0 => \E i \in Group(j) \ {j} : job[i].seq > job[j].seq
  /\ job'[j].status = "pruned"
  /\ OthersSame({j})
  /\ counter' = counter
  /\ SameHistory

RowStep ==
  \/ RowsSame
  \/ \E j \in Jobs : RowRenewed(j) \/ RowMoved(j) \/ RowCreated(j) \/ RowPruned(j)
  \/ \E j \in Jobs, to \in {"succeeded", "failed"}, f \in Jobs \cup {NoJob} : RowCommitted(j, to, f)

\* A new state r of the run (w, j): a revision it holds for a later swap was
\* held before or has just been read.
Follows(w, j, r) ==
  /\ r.exec = "cas" =>
       \/ run[w][j].exec = "cas" /\ r.casRev = run[w][j].casRev
       \/ /\ job'[j] = job[j] /\ r.casRev = job[j].rev
          /\ job[j].status = "running" /\ job[j].owner = w
  /\ r.renew = "read" =>
       \/ run[w][j].renew = "read" /\ r.readRev = run[w][j].readRev
       \/ /\ job'[j] = job[j] /\ r.readRev = job[j].rev
          /\ job[j].status \in Active /\ job[j].owner = w

RunKept(w, j) ==
  \/ run'[w][j] = run[w][j]
  \/ run'[w][j] = NoRun
  \/ /\ Follows(w, j, run'[w][j])
     /\ run[w][j] # NoRun \/ job[j].status = "queued"

RunStepOK == \A w \in Workers, j \in Jobs : RunKept(w, j)

StepShape == TypeOK' /\ RowStep /\ RunStepOK

LEMMA SetFollows ==
  ASSUME TypeOK, NEW w \in Workers, NEW j \in Jobs, NEW r \in RunState, Set(w, j, r),
         Follows(w, j, r), run[w][j] # NoRun \/ job[j].status = "queued"
  PROVE  run' \in [Workers -> [Jobs -> RunState]] /\ RunStepOK
BY SetType DEF RunStepOK, RunKept

LEMMA ReturnFollows ==
  ASSUME TypeOK, NEW w \in Workers, NEW j \in Jobs, NEW error \in Reason,
         Return(w, j, error), run[w][j].exec # "none"
  PROVE  /\ run' \in [Workers -> [Jobs -> RunState]]
         /\ sessLock' \in Runs \cup {Turn, NoHolder}
         /\ rtLock' \in [Runtimes -> Runs \cup {NoHolder}]
         /\ RunStepOK
<1> DEFINE r == run[w][j]
<1>1. r \in RunState /\ r # NoRun
  BY DEF TypeOK, NoRun
<1>2. Returned(r, error) = NoRun \/ Follows(w, j, Returned(r, error))
  <2>1. CASE r.main = "done"
    BY <2>1 DEF Returned
  <2>2. CASE r.main # "done"
    <3>1. /\ Returned(r, error).exec = "ret"
          /\ Returned(r, error).renew = r.renew
          /\ Returned(r, error).readRev = r.readRev
      BY <1>1, <2>2 DEF Returned, RunState
    <3> QED BY <3>1 DEF Follows
  <2> QED BY <2>1, <2>2
<1> QED BY <1>1, <1>2, ReturnType DEF RunStepOK, RunKept

-----------------------------------------------------------------------------
(* Steps of that shape keep the invariant *)

\* A row that is written gets a later revision; only an absent row appears.
LEMMA RowsGrow ==
  ASSUME TypeOK, RowStep, TypeOK', NEW j \in Jobs
  PROVE  \/ job'[j] = job[j]
         \/ job[j].status = "absent" /\ job'[j].status = "queued"
         \/ job'[j].status = "pruned"
         \/ /\ Exists(j) /\ job'[j].status \notin Absent
            /\ job'[j].rev > job[j].rev
<1>1. CASE RowsSame
  BY <1>1 DEF RowsSame
<1>2. ASSUME NEW k \in Jobs, RowRenewed(k) \/ RowMoved(k) \/ RowCreated(k) \/ RowPruned(k)
      PROVE  \/ job'[j] = job[j]
             \/ job[j].status = "absent" /\ job'[j].status = "queued"
             \/ job'[j].status = "pruned"
             \/ /\ Exists(j) /\ job'[j].status \notin Absent
                /\ job'[j].rev > job[j].rev
  BY <1>2 DEF RowRenewed, RowMoved, RowCreated, RowPruned, OthersSame, Creates, Exists,
              Active, Absent
<1>3. ASSUME NEW k \in Jobs, NEW to \in {"succeeded", "failed"},
             NEW f \in Jobs \cup {NoJob}, RowCommitted(k, to, f)
      PROVE  \/ job'[j] = job[j]
             \/ job[j].status = "absent" /\ job'[j].status = "queued"
             \/ /\ Exists(j) /\ job'[j].status \notin Absent
                /\ job'[j].rev > job[j].rev
  BY <1>3, ConstantsAssumption DEF RowCommitted, OthersSame, Creates, Exists, Active, Absent
<1> QED BY <1>1, <1>2, <1>3 DEF RowStep

LEMMA RunsKeepInvariant ==
  ASSUME IInv, StepShape
  PROVE  AbsentIsIdle' /\ BarrierReadIsCurrent' /\ RenewalReadIsCurrent'
<1>1. TypeOK /\ TypeOK' /\ RowStep
  BY DEF IInv, TypeInv, StepShape
<1>2. ASSUME NEW w \in Workers, NEW j \in Jobs
      PROVE  /\ job'[j].status = "absent" => run'[w][j] = NoRun
             /\ run'[w][j].exec = "cas" /\ Exists(j)' =>
                  /\ run'[w][j].casRev <= job'[j].rev
                  /\ run'[w][j].casRev = job'[j].rev =>
                       job'[j].status = "running" /\ job'[j].owner = w
             /\ run'[w][j].renew = "read" /\ Exists(j)' =>
                  /\ run'[w][j].readRev <= job'[j].rev
                  /\ run'[w][j].readRev = job'[j].rev =>
                       job'[j].status \in Active /\ job'[j].owner = w
  <2>1. /\ job[j].status = "absent" => run[w][j] = NoRun
        /\ run[w][j].exec = "cas" /\ Exists(j) =>
             /\ run[w][j].casRev <= job[j].rev
             /\ run[w][j].casRev = job[j].rev => job[j].status = "running" /\ job[j].owner = w
        /\ run[w][j].renew = "read" /\ Exists(j) =>
             /\ run[w][j].readRev <= job[j].rev
             /\ run[w][j].readRev = job[j].rev => job[j].status \in Active /\ job[j].owner = w
    BY DEF IInv, AbsentIsIdle, BarrierReadIsCurrent, RenewalReadIsCurrent
  <2>2. \/ job'[j] = job[j]
        \/ job[j].status = "absent" /\ job'[j].status = "queued"
        \/ job'[j].status = "pruned"
        \/ Exists(j) /\ job'[j].status \notin Absent /\ job'[j].rev > job[j].rev
    BY <1>1, RowsGrow
  <2>3. RunKept(w, j)
    BY DEF StepShape, RunStepOK
  <2>4. /\ job[j].rev \in Nat /\ job'[j].rev \in Nat
        /\ run[w][j].casRev \in Nat /\ run[w][j].readRev \in Nat
        /\ run'[w][j].casRev \in Nat /\ run'[w][j].readRev \in Nat
    BY <1>1 DEF TypeOK, Row, RunState
  <2>5. NoRun.exec = "none" /\ NoRun.renew = "off"
    BY DEF NoRun
  <2>6. Exists(j)' <=> job'[j].status \notin Absent
    BY DEF Exists
  <2>7. CASE run'[w][j] = NoRun
    BY <2>5, <2>7
  <2>8. CASE run'[w][j] = run[w][j]
    BY <2>1, <2>2, <2>4, <2>5, <2>6, <2>8 DEF Exists, Absent
  <2>9. CASE Follows(w, j, run'[w][j]) /\ (run[w][j] # NoRun \/ job[j].status = "queued")
    <3>1. job[j].status # "absent" /\ (job'[j] = job[j] => job'[j].status # "absent")
      BY <2>1, <2>9
    <3> QED BY <2>1, <2>2, <2>4, <2>6, <2>9, <3>1 DEF Exists, Absent, Follows
  <2> QED BY <2>3, <2>7, <2>8, <2>9 DEF RunKept
<1> QED BY <1>2 DEF AbsentIsIdle, BarrierReadIsCurrent, RenewalReadIsCurrent

LEMMA SequencesKept ==
  ASSUME IInv, StepShape
  PROVE  SeqBound'
<1>1. TypeOK /\ TypeOK' /\ SeqBound /\ RowStep
  BY DEF IInv, TypeInv, StepShape
<1> SUFFICES ASSUME NEW j \in Jobs, Exists(j)'
             PROVE  job'[j].seq <= counter'
  BY DEF SeqBound
<1>2. counter \in Nat /\ job[j].seq \in Nat /\ (Exists(j) => job[j].seq <= counter)
  BY <1>1 DEF SeqBound, TypeOK, Row
<1>3. CASE RowsSame
  BY <1>2, <1>3 DEF RowsSame, Exists
<1>4. ASSUME NEW k \in Jobs, RowRenewed(k) \/ RowMoved(k) \/ RowCreated(k) \/ RowPruned(k)
      PROVE  job'[j].seq <= counter'
  BY <1>2, <1>4 DEF RowRenewed, RowMoved, RowCreated, RowPruned, OthersSame, Creates, Exists,
                    Active, Absent
<1>5. ASSUME NEW k \in Jobs, NEW to \in {"succeeded", "failed"},
             NEW f \in Jobs \cup {NoJob}, RowCommitted(k, to, f)
      PROVE  job'[j].seq <= counter'
  BY <1>2, <1>5, ConstantsAssumption DEF RowCommitted, OthersSame, Creates, Exists, Absent
<1> QED BY <1>1, <1>3, <1>4, <1>5 DEF RowStep

LEMMA OutcomesKept ==
  ASSUME IInv, StepShape
  PROVE  OutcomeMatchesCommit'
<1>1. TypeOK /\ TypeOK' /\ OutcomeMatchesCommit /\ RowStep
  BY DEF IInv, TypeInv, StepShape
<1> SUFFICES ASSUME NEW j \in Jobs
             PROVE  /\ commits'[j] <= 1
                    /\ commits'[j] = 1 => job'[j].status \in {verdict'[j], "pruned"}
                    /\ job'[j].status = "succeeded" => verdict'[j] = "succeeded"
  BY DEF OutcomeMatchesCommit
<1>2. /\ commits[j] \in Nat /\ commits[j] <= 1
      /\ verdict[j] \in {"none", "succeeded", "failed"}
      /\ verdict[j] \notin Absent \cup Active \cup {"queued"}
      /\ commits[j] = 1 => job[j].status \in {verdict[j], "pruned"}
      /\ job[j].status = "succeeded" => verdict[j] = "succeeded"
      /\ job[j].status \in Status
  BY <1>1 DEF OutcomeMatchesCommit, TypeOK, Absent, Active, Row
<1>3. CASE RowsSame
  BY <1>2, <1>3 DEF RowsSame, SameHistory
<1>4. ASSUME NEW k \in Jobs, RowRenewed(k) \/ RowMoved(k) \/ RowCreated(k) \/ RowPruned(k)
      PROVE  /\ commits'[j] <= 1
             /\ commits'[j] = 1 => job'[j].status \in {verdict'[j], "pruned"}
             /\ job'[j].status = "succeeded" => verdict'[j] = "succeeded"
  BY <1>2, <1>4 DEF RowRenewed, RowMoved, RowCreated, RowPruned, OthersSame, Creates, Exists,
                    Active, Absent, Terminal, SameHistory, Status
<1>5. ASSUME NEW k \in Jobs, NEW to \in {"succeeded", "failed"},
             NEW f \in Jobs \cup {NoJob}, RowCommitted(k, to, f)
      PROVE  /\ commits'[j] <= 1
             /\ commits'[j] = 1 => job'[j].status \in {verdict'[j], "pruned"}
             /\ job'[j].status = "succeeded" => verdict'[j] = "succeeded"
  <2>1. f # k
    BY <1>5, ConstantsAssumption DEF RowCommitted, Creates
  <2>2. /\ job[k].status = "committing" /\ job'[k].status = to
        /\ commits' = [commits EXCEPT ![k] = @ + 1]
        /\ verdict' = [verdict EXCEPT ![k] = to]
    BY <1>5 DEF RowCommitted
  <2>3. /\ commits'[k] = commits[k] + 1 /\ verdict'[k] = to
        /\ \A x \in Jobs \ {k} : commits'[x] = commits[x] /\ verdict'[x] = verdict[x]
    BY <1>1, <2>2 DEF TypeOK
  <2>4. CASE j = k
    <3>1. commits[j] = 0
      BY <1>2, <2>2, <2>4 DEF Active
    <3> QED BY <2>2, <2>3, <2>4, <3>1
  <2>5. CASE j # k
    <3>1. \/ job'[j] = job[j]
          \/ job[j].status = "absent" /\ job'[j].status = "queued"
      BY <1>5, <2>1, <2>5, ConstantsAssumption DEF RowCommitted, Creates, OthersSame
    <3> QED BY <1>2, <2>3, <2>5, <3>1 DEF Absent
  <2> QED BY <2>4, <2>5
<1> QED BY <1>1, <1>3, <1>4, <1>5 DEF RowStep

LEMMA SerialKept ==
  ASSUME IInv, StepShape
  PROVE  SerialPerRuntime'
<1>1. TypeOK /\ TypeOK' /\ SeqBound /\ SerialPerRuntime /\ RowStep
  BY DEF IInv, TypeInv, StepShape
<1> SUFFICES ASSUME NEW j \in Jobs, NEW k \in Jobs, j # k, Exists(j)', Exists(k)',
                    RuntimeOf[j] = RuntimeOf[k]
             PROVE  /\ job'[j].seq # job'[k].seq
                    /\ job'[j].status \in Active /\ job'[k].seq < job'[j].seq
                         => job'[k].status \in Terminal
  BY DEF SerialPerRuntime
<1> DEFINE Goal == /\ job'[j].seq # job'[k].seq
                   /\ job'[j].status \in Active /\ job'[k].seq < job'[j].seq
                        => job'[k].status \in Terminal
<1>2. /\ counter \in Nat /\ job[j].seq \in Nat /\ job[k].seq \in Nat
      /\ Exists(j) => job[j].seq <= counter
      /\ Exists(k) => job[k].seq <= counter
      /\ Exists(j) /\ Exists(k) =>
           /\ job[j].seq # job[k].seq
           /\ job[j].status \in Active /\ job[k].seq < job[j].seq => job[k].status \in Terminal
           /\ job[k].status \in Active /\ job[j].seq < job[k].seq => job[j].status \in Terminal
  BY <1>1 DEF SeqBound, TypeOK, Row, SerialPerRuntime
<1>3. CASE RowsSame
  BY <1>2, <1>3 DEF RowsSame, Exists
<1>4. ASSUME NEW i \in Jobs, RowRenewed(i) PROVE Goal
  BY <1>2, <1>4 DEF RowRenewed, OthersSame, Exists, Active, Absent
<1>5. ASSUME NEW i \in Jobs, RowMoved(i) PROVE Goal
  <2>1. Exists(j) /\ Exists(k) /\ job'[j].seq = job[j].seq /\ job'[k].seq = job[k].seq
    BY <1>5 DEF RowMoved, OthersSame, Exists
  <2>2. CASE i # j /\ i # k
    BY <1>2, <1>5, <2>1, <2>2 DEF RowMoved, OthersSame
  <2>3. CASE i = j
    <3>1. job'[k] = job[k]
      BY <1>5, <2>3 DEF RowMoved, OthersSame
    <3>2. ASSUME job'[j].status \in Active, job[k].seq < job[j].seq
          PROVE  job[k].status \in Terminal
      BY <1>2, <1>5, <2>1, <2>3, <3>2 DEF RowMoved, NoPredecessor, Group
    <3> QED BY <1>2, <2>1, <3>1, <3>2
  <2>4. CASE i = k
    BY <1>2, <1>5, <2>1, <2>4 DEF RowMoved, OthersSame
  <2> QED BY <2>2, <2>3, <2>4
<1>6. ASSUME NEW i \in Jobs, RowCreated(i) PROVE Goal
  BY <1>2, <1>6 DEF RowCreated, Creates, OthersSame, Exists, Active, Absent
<1>7. ASSUME NEW i \in Jobs, RowPruned(i) PROVE Goal
  BY <1>2, <1>7 DEF RowPruned, OthersSame, Exists, Absent
<1>8. ASSUME NEW i \in Jobs, NEW to \in {"succeeded", "failed"},
             NEW f \in Jobs \cup {NoJob}, RowCommitted(i, to, f)
      PROVE  Goal
  <2>1. f # i /\ to \in Terminal /\ to \notin Active /\ Exists(i)
    BY <1>8, ConstantsAssumption DEF RowCommitted, Creates, Terminal, Active, Exists, Absent
  <2>2. \A x \in Jobs : x # f => job'[x].seq = job[x].seq
    BY <1>8 DEF RowCommitted, OthersSame
  <2>3. \A x \in Jobs : x # f /\ x # i => job'[x] = job[x]
    BY <1>8 DEF RowCommitted, OthersSame
  <2>4. f \in Jobs => ~Exists(f) /\ job'[f].status = "queued" /\ job'[f].seq = counter + 1
    BY <1>8, ConstantsAssumption DEF RowCommitted, Creates, Exists, Absent
  <2>5. job'[i].status = to
    BY <1>8 DEF RowCommitted
  <2>6. "queued" \notin Active
    BY DEF Active
  <2>7. \A x \in Jobs : x # f /\ Exists(x)' => Exists(x)
    BY <2>1, <2>3 DEF Exists
  <2> QED BY <1>2, <2>1, <2>2, <2>3, <2>4, <2>5, <2>6, <2>7
<1> QED BY <1>1, <1>3, <1>4, <1>5, <1>6, <1>7, <1>8 DEF RowStep

-----------------------------------------------------------------------------
(* Every action has that shape *)

\* Nothing but the run records and the locks changes.
LEMMA QuietShape ==
  ASSUME TypeOK, UNCHANGED <<rowVars, up, sessionVars, histVars>>,
         run' \in [Workers -> [Jobs -> RunState]],
         sessLock' \in Runs \cup {Turn, NoHolder},
         rtLock' \in [Runtimes -> Runs \cup {NoHolder}],
         RunStepOK
  PROVE  StepShape
<1>1. TypeOK'
  BY DEF TypeOK, rowVars, sessionVars, histVars
<1>2. RowStep
  BY DEF RowStep, RowsSame, SameHistory, rowVars, histVars
<1> QED BY <1>1, <1>2 DEF StepShape

LEMMA SetShape ==
  ASSUME TypeOK, NEW w \in Workers, NEW j \in Jobs, NEW r \in RunState, Set(w, j, r),
         Follows(w, j, r), run[w][j] # NoRun,
         UNCHANGED <<rowVars, up, lockVars, sessionVars, histVars>>
  PROVE  StepShape
<1>1. run' \in [Workers -> [Jobs -> RunState]] /\ RunStepOK
  BY SetFollows
<1>2. sessLock' \in Runs \cup {Turn, NoHolder} /\ rtLock' \in [Runtimes -> Runs \cup {NoHolder}]
  BY DEF TypeOK, lockVars
<1> QED BY <1>1, <1>2, QuietShape

LEMMA ReturnShape ==
  ASSUME TypeOK, NEW w \in Workers, NEW j \in Jobs, NEW error \in Reason,
         Return(w, j, error), run[w][j].exec # "none",
         UNCHANGED <<rowVars, up, sessionVars, histVars>>
  PROVE  StepShape
BY ReturnFollows, QuietShape

\* A transition, with or without a change of a run record.
LEMMA MoveShape ==
  ASSUME TypeOK, NEW j \in Jobs, NEW to \in Status, Transition(j, to),
         Exists(j), job[j].status \notin Terminal,
         to \notin Absent \cup {"succeeded"},
         to \in Active => job[j].status \in Active \/ NoPredecessor(j),
         run' \in [Workers -> [Jobs -> RunState]], RunStepOK,
         UNCHANGED <<counter, queueLate, up, lockVars, sessionVars, histVars>>
  PROVE  StepShape
<1>1. Moves(j, to) /\ leaseLate' \subseteq Jobs /\ scan' \in [Jobs -> Nat \cup {NoRev}]
  BY TransitionMoves
<1>2. TypeOK'
  BY <1>1 DEF TypeOK, Moves, lockVars, sessionVars, histVars
<1>3. RowMoved(j)
  BY <1>1 DEF RowMoved, Moves, OthersSame, SameHistory, histVars
<1> QED BY <1>2, <1>3 DEF StepShape, RowStep

LEMMA RunsSame ==
  ASSUME TypeOK, UNCHANGED run
  PROVE  run' \in [Workers -> [Jobs -> RunState]] /\ RunStepOK
BY DEF TypeOK, RunStepOK, RunKept

\* A status a worker's transition() may leave is retained and not final.
LEMMA LegalSource ==
  ASSUME NEW from, NEW to, Legal(from, to)
  PROVE  from \notin Absent \cup Terminal
BY DEF Legal, Absent, Terminal

LEMMA RequestShape ==
  ASSUME IInv, RequestStep
  PROVE  StepShape
<1>1. TypeOK /\ TypeInv
  BY DEF IInv, TypeInv
<1>2. CASE TurnBegin \/ TurnEnd
  <2>1. UNCHANGED <<rowVars, up, run, rtLock, sessionVars, histVars>>
        /\ sessLock' \in Runs \cup {Turn, NoHolder}
    BY <1>2 DEF TurnBegin, TurnEnd
  <2>2. rtLock' \in [Runtimes -> Runs \cup {NoHolder}]
    BY <1>1, <2>1 DEF TypeOK
  <2> QED BY <1>1, <2>1, <2>2, RunsSame, QuietShape
<1>3. ASSUME NEW j \in Jobs, TurnEnqueue(j) PROVE StepShape
  <2>1. NextSeq \in Nat
    BY <1>1, SequenceIsNew DEF TypeOK
  <2>2. /\ job' \in [Jobs -> Row] /\ (\A k \in Jobs \ {j} : job'[k] = job[k]) /\ Creates(j)
        /\ born' \in [Jobs -> Nat] /\ origin' \in [Jobs -> Nat]
    BY <1>1, <1>3, <2>1, CreateMoves DEF TurnEnqueue, CanCreate, TypeOK
  <2>3. TypeOK'
    BY <1>1, <1>3, <2>2 DEF TypeOK, TurnEnqueue, Creates, lockVars, sessionVars
  <2>4. RowCreated(j)
    BY <1>3, <2>2 DEF RowCreated, OthersSame, SameHistory, TurnEnqueue
  <2> QED BY <1>1, <1>3, <2>3, <2>4, RunsSame DEF StepShape, RowStep, TurnEnqueue
<1>4. ASSUME NEW j \in Jobs, Cancel(j) PROVE StepShape
  BY <1>1, <1>4, MoveShape, RunsSame
     DEF Cancel, Exists, Absent, Terminal, Status, Active
<1>5. ASSUME NEW j \in Jobs, NEW k \in Jobs, Retry(j, k) PROVE StepShape
  <2>1. origin[j] \in Nat
    BY <1>1 DEF TypeOK
  <2>2. /\ job' \in [Jobs -> Row] /\ (\A i \in Jobs \ {k} : job'[i] = job[i]) /\ Creates(k)
        /\ born' \in [Jobs -> Nat] /\ origin' \in [Jobs -> Nat]
    BY <1>1, <1>5, <2>1, CreateMoves DEF Retry, CanCreate, TypeOK
  <2>3. TypeOK'
    BY <1>1, <1>5, <2>2 DEF TypeOK, Retry, Creates, lockVars, sessionVars
  <2>4. RowCreated(k)
    BY <1>5, <2>2 DEF RowCreated, OthersSame, SameHistory, Retry
  <2> QED BY <1>1, <1>5, <2>3, <2>4, RunsSame DEF StepShape, RowStep, Retry
<1>6. CASE ChangeStatus \/ ChangeScope
  <2>1. TypeOK'
    <3>1. session \in [active : BOOLEAN, gen : Nat] /\ changes \in Nat
      BY <1>1 DEF TypeOK
    <3>2. ASSUME ChangeStatus PROVE session' \in [active : BOOLEAN, gen : Nat]
      <4>1. session' = [session EXCEPT !.active = ~session.active]
        BY <3>2 DEF ChangeStatus
      <4>2. (~session.active) \in BOOLEAN
        OBVIOUS
      <4> QED BY <3>1, <4>1, <4>2
    <3>3. ASSUME ChangeScope PROVE session' \in [active : BOOLEAN, gen : Nat]
      BY <3>1, <3>3 DEF ChangeScope
    <3>4. changes' \in Nat
      BY <1>6, <3>1 DEF ChangeStatus, ChangeScope
    <3>5. UNCHANGED <<rowVars, up, run, lockVars, histVars>>
      BY <1>6 DEF ChangeStatus, ChangeScope
    <3> QED BY <1>1, <1>6, <3>2, <3>3, <3>4, <3>5 DEF TypeOK, rowVars, lockVars, histVars
  <2>2. RowsSame /\ UNCHANGED run
    BY <1>6 DEF RowsSame, SameHistory, ChangeStatus, ChangeScope, rowVars, histVars
  <2> QED BY <1>1, <2>1, <2>2, RunsSame DEF StepShape, RowStep
<1> QED BY <1>2, <1>3, <1>4, <1>5, <1>6 DEF RequestStep

LEMMA TimeShape ==
  ASSUME IInv, TimeStep
  PROVE  StepShape
<1>1. TypeOK
  BY DEF IInv, TypeInv
<1>2. PICK j \in Jobs : QueueDeadlinePasses(j) \/ LeasePasses(j)
  BY DEF TimeStep
<1>3. TypeOK'
  BY <1>1, <1>2 DEF TypeOK, QueueDeadlinePasses, LeasePasses, lockVars, sessionVars, histVars
<1>4. RowsSame /\ UNCHANGED run
  BY <1>2 DEF RowsSame, SameHistory, QueueDeadlinePasses, LeasePasses, histVars
<1> QED BY <1>1, <1>3, <1>4, RunsSame DEF StepShape, RowStep

LEMMA ClaimShape ==
  ASSUME IInv, NEW w \in Workers, NEW j \in Jobs, Claim(w, j)
  PROVE  StepShape
<1>1. TypeOK /\ job[j] \in Row /\ run[w][j] = NoRun
  BY DEF IInv, TypeInv, TypeOK, Claim
<1>2. PICK now \in Clock : job' = [job EXCEPT ![j] = Claimed(job[j], w, now)]
  BY DEF Claim
<1>3. /\ Claimed(job[j], w, now) \in Row
      /\ Claimed(job[j], w, now).status = "claimed"
      /\ Claimed(job[j], w, now).seq = job[j].seq
      /\ Claimed(job[j], w, now).rev > job[j].rev
  <2>1. /\ NextRevision(job[j].rev, now) \in Nat /\ NextRevision(job[j].rev, now) > job[j].rev
        /\ job[j].attempt + 1 \in Nat
        /\ w \in Workers \cup {NoWorker}
        /\ "claimed" \in Status
    BY <1>1, RevisionGrows DEF Row, Status, Active
  <2> QED BY <1>1, <2>1 DEF Claimed, Row
<1>4. /\ job' \in [Jobs -> Row]
      /\ job'[j].status = "claimed" /\ job'[j].seq = job[j].seq /\ job'[j].rev > job[j].rev
      /\ OthersSame({j})
  BY <1>1, <1>2, <1>3 DEF OthersSame, TypeOK
<1>5. RowMoved(j)
  BY <1>4 DEF RowMoved, Claim, Exists, Absent, Terminal, SameHistory, histVars
<1>6. run' = [run EXCEPT ![w][j] = [NoRun EXCEPT !.main = "start"]]
  BY <1>1 DEF Claim
<1>7. /\ [NoRun EXCEPT !.main = "start"] \in RunState
      /\ Follows(w, j, [NoRun EXCEPT !.main = "start"])
  BY DEF NoRun, RunState, Reason, Follows
<1>8. run' \in [Workers -> [Jobs -> RunState]] /\ RunStepOK
  BY <1>1, <1>6, <1>7, SetFollows DEF Set, Claim
<1>9. TypeOK'
  BY <1>1, <1>4, <1>8 DEF TypeOK, Claim, lockVars, sessionVars, histVars
<1> QED BY <1>5, <1>8, <1>9 DEF StepShape, RowStep

LEMMA DrainShape ==
  ASSUME IInv, NEW w \in Workers, NEW j \in Jobs, DrainStep(w, j)
  PROVE  StepShape
<1>1. TypeOK
  BY DEF IInv, TypeInv
<1>2. CASE Claim(w, j)
  BY <1>2, ClaimShape
<1>3. CASE QueueTimeout(w, j)
  BY <1>1, <1>3, MoveShape, RunsSame DEF QueueTimeout, Exists, Absent, Terminal, Status, Active
<1>4. CASE RecoverScan(w, j)
  <2>1. TypeOK'
    BY <1>1, <1>4 DEF TypeOK, RecoverScan, Row, lockVars, sessionVars, histVars
  <2>2. RowsSame /\ UNCHANGED run
    BY <1>4 DEF RowsSame, SameHistory, RecoverScan, histVars
  <2> QED BY <1>1, <2>1, <2>2, RunsSame DEF StepShape, RowStep
<1>5. CASE Recover(w, j)
  BY <1>1, <1>5, MoveShape, RunsSame DEF Recover, Exists, Absent, Terminal, Status, Active
<1>6. CASE Prune(w, j)
  <2>1. [NoRow EXCEPT !.status = "pruned"] \in Row
    BY DEF NoRow, Row, Status, Absent
  <2>2. job' = [job EXCEPT ![j] = [NoRow EXCEPT !.status = "pruned"]]
    BY <1>6 DEF Prune
  <2>3. TypeOK'
    BY <1>1, <1>6, <2>1, <2>2 DEF TypeOK, Prune, lockVars, sessionVars, histVars
  <2>4. Keep > 0 => \E i \in Group(j) \ {j} : job[i].seq > job[j].seq
    <3> DEFINE later == {k \in Group(j) : job[k].status \in Terminal
                                          /\ job[k].seq > job[j].seq}
    <3>1. Cardinality(later) >= Keep
      BY <1>6 DEF Prune
    <3>2. Keep \in Nat
      BY ConstantsAssumption
    <3>3. later = {} => Keep = 0
      <4> HIDE DEF later
      <4> QED BY <3>1, <3>2, FS_EmptySet
    <3>4. job[j].seq \in Nat
      BY <1>1 DEF TypeOK, Row
    <3>5. \A k \in later : k # j
      BY <3>4
    <3> QED BY <3>2, <3>3, <3>5
  <2>5. RowPruned(j)
    BY <1>1, <1>6, <2>2, <2>4
       DEF RowPruned, Prune, OthersSame, SameHistory, TypeOK, NoRow, histVars
  <2> QED BY <1>1, <1>6, <2>3, <2>5, RunsSame DEF StepShape, RowStep, Prune
<1> QED BY <1>2, <1>3, <1>4, <1>5, <1>6 DEF DrainStep

LEMMA ProcessShape ==
  ASSUME IInv, NEW w \in Workers, ProcessStep(w)
  PROVE  StepShape
<1>1. TypeOK
  BY DEF IInv, TypeInv
<1>2. CASE Close(w)
  <2>1. ASSUME NEW j \in Jobs
        PROVE  /\ Stopped(run[w][j]) \in RunState
               /\ \/ Stopped(run[w][j]) = run[w][j]
                  \/ Follows(w, j, Stopped(run[w][j])) /\ run[w][j] # NoRun
    <3>1. run[w][j] \in RunState
      BY <1>1 DEF TypeOK
    <3>2. Aborted(run[w][j], "closed") \in RunState
      BY <3>1, RunTypes DEF Reason
    <3>3. Follows(w, j, Aborted(run[w][j], "closed"))
      BY <3>1 DEF Follows, Aborted, RunState
    <3> QED BY <3>1, <3>2, <3>3 DEF Stopped, NoRun
  <2>2. run' = [run EXCEPT ![w] = [j \in Jobs |-> Stopped(run[w][j])]]
    BY <1>2 DEF Close
  <2>3. run' \in [Workers -> [Jobs -> RunState]]
    BY <1>1, <2>1, <2>2 DEF TypeOK
  <2>4. RunStepOK
    BY <1>1, <2>1, <2>2 DEF RunStepOK, RunKept, TypeOK
  <2>5. TypeOK'
    BY <1>1, <1>2, <2>3 DEF TypeOK, Close, rowVars, lockVars, sessionVars, histVars
  <2>6. RowsSame
    BY <1>2 DEF RowsSame, SameHistory, Close, rowVars, histVars
  <2> QED BY <2>4, <2>5, <2>6 DEF StepShape, RowStep
<1>3. CASE Exit(w)
  <2>1. TypeOK'
    BY <1>1, <1>3 DEF TypeOK, Exit, rowVars, lockVars, sessionVars, histVars
  <2>2. RowsSame /\ UNCHANGED run
    BY <1>3 DEF RowsSame, SameHistory, Exit, rowVars, histVars
  <2> QED BY <1>1, <2>1, <2>2, RunsSame DEF StepShape, RowStep
<1>4. CASE Crash(w)
  <2>1. NoRun \in RunState
    BY DEF NoRun, RunState, Reason
  <2>2. run' = [run EXCEPT ![w] = [j \in Jobs |-> NoRun]]
    BY <1>4 DEF Crash
  <2>3. run' \in [Workers -> [Jobs -> RunState]] /\ RunStepOK
    BY <1>1, <2>1, <2>2 DEF TypeOK, RunStepOK, RunKept
  <2>4. TypeOK'
    BY <1>1, <1>4, <2>3 DEF TypeOK, Crash, rowVars, sessionVars, histVars
  <2>5. RowsSame
    BY <1>4 DEF RowsSame, SameHistory, Crash, rowVars, histVars
  <2> QED BY <2>3, <2>4, <2>5 DEF StepShape, RowStep
<1>5. ASSUME NEW j \in Jobs, LoseLocks(w, j) PROVE StepShape
  <2>1. /\ sessLock' \in Runs \cup {Turn, NoHolder}
        /\ rtLock' \in [Runtimes -> Runs \cup {NoHolder}]
    BY <1>1, <1>5 DEF TypeOK, LoseLocks
  <2> QED BY <1>1, <1>5, <2>1, RunsSame, QuietShape DEF LoseLocks
<1> QED BY <1>2, <1>3, <1>4, <1>5 DEF ProcessStep

\* A worker's transition together with the new state r of its run.
LEMMA HoldsShape ==
  ASSUME TypeOK, NEW w \in Workers, NEW j \in Jobs, NEW r \in RunState,
         NEW from \in SUBSET Status, NEW to \in Status,
         Holds(w, j, from, to), to \notin Absent \cup {"succeeded"}, from \subseteq Active,
         Transition(j, to), Set(w, j, r), Follows(w, j, r), run[w][j] # NoRun,
         UNCHANGED <<counter, queueLate, up, lockVars, sessionVars, histVars>>
  PROVE  StepShape
<1>1. job[j].status \in Active /\ job[j].status \notin Absent \cup Terminal
  BY LegalSource DEF Holds
<1>2. run' \in [Workers -> [Jobs -> RunState]] /\ RunStepOK
  BY SetFollows
<1> QED BY <1>1, <1>2, MoveShape DEF Exists

\* The steps of runOne that leave the row alone.
LEMMA RunOnlyShape ==
  ASSUME TypeOK, NEW w \in Workers, NEW j \in Jobs, NEW r \in RunState, Set(w, j, r),
         Follows(w, j, r), run[w][j] # NoRun,
         UNCHANGED <<job, leaseLate, scan>>,
         UNCHANGED <<counter, queueLate, up, lockVars, sessionVars, histVars>>
  PROVE  StepShape
BY SetShape DEF rowVars

LEMMA StartShape ==
  ASSUME IInv, NEW w \in Workers, NEW j \in Jobs, Start(w, j) \/ StartFails(w, j)
  PROVE  StepShape
<1> DEFINE r == run[w][j]
<1>1. TypeOK /\ r \in RunState /\ r # NoRun
  BY DEF IInv, TypeInv, TypeOK, Start, StartFails, NoRun
<1>2. UNCHANGED <<counter, queueLate, up, lockVars, sessionVars, histVars>>
  BY DEF Start, StartFails
<1>3. "running" \in Status \ (Absent \cup {"succeeded"}) /\ {"claimed"} \in SUBSET Status
      /\ {"claimed"} \subseteq Active
  BY DEF Status, Active, Absent
<1>4. CASE Start(w, j)
  <2>1. CASE r.abort # "none"
    <3>1. [r EXCEPT !.main = "catch", !.err = r.abort] \in RunState
      BY <1>1 DEF RunState
    <3>2. Follows(w, j, [r EXCEPT !.main = "catch", !.err = r.abort])
      BY <1>1 DEF Follows, RunState
    <3> QED BY <1>1, <1>2, <1>4, <2>1, <3>1, <3>2, RunOnlyShape DEF Start
  <2>2. CASE r.abort = "none" /\ Holds(w, j, {"claimed"}, "running")
    <3> DEFINE n == [r EXCEPT !.main = "race", !.exec = "admit", !.cur = "running",
                              !.renew = "timer",
                              !.dl = IF j \in ExecTimed THEN "timer" ELSE "off"]
    <3>1. n \in RunState /\ n.exec = "admit" /\ n.renew = "timer"
      BY <1>1 DEF RunState
    <3>2. Follows(w, j, n)
      BY <3>1 DEF Follows
    <3>3. Set(w, j, n) /\ Transition(j, "running")
      BY <1>4, <2>2 DEF Start
    <3> HIDE DEF n
    <3> QED BY <1>1, <1>2, <1>3, <2>2, <3>1, <3>2, <3>3, HoldsShape
  <2>3. CASE r.abort = "none" /\ ~Holds(w, j, {"claimed"}, "running")
    <3>1. Left(r) \in RunState
      BY <1>1, RunTypes DEF Reason
    <3>2. Follows(w, j, Left(r))
      BY <1>1 DEF Follows, Left, RunState, NoRun
    <3> QED BY <1>1, <1>2, <1>4, <2>3, <3>1, <3>2, RunOnlyShape DEF Start
  <2> QED BY <2>1, <2>2, <2>3
<1>5. CASE StartFails(w, j)
  <2> DEFINE n == [r EXCEPT !.main = "catch", !.err = "error"]
  <2>1. n \in RunState
    <3>1. "error" \in Reason
      BY DEF Reason
    <3> QED BY <1>1, <3>1 DEF RunState
  <2>2. Follows(w, j, n)
    BY <1>1 DEF Follows, RunState
  <2>3. Set(w, j, n)
    BY <1>5 DEF StartFails
  <2> HIDE DEF n
  <2>4. CASE UNCHANGED <<job, leaseLate, scan>>
    BY <1>1, <1>2, <2>1, <2>2, <2>3, <2>4, RunOnlyShape
  <2>5. CASE Holds(w, j, {"claimed"}, "running") /\ Transition(j, "running")
    BY <1>1, <1>2, <1>3, <2>1, <2>2, <2>3, <2>5, HoldsShape
  <2> QED BY <1>5, <2>4, <2>5 DEF StartFails
<1> QED BY <1>4, <1>5

LEMMA RenewShape ==
  ASSUME IInv, NEW w \in Workers, NEW j \in Jobs,
         RenewRead(w, j) \/ RenewCas(w, j) \/ RenewError(w, j)
  PROVE  StepShape
<1> DEFINE r == run[w][j]
<1>1. TypeOK /\ r \in RunState /\ r # NoRun /\ job[j] \in Row
  BY DEF IInv, TypeInv, TypeOK, RenewRead, RenewCas, RenewError, NoRun
<1>2. /\ Aborted(r, "stale") \in RunState /\ Aborted(r, "lapsed") \in RunState
      /\ Aborted(r, "stale").exec = r.exec /\ Aborted(r, "stale").casRev = r.casRev
      /\ Aborted(r, "lapsed").exec = r.exec /\ Aborted(r, "lapsed").casRev = r.casRev
  <2>1. Aborted(r, "stale") \in RunState /\ Aborted(r, "lapsed") \in RunState
    BY <1>1, RunTypes DEF Reason
  <2> QED BY <1>1, <2>1 DEF Aborted, RunState
<1>3. ASSUME NEW q \in RunState, q.exec = r.exec, q.casRev = r.casRev
      PROVE  /\ [q EXCEPT !.renew = "off", !.stopRenewing = TRUE] \in RunState
             /\ [q EXCEPT !.readRev = 0, !.renew = "off", !.stopRenewing = TRUE] \in RunState
             /\ [q EXCEPT !.readRev = 0, !.renew = "off"] \in RunState
             /\ [q EXCEPT !.readRev = 0, !.renew = "timer"] \in RunState
             /\ Follows(w, j, [q EXCEPT !.renew = "off", !.stopRenewing = TRUE])
             /\ Follows(w, j, [q EXCEPT !.readRev = 0, !.renew = "off", !.stopRenewing = TRUE])
             /\ Follows(w, j, [q EXCEPT !.readRev = 0, !.renew = "off"])
             /\ Follows(w, j, [q EXCEPT !.readRev = 0, !.renew = "timer"])
  <2>1. /\ [q EXCEPT !.renew = "off", !.stopRenewing = TRUE] \in RunState
        /\ [q EXCEPT !.readRev = 0, !.renew = "off", !.stopRenewing = TRUE] \in RunState
        /\ [q EXCEPT !.readRev = 0, !.renew = "off"] \in RunState
        /\ [q EXCEPT !.readRev = 0, !.renew = "timer"] \in RunState
    BY DEF RunState
  <2> QED BY <1>3, <2>1 DEF Follows, RunState
<1>4. CASE RenewRead(w, j)
  <2>1. UNCHANGED <<rowVars, up, lockVars, sessionVars, histVars>>
    BY <1>4 DEF RenewRead
  <2>2. CASE job[j].status \in Active /\ job[j].owner = w
    <3> DEFINE n == [r EXCEPT !.renew = "read", !.readRev = job[j].rev]
    <3>1. /\ n \in RunState /\ n.exec = r.exec /\ n.casRev = r.casRev
          /\ n.readRev = job[j].rev
      BY <1>1 DEF RunState, Row
    <3>2. Set(w, j, n) /\ job'[j] = job[j]
      BY <1>4, <2>1, <2>2 DEF RenewRead, rowVars
    <3> HIDE DEF n
    <3>3. Follows(w, j, n)
      BY <2>2, <3>1, <3>2 DEF Follows
    <3> QED BY <1>1, <2>1, <3>1, <3>2, <3>3, SetShape
  <2>3. CASE ~(job[j].status \in Active /\ job[j].owner = w)
    BY <1>1, <1>2, <1>3, <1>4, <2>1, <2>3, SetShape DEF RenewRead
  <2> QED BY <2>2, <2>3
<1>5. CASE RenewCas(w, j)
  <2>1. CASE Exists(j) /\ job[j].rev = r.readRev
    <3>1. PICK now \in Clock : job' = [job EXCEPT ![j].rev = NextRevision(@, now)]
      BY <1>5, <2>1 DEF RenewCas
    <3>2. NextRevision(job[j].rev, now) \in Nat /\ NextRevision(job[j].rev, now) > job[j].rev
      BY <1>1, RevisionGrows DEF Row
    <3>3. job[j].status \in Active
      BY <1>1, <1>5, <2>1 DEF RenewCas, IInv, RenewalReadIsCurrent
    <3>4. /\ job' \in [Jobs -> Row]
          /\ job'[j].status = job[j].status /\ job'[j].owner = job[j].owner
          /\ job'[j].seq = job[j].seq /\ job'[j].rev = NextRevision(job[j].rev, now)
          /\ OthersSame({j})
      BY <1>1, <3>1, <3>2 DEF TypeOK, Row, OthersSame
    <3>5. UNCHANGED <<counter, queueLate, scan, up, lockVars, sessionVars, histVars>>
          /\ leaseLate' = leaseLate \ {j}
      BY <1>5, <2>1 DEF RenewCas
    <3>6. RowRenewed(j)
      BY <3>2, <3>3, <3>4, <3>5 DEF RowRenewed, SameHistory, histVars
    <3>7. PICK q \in RunState : Set(w, j, q) /\ Follows(w, j, q)
      BY <1>1, <1>3, <1>5, <2>1 DEF RenewCas
    <3>8. run' \in [Workers -> [Jobs -> RunState]] /\ RunStepOK
      BY <1>1, <3>7, SetFollows
    <3>9. TypeOK'
      BY <1>1, <3>4, <3>5, <3>8 DEF TypeOK, lockVars, sessionVars, histVars
    <3> QED BY <3>6, <3>8, <3>9 DEF StepShape, RowStep
  <2>2. CASE ~(Exists(j) /\ job[j].rev = r.readRev)
    <3>1. PICK q \in RunState : Set(w, j, q) /\ Follows(w, j, q)
      BY <1>1, <1>2, <1>3, <1>5, <2>2 DEF RenewCas
    <3> QED BY <1>1, <1>5, <2>2, <3>1, RunOnlyShape DEF RenewCas
  <2> QED BY <2>1, <2>2
<1>6. CASE RenewError(w, j)
  <2>1. PICK q \in RunState : Set(w, j, q) /\ Follows(w, j, q)
    BY <1>1, <1>2, <1>3, <1>6 DEF RenewError
  <2> QED BY <1>1, <1>6, <2>1, SetShape DEF RenewError
<1> QED BY <1>4, <1>5, <1>6

LEMMA DeadlineShape ==
  ASSUME IInv, NEW w \in Workers, NEW j \in Jobs,
         DeadlineFires(w, j) \/ \E reported \in BOOLEAN : DeadlineSettles(w, j, reported)
  PROVE  StepShape
<1> DEFINE r == run[w][j]
<1>1. TypeOK /\ r \in RunState /\ r # NoRun
  <2>1. r.dl # "off"
    BY DEF DeadlineFires, DeadlineSettles
  <2> QED BY <2>1 DEF IInv, TypeInv, TypeOK, NoRun
<1>2. ASSUME NEW q \in RunState, NEW d \in {"off", "fired"},
             q.exec = r.exec, q.casRev = r.casRev, q.readRev = r.readRev,
             q.renew = "read" => r.renew = "read"
      PROVE  [q EXCEPT !.dl = d] \in RunState /\ Follows(w, j, [q EXCEPT !.dl = d])
  <2>1. [q EXCEPT !.dl = d] \in RunState
    BY DEF RunState
  <2> QED BY <1>2, <2>1 DEF Follows, RunState
<1>3. CASE DeadlineFires(w, j)
  <2>1. /\ RenewalStopped(r) \in RunState
        /\ RenewalStopped(r).exec = r.exec /\ RenewalStopped(r).casRev = r.casRev
        /\ RenewalStopped(r).readRev = r.readRev
        /\ RenewalStopped(r).renew = "read" => r.renew = "read"
    <3>1. RenewalStopped(r) \in RunState
      BY <1>1, RunTypes DEF Reason
    <3> QED BY <1>1, <3>1 DEF RenewalStopped, RunState
  <2>2. Set(w, j, [RenewalStopped(r) EXCEPT !.dl = "fired"])
    BY <1>3 DEF DeadlineFires
  <2> QED BY <1>1, <1>2, <1>3, <2>1, <2>2, SetShape DEF DeadlineFires
<1>4. ASSUME NEW reported \in BOOLEAN, DeadlineSettles(w, j, reported) PROVE StepShape
  <2>1. UNCHANGED <<counter, queueLate, up, lockVars, sessionVars, histVars>>
    BY <1>4 DEF DeadlineSettles
  <2>2. /\ Aborted(r, "timeout") \in RunState
        /\ Aborted(r, "timeout").exec = r.exec /\ Aborted(r, "timeout").casRev = r.casRev
        /\ Aborted(r, "timeout").readRev = r.readRev /\ Aborted(r, "timeout").renew = r.renew
    <3>1. Aborted(r, "timeout") \in RunState
      BY <1>1, RunTypes DEF Reason
    <3> QED BY <1>1, <3>1 DEF Aborted, RunState
  <2>3. CASE Holds(w, j, {"running"}, "timed_out")
    <3>1. PICK q \in {r, Aborted(r, "timeout")} :
            Transition(j, "timed_out") /\ Set(w, j, [q EXCEPT !.dl = "off"])
      BY <1>4, <2>3 DEF DeadlineSettles
    <3>2. [q EXCEPT !.dl = "off"] \in RunState /\ Follows(w, j, [q EXCEPT !.dl = "off"])
      BY <1>1, <1>2, <2>2, <3>1
    <3>3. /\ "timed_out" \in Status \ (Absent \cup {"succeeded"})
          /\ {"running"} \in SUBSET Status /\ {"running"} \subseteq Active
      BY DEF Status, Active, Absent, Terminal
    <3> QED BY <1>1, <2>1, <2>3, <3>1, <3>2, <3>3, HoldsShape
  <2>4. CASE ~Holds(w, j, {"running"}, "timed_out")
    <3>1. [r EXCEPT !.dl = "off"] \in RunState /\ Follows(w, j, [r EXCEPT !.dl = "off"])
      BY <1>1, <1>2
    <3> QED BY <1>1, <1>4, <2>1, <2>4, <3>1, RunOnlyShape DEF DeadlineSettles
  <2> QED BY <2>3, <2>4
<1> QED BY <1>3, <1>4

LEMMA SettleShape ==
  ASSUME IInv, NEW w \in Workers, NEW j \in Jobs,
         Check(w, j) \/ Catch(w, j) \/ Settle(w, j) \/ Requeue(w, j) \/ SettleFails(w, j)
  PROVE  StepShape
<1> DEFINE r == run[w][j]
<1>1. TypeOK /\ r \in RunState /\ r # NoRun
  <2>1. r.main # "idle"
    BY DEF Check, Catch, Settle, Requeue, SettleFails
  <2> QED BY <2>1 DEF IInv, TypeInv, TypeOK, NoRun
<1>2. Left(r) \in RunState /\ Follows(w, j, Left(r))
  <2>1. Left(r) \in RunState
    BY <1>1, RunTypes DEF Reason
  <2> QED BY <1>1, <2>1 DEF Follows, Left, RunState, NoRun
<1>3. CASE Check(w, j)
  <2>1. [r EXCEPT !.main = "catch", !.err = "error"] \in RunState
    <3>1. "error" \in Reason
      BY DEF Reason
    <3> QED BY <1>1, <3>1 DEF RunState
  <2>2. Follows(w, j, [r EXCEPT !.main = "catch", !.err = "error"])
    BY <1>1 DEF Follows, RunState
  <2> QED BY <1>1, <1>2, <1>3, <2>1, <2>2, SetShape DEF Check
<1>4. CASE Catch(w, j)
  <2>1. /\ RenewalStopped(r) \in RunState
        /\ RenewalStopped(r).exec = r.exec /\ RenewalStopped(r).casRev = r.casRev
        /\ RenewalStopped(r).readRev = r.readRev
        /\ RenewalStopped(r).renew = "read" => r.renew = "read"
    <3>1. RenewalStopped(r) \in RunState
      BY <1>1, RunTypes DEF Reason
    <3> QED BY <1>1, <3>1 DEF RenewalStopped, RunState
  <2>2. ASSUME NEW m \in {"settle", "requeue"}
        PROVE  /\ [RenewalStopped(r) EXCEPT !.dl = "off", !.main = m] \in RunState
               /\ Follows(w, j, [RenewalStopped(r) EXCEPT !.dl = "off", !.main = m])
    <3>1. [RenewalStopped(r) EXCEPT !.dl = "off", !.main = m] \in RunState
      BY <2>1 DEF RunState
    <3> QED BY <2>1, <3>1 DEF Follows, RunState
  <2>3. \/ Set(w, j, Left(r))
        \/ \E m \in {"settle", "requeue"} :
             Set(w, j, [RenewalStopped(r) EXCEPT !.dl = "off", !.main = m])
    BY <1>4 DEF Catch
  <2> QED BY <1>1, <1>2, <1>4, <2>2, <2>3, SetShape DEF Catch
<1>5. Active \in SUBSET Status /\ Active \subseteq Active
  BY DEF Status
<1>6. CASE Settle(w, j)
  <2>1. Outcome(r.err) \in Status \ (Absent \cup {"succeeded"})
    BY DEF Outcome, Status, Absent, Terminal
  <2>2. CASE Holds(w, j, Active, Outcome(r.err))
    BY <1>1, <1>2, <1>5, <1>6, <2>1, <2>2, HoldsShape DEF Settle
  <2>3. CASE ~Holds(w, j, Active, Outcome(r.err))
    BY <1>1, <1>2, <1>6, <2>3, RunOnlyShape DEF Settle
  <2> QED BY <2>2, <2>3
<1>7. CASE Requeue(w, j)
  <2>1. "queued" \in Status \ (Absent \cup {"succeeded"})
    BY DEF Status, Absent
  <2>2. CASE Holds(w, j, Active, "queued")
    BY <1>1, <1>2, <1>5, <1>7, <2>1, <2>2, HoldsShape DEF Requeue
  <2>3. CASE ~Holds(w, j, Active, "queued")
    BY <1>1, <1>2, <1>7, <2>3, RunOnlyShape DEF Requeue
  <2> QED BY <2>2, <2>3
<1>8. CASE SettleFails(w, j)
  BY <1>1, <1>2, <1>8, SetShape DEF SettleFails
<1> QED BY <1>3, <1>4, <1>6, <1>7, <1>8

\* The execution's steps before the commit barrier, and those that end it: the
\* row is left alone.
LEMMA ExecQuietShape ==
  ASSUME IInv, NEW w \in Workers, NEW j \in Jobs,
         \/ ExecAdmit(w, j) \/ ExecLock(w, j) \/ ExecLockTimeout(w, j)
         \/ ExecAuthorize(w, j) \/ ExecFinish(w, j) \/ ExecFail(w, j)
         \/ ExecGiveUp(w, j) \/ ExecConnectionGone(w, j) \/ ExecCommitLock(w, j)
         \/ ExecBarrierRead(w, j) \/ ExecMark(w, j) \/ ExecMarkFails(w, j)
         \/ ExecRollback(w, j)
  PROVE  StepShape
<1> DEFINE r == run[w][j]
<1>1. TypeOK /\ r \in RunState /\ r.exec # "none" /\ r # NoRun /\ job[j] \in Row
  <2>1. r.exec # "none"
    BY DEF ExecAdmit, ExecLock, ExecLockTimeout, ExecAuthorize, ExecFinish, ExecFail,
           ExecGiveUp, ExecConnectionGone, ExecCommitLock, ExecBarrierRead, ExecMark,
           ExecMarkFails, ExecRollback
  <2> QED BY <2>1 DEF IInv, TypeInv, TypeOK, NoRun
<1>2. r.abort \in Reason /\ "stale" \in Reason /\ "error" \in Reason
  BY <1>1 DEF RunState, Reason
<1>3. UNCHANGED <<rowVars, up, sessionVars, histVars>>
  BY DEF ExecAdmit, ExecLock, ExecLockTimeout, ExecAuthorize, ExecFinish, ExecFail,
         ExecGiveUp, ExecConnectionGone, ExecCommitLock, ExecBarrierRead, ExecMark,
         ExecMarkFails, ExecRollback
<1>4. ASSUME NEW e \in Reason, Return(w, j, e) PROVE StepShape
  BY <1>1, <1>3, <1>4, ReturnShape
<1>5. ASSUME NEW q \in RunState, Set(w, j, q), Follows(w, j, q), UNCHANGED lockVars
      PROVE  StepShape
  BY <1>1, <1>3, <1>5, SetShape
<1>6. ASSUME NEW x \in {"lock", "pre", "call", "fin", "barrier", "mark", "tx"}
      PROVE  [r EXCEPT !.exec = x] \in RunState /\ Follows(w, j, [r EXCEPT !.exec = x])
  <2>1. [r EXCEPT !.exec = x] \in RunState
    BY <1>1 DEF RunState
  <2> QED BY <1>1, <2>1 DEF Follows, RunState
<1>7. CASE ExecAdmit(w, j)
  BY <1>2, <1>4, <1>5, <1>6, <1>7 DEF ExecAdmit
<1>8. CASE ExecLock(w, j)
  <2>1. CASE r.abort # "none"
    BY <1>2, <1>4, <1>8, <2>1 DEF ExecLock
  <2>2. CASE r.abort = "none"
    <3>1. /\ Set(w, j, [r EXCEPT !.exec = "pre"])
          /\ rtLock' = [rtLock EXCEPT ![RuntimeOf[j]] = <<w, j>>]
          /\ UNCHANGED sessLock
      BY <1>8, <2>2 DEF ExecLock
    <3>2. run' \in [Workers -> [Jobs -> RunState]] /\ RunStepOK
      BY <1>1, <1>6, <3>1, SetFollows
    <3>3. /\ rtLock' \in [Runtimes -> Runs \cup {NoHolder}]
          /\ sessLock' \in Runs \cup {Turn, NoHolder}
      BY <1>1, <3>1 DEF TypeOK, Runs
    <3> QED BY <1>1, <1>3, <3>2, <3>3, QuietShape
  <2> QED BY <2>1, <2>2
<1>9. CASE ExecLockTimeout(w, j) \/ ExecFail(w, j) \/ ExecConnectionGone(w, j)
             \/ ExecMarkFails(w, j) \/ ExecRollback(w, j)
  BY <1>2, <1>4, <1>9
     DEF ExecLockTimeout, ExecFail, ExecConnectionGone, ExecMarkFails, ExecRollback
<1>10. CASE ExecGiveUp(w, j)
  BY <1>2, <1>4, <1>10 DEF ExecGiveUp
<1>11. CASE ExecAuthorize(w, j)
  BY <1>2, <1>4, <1>5, <1>6, <1>11 DEF ExecAuthorize
<1>12. CASE ExecFinish(w, j)
  <2> DEFINE n(d) == [r EXCEPT !.exec = "fin", !.dl = d]
  <2>1. ASSUME NEW d \in {"off", "timer", "fired"}
        PROVE  n(d) \in RunState /\ Follows(w, j, n(d))
    <3>1. n(d) \in RunState
      BY <1>1 DEF RunState
    <3> QED BY <1>1, <3>1 DEF Follows, RunState
  <2>2. r.dl \in {"off", "timer", "fired"}
    BY <1>1 DEF RunState
  <2>3. Set(w, j, n(IF r.dl = "timer" THEN "off" ELSE r.dl)) /\ UNCHANGED lockVars
    BY <1>12 DEF ExecFinish
  <2> HIDE DEF n
  <2> QED BY <1>5, <2>1, <2>2, <2>3
<1>13. CASE ExecCommitLock(w, j)
  <2>1. CASE r.abort # "none" \/ ~StillAdmitted(j)
    BY <1>2, <1>4, <1>13, <2>1 DEF ExecCommitLock
  <2>2. CASE r.abort = "none" /\ StillAdmitted(j)
    <3>1. /\ Set(w, j, [RenewalStopped(r) EXCEPT !.exec = "barrier"])
          /\ sessLock' = <<w, j>>
          /\ UNCHANGED rtLock
      BY <1>13, <2>2 DEF ExecCommitLock
    <3>2. RenewalStopped(r) \in RunState
      BY <1>1, <1>2, RunTypes
    <3>3. /\ RenewalStopped(r).readRev = r.readRev
          /\ RenewalStopped(r).renew = "read" => r.renew = "read"
      BY <1>1 DEF RenewalStopped, RunState
    <3>4. [RenewalStopped(r) EXCEPT !.exec = "barrier"] \in RunState
      BY <3>2 DEF RunState
    <3>5. Follows(w, j, [RenewalStopped(r) EXCEPT !.exec = "barrier"])
      BY <3>2, <3>3 DEF Follows, RunState
    <3>6. run' \in [Workers -> [Jobs -> RunState]] /\ RunStepOK
      BY <1>1, <3>1, <3>4, <3>5, SetFollows
    <3>7. /\ rtLock' \in [Runtimes -> Runs \cup {NoHolder}]
          /\ sessLock' \in Runs \cup {Turn, NoHolder}
      BY <1>1, <3>1 DEF TypeOK, Runs
    <3> QED BY <1>1, <1>3, <3>6, <3>7, QuietShape
  <2> QED BY <2>1, <2>2
<1>14. CASE ExecBarrierRead(w, j)
  <2>1. CASE r.abort # "none" \/ ~Holds(w, j, {"running"}, "committing")
    BY <1>2, <1>4, <1>14, <2>1 DEF ExecBarrierRead
  <2>2. CASE r.abort = "none" /\ Holds(w, j, {"running"}, "committing")
    <3> DEFINE n == [r EXCEPT !.exec = "cas", !.casRev = job[j].rev]
    <3>1. Set(w, j, n) /\ UNCHANGED lockVars
      BY <1>14, <2>2 DEF ExecBarrierRead
    <3>2. n \in RunState /\ n.casRev = job[j].rev /\ n.renew = r.renew /\ n.readRev = r.readRev
      BY <1>1 DEF RunState, Row
    <3>3. job'[j] = job[j] /\ job[j].status = "running" /\ job[j].owner = w
      BY <1>3, <2>2 DEF rowVars, Holds
    <3> HIDE DEF n
    <3>4. Follows(w, j, n)
      BY <3>2, <3>3 DEF Follows
    <3> QED BY <1>5, <3>1, <3>2, <3>4
  <2> QED BY <2>1, <2>2
<1>15. CASE ExecMark(w, j)
  <2>1. CASE r.abort # "none"
    BY <1>2, <1>4, <1>15, <2>1 DEF ExecMark
  <2>2. CASE r.abort = "none"
    <3> DEFINE n == [r EXCEPT !.exec = "tx", !.cur = "committing"]
    <3>1. Set(w, j, n) /\ UNCHANGED lockVars
      BY <1>15, <2>2 DEF ExecMark
    <3>2. n \in RunState
      BY <1>1 DEF RunState
    <3>3. Follows(w, j, n)
      BY <1>1 DEF Follows, RunState
    <3> HIDE DEF n
    <3> QED BY <1>5, <3>1, <3>2, <3>3
  <2> QED BY <2>1, <2>2
<1> QED BY <1>7, <1>8, <1>9, <1>10, <1>11, <1>12, <1>13, <1>14, <1>15

\* The swap at the commit barrier acts only on the row that was read.
LEMMA BarrierCasShape ==
  ASSUME IInv, NEW w \in Workers, NEW j \in Jobs, ExecBarrierCas(w, j)
  PROVE  StepShape
<1> DEFINE r == run[w][j]
<1>1. TypeOK /\ r \in RunState /\ r.exec = "cas" /\ r # NoRun
  BY DEF IInv, TypeInv, TypeOK, ExecBarrierCas, NoRun
<1>2. UNCHANGED <<counter, queueLate, up, sessionVars, histVars>>
  BY DEF ExecBarrierCas
<1>3. CASE Exists(j) /\ job[j].rev = r.casRev
  <2> DEFINE n == [r EXCEPT !.exec = "mark", !.casRev = 0]
  <2>1. Transition(j, "committing") /\ Set(w, j, n) /\ UNCHANGED lockVars
    BY <1>3 DEF ExecBarrierCas
  <2>2. job[j].status = "running"
    BY <1>1, <1>3 DEF IInv, BarrierReadIsCurrent
  <2>3. n \in RunState /\ n.exec = "mark" /\ n.renew = r.renew /\ n.readRev = r.readRev
    BY <1>1 DEF RunState
  <2> HIDE DEF n
  <2>4. Follows(w, j, n)
    BY <2>3 DEF Follows
  <2>5. run' \in [Workers -> [Jobs -> RunState]] /\ RunStepOK
    BY <1>1, <2>1, <2>3, <2>4, SetFollows
  <2>6. /\ "committing" \in Status \ (Absent \cup {"succeeded"})
        /\ "running" \in Active \ Terminal
    BY DEF Status, Active, Absent, Terminal
  <2> QED BY <1>1, <1>2, <1>3, <2>1, <2>2, <2>5, <2>6, MoveShape
<1>4. CASE ~(Exists(j) /\ job[j].rev = r.casRev)
  <2>1. Return(w, j, "stale") /\ UNCHANGED <<job, leaseLate, scan>>
    BY <1>4 DEF ExecBarrierCas
  <2>2. "stale" \in Reason
    BY DEF Reason
  <2> QED BY <1>1, <1>2, <2>1, <2>2, ReturnShape DEF rowVars
<1> QED BY <1>3, <1>4

\* The commit transaction settles its own committing row and may create a
\* follower, which is another job.
LEMMA CommitShape ==
  ASSUME IInv, NEW w \in Workers, NEW j \in Jobs, NEW to \in {"succeeded", "failed"},
         NEW f \in Jobs \cup {NoJob}, NEW e \in {"none", "error"},
         ExecCommit(w, j, to, f, e)
  PROVE  StepShape
<1>1. TypeOK /\ TypeInv /\ run[w][j].exec # "none"
  BY DEF IInv, TypeInv, ExecCommit
<1>2. job[j].status = "committing" /\ e \in Reason /\ to \in Status
  BY DEF ExecCommit, Holds, Reason, Status, Terminal
<1>3. /\ Return(w, j, e) /\ Rest(j, to)
      /\ commits' = [commits EXCEPT ![j] = @ + 1]
      /\ verdict' = [verdict EXCEPT ![j] = to]
      /\ UNCHANGED <<queueLate, up, sessionVars>>
  BY DEF ExecCommit
<1>4. /\ run' \in [Workers -> [Jobs -> RunState]]
      /\ sessLock' \in Runs \cup {Turn, NoHolder}
      /\ rtLock' \in [Runtimes -> Runs \cup {NoHolder}]
      /\ RunStepOK
  BY <1>1, <1>2, <1>3, ReturnFollows
<1>5. PICK now \in Clock :
        IF f = NoJob
        THEN job' = [job EXCEPT ![j] = Moved(@, to, now)] /\ UNCHANGED <<counter, born, origin>>
        ELSE CanCreate(f) /\ Create([job EXCEPT ![j] = Moved(@, to, now)], f, NextSeq)
  BY DEF ExecCommit
<1> DEFINE rows == [job EXCEPT ![j] = Moved(job[j], to, now)]
<1>6. /\ rows \in [Jobs -> Row]
      /\ \A k \in Jobs \ {j} : rows[k] = job[k]
      /\ rows[j].status = to /\ rows[j].rev > job[j].rev /\ rows[j].seq = job[j].seq
  <2>1. job[j] \in Row
    BY <1>1 DEF TypeOK
  <2>2. NextRevision(job[j].rev, now) \in Nat /\ NextRevision(job[j].rev, now) > job[j].rev
    BY <2>1, RevisionGrows DEF Row
  <2>3. /\ Moved(job[j], to, now) \in Row
        /\ Moved(job[j], to, now).status = to
        /\ Moved(job[j], to, now).rev = NextRevision(job[j].rev, now)
        /\ Moved(job[j], to, now).seq = job[j].seq
    BY <1>2, <2>1, <2>2 DEF Moved, Row
  <2> QED BY <1>1, <2>2, <2>3 DEF TypeOK
<1>7. /\ job' \in [Jobs -> Row] /\ counter' \in Nat
      /\ born' \in [Jobs -> Nat] /\ origin' \in [Jobs -> Nat]
      /\ \A k \in Jobs \ {j, f} : job'[k] = job[k]
      /\ job'[j] = rows[j]
      /\ IF f = NoJob THEN counter' = counter ELSE f \in Jobs /\ Creates(f)
  <2>1. CASE f = NoJob
    <3>1. job' = rows /\ UNCHANGED <<counter, born, origin>>
      BY <1>5, <2>1
    <3> HIDE DEF rows
    <3> QED BY <1>1, <1>6, <2>1, <3>1 DEF TypeOK
  <2>2. CASE f # NoJob
    <3>1. CanCreate(f) /\ Create(rows, f, NextSeq) /\ f \in Jobs
      BY <1>5, <2>2
    <3>2. job[f].status = "absent" /\ f # j
      BY <1>2, <3>1 DEF CanCreate
    <3>3. NextSeq \in Nat
      BY <1>1, SequenceIsNew DEF TypeOK
    <3> HIDE DEF rows
    <3>4. /\ job' \in [Jobs -> Row] /\ (\A k \in Jobs \ {f} : job'[k] = rows[k]) /\ Creates(f)
          /\ born' \in [Jobs -> Nat] /\ origin' \in [Jobs -> Nat]
      BY <1>1, <1>6, <3>1, <3>2, <3>3, CreateMoves
    <3>5. counter' \in Nat
      BY <1>1, <3>4 DEF Creates, TypeOK
    <3> QED BY <1>6, <2>2, <3>1, <3>2, <3>4, <3>5
  <2> QED BY <2>1, <2>2
<1> HIDE DEF rows
<1>8. RowCommitted(j, to, f)
  BY <1>2, <1>3, <1>6, <1>7 DEF RowCommitted, OthersSame
<1>9. TypeOK'
  <2>1. leaseLate' \subseteq Jobs /\ scan' \in [Jobs -> Nat \cup {NoRev}]
    BY <1>1, <1>3 DEF Rest, TypeOK
  <2>2. commits' \in [Jobs -> Nat] /\ verdict' \in [Jobs -> {"none", "succeeded", "failed"}]
    BY <1>1, <1>3 DEF TypeOK
  <2> QED BY <1>1, <1>3, <1>4, <1>7, <2>1, <2>2 DEF TypeOK, sessionVars
<1> QED BY <1>4, <1>8, <1>9 DEF StepShape, RowStep

-----------------------------------------------------------------------------
(* The theorems *)

LEMMA InitInvariant == Init => IInv
<1> SUFFICES ASSUME Init PROVE IInv
  OBVIOUS
<1>1. NoRow \in Row /\ NoRun \in RunState /\ NoRow.status = "absent"
  BY DEF NoRow, Row, Status, Absent, NoRun, RunState, Reason
<1>2. TypeOK
  BY <1>1 DEF Init, TypeOK
<1>3. \A j \in Jobs : ~Exists(j) /\ job[j].status = "absent"
  BY <1>1 DEF Init, Exists, Absent
<1>4. SeqBound /\ AbsentIsIdle /\ BarrierReadIsCurrent /\ RenewalReadIsCurrent
  BY <1>3 DEF Init, SeqBound, AbsentIsIdle, BarrierReadIsCurrent, RenewalReadIsCurrent
<1>5. OutcomeMatchesCommit
  BY <1>3 DEF Init, OutcomeMatchesCommit
<1>6. SerialPerRuntime
  BY <1>3 DEF SerialPerRuntime
<1> QED BY <1>2, <1>4, <1>5, <1>6 DEF IInv, TypeInv

LEMMA NextShape ==
  ASSUME IInv, [Next]_vars
  PROVE  StepShape
<1>1. TypeOK
  BY DEF IInv, TypeInv
<1>2. CASE UNCHANGED vars
  <2>1. TypeOK' /\ RowsSame /\ RunStepOK
    BY <1>1, <1>2 DEF TypeOK, vars, RowsSame, SameHistory, RunStepOK, RunKept
  <2> QED BY <2>1 DEF StepShape, RowStep
<1>3. ASSUME NEW w \in Workers, NEW j \in Jobs, RunStep(w, j) PROVE StepShape
  BY <1>3, StartShape, RenewShape, DeadlineShape, SettleShape DEF RunStep
<1>4. ASSUME NEW w \in Workers, NEW j \in Jobs, ExecStep(w, j) PROVE StepShape
  BY <1>4, ExecQuietShape, BarrierCasShape, CommitShape DEF ExecStep
<1> QED BY <1>2, <1>3, <1>4, RequestShape, TimeShape, ProcessShape, DrainShape DEF Next

LEMMA StepInvariant ==
  ASSUME IInv, [Next]_vars
  PROVE  IInv'
<1>1. StepShape
  BY NextShape
<1>2. TypeOK'
  BY <1>1 DEF StepShape
<1> QED BY <1>1, <1>2, RunsKeepInvariant, SequencesKept, OutcomesKept, SerialKept
        DEF IInv, TypeInv

\* The invariant holds in every reachable state.
THEOREM Invariance == Spec => []IInv
<1>1. Init => IInv
  BY InitInvariant
<1>2. IInv /\ [Next]_vars => IInv'
  BY StepInvariant
<1> QED BY <1>1, <1>2, PTL DEF Spec

\* Type correctness: every row, lock, run record and counter keeps its type.
THEOREM TypeCorrect == Spec => []TypeOK
<1>1. IInv => TypeOK
  BY DEF IInv, TypeInv
<1> QED BY <1>1, Invariance, PTL

\* A job's writes commit at most once and its final status is the one written
\* with them, whatever lapses, crashes, cancels or lock losses intervene.
THEOREM CommitOutcome == Spec => []OutcomeMatchesCommit
<1>1. IInv => OutcomeMatchesCommit
  BY DEF IInv
<1> QED BY <1>1, Invariance, PTL

\* The jobs of a runtime are claimed one at a time in queue order, for any
\* number of workers and without relying on a lock.
THEOREM SerialExecution == Spec => []SerialPerRuntime
<1>1. IInv => SerialPerRuntime
  BY DEF IInv
<1> QED BY <1>1, Invariance, PTL

\* No step of any worker or request changes a final row, other than to prune it.
THEOREM FinalRows == Spec => TerminalIsFinal
<1> DEFINE Kept == \A j \in Jobs : job[j].status \in Terminal =>
                     job'[j] = job[j] \/ job'[j].status = "pruned"
<1>1. ASSUME IInv, [Next]_vars PROVE Kept
  <2>1. StepShape
    BY <1>1, NextShape
  <2>2. RowStep
    BY <2>1 DEF StepShape
  <2> SUFFICES ASSUME NEW j \in Jobs, job[j].status \in Terminal
               PROVE  job'[j] = job[j] \/ job'[j].status = "pruned"
    OBVIOUS
  <2>3. job[j].status \notin Active \cup Absent
    BY DEF Terminal, Active, Absent
  <2>4. CASE RowsSame
    BY <2>4 DEF RowsSame
  <2>5. ASSUME NEW k \in Jobs, RowRenewed(k) \/ RowMoved(k) \/ RowCreated(k) \/ RowPruned(k)
        PROVE  job'[j] = job[j] \/ job'[j].status = "pruned"
    BY <2>3, <2>5 DEF RowRenewed, RowMoved, RowCreated, RowPruned, OthersSame, Creates, Absent
  <2>6. ASSUME NEW k \in Jobs, NEW to \in {"succeeded", "failed"},
               NEW f \in Jobs \cup {NoJob}, RowCommitted(k, to, f)
        PROVE  job'[j] = job[j]
    BY <2>3, <2>6, ConstantsAssumption DEF RowCommitted, OthersSame, Creates, Active, Absent
  <2> QED BY <2>2, <2>4, <2>5, <2>6 DEF RowStep
<1>2. IInv /\ [Next]_vars => [Kept]_vars
  BY <1>1
<1> QED BY <1>2, Invariance, PTL DEF Spec, TerminalIsFinal

-----------------------------------------------------------------------------
(* The second invariant: what a run may still assume about its row *)

\* The row is in work and belongs to w.
Mine(w, j) == job[j].status \in Active /\ job[j].owner = w

\* The row is final, or was.
Past(j) == job[j].status \in Terminal \cup {"pruned"}

\* Where a run can stand: a run that has not started has nothing to undo; an
\* execution goes on while runOne waits for it or after it was aborted; the
\* renewal is stopped before the commit barrier and has drained before the row
\* is read there; and the transaction is reached only by a run nobody aborted.
Shape(r) ==
  /\ r.main \in {"idle", "start"} =>
       /\ r.exec = "none" /\ r.renew = "off" /\ r.dl = "off" /\ r.err = "none"
       /\ r.abort \in {"none", "closed"}
  /\ r.abort # "none" => r.main # "race"
  /\ r.exec \notin {"none", "ret"} => r.main = "race" \/ r.abort # "none"
  /\ r.exec \in {"barrier", "cas", "mark", "tx"} => r.stopRenewing /\ r.renew # "timer"
  /\ r.exec \in {"cas", "mark", "tx"} => r.renew = "off"
  /\ r.exec = "tx" => r.abort = "none" /\ r.cur = "committing"
  /\ r.abort = "lapsed" => r.renew = "off"
  /\ r.err = "lapsed" => r.abort = "lapsed"

\* What a run (w, j) in state r may assume about the row: an execution's row is
\* final or still its own; its own row has the status and the revision the run
\* last saw; and a run that was told its lease lapsed has a lapsed lease.
Fits(w, j, r) ==
  /\ r.exec \notin {"none", "ret"} => Past(j) \/ Mine(w, j)
  /\ Mine(w, j) =>
       /\ r.exec \in {"admit", "lock", "pre", "call", "fin", "barrier", "cas"}
            => job[j].status = "running"
       /\ r.exec \in {"mark", "tx"} => job[j].status = "committing"
       /\ r.exec = "cas" => r.casRev = job[j].rev
       /\ r.renew = "read" => r.readRev = job[j].rev
       /\ r.abort = "lapsed" => j \in leaseLate

RunFits(w, j) == Shape(run[w][j]) /\ Fits(w, j, run[w][j])

\* A scan's revision is a past one, and names the present row only while the
\* lease it saw is still lapsed.
ScanFits(j) ==
  scan[j] # NoRev =>
    /\ job[j].status \in Active \cup {"queued"}
    /\ scan[j] <= job[j].rev
    /\ scan[j] = job[j].rev /\ job[j].status \in Active => j \in leaseLate

RunInv ==
  /\ \A w \in Workers, j \in Jobs : RunFits(w, j)
  /\ \A j \in Jobs : ScanFits(j)

-----------------------------------------------------------------------------
(* What a step leaves to the runs it does not move *)

\* Seen by run (v, k): a final row stays so, the run's own row is taken from it
\* only by ending, and while it stays the run's own nothing about it changes.
RowSeen(v, k) ==
  /\ Past(k) => Past(k)'
  /\ Mine(v, k) => Mine(v, k)' \/ Past(k)'
  /\ Mine(v, k)' => /\ Mine(v, k)
                    /\ job'[k] = job[k]
                    /\ k \in leaseLate => k \in leaseLate'

\* Seen by a scan of k: the row is the one it saw, or has a later revision and
\* is not final; or the scan is new, or forgotten.
ScanSeen(k) ==
  \/ scan'[k] = NoRev
  \/ /\ scan'[k] = scan[k]
     /\ \/ job'[k] = job[k] /\ (k \in leaseLate => k \in leaseLate')
        \/ job'[k].status \in Active \cup {"queued"} /\ job'[k].rev > job[k].rev
  \/ /\ scan'[k] = job[k].rev
     /\ job'[k] = job[k] /\ job[k].status \in Active /\ k \in leaseLate'

RunKeeps(v, k) ==
  \/ run'[v][k] = run[v][k] /\ RowSeen(v, k)
  \/ RunFits(v, k)'

FitStep ==
  /\ \A v \in Workers, k \in Jobs : RunKeeps(v, k)
  /\ \A k \in Jobs : ScanSeen(k)

LEMMA FitStepKeeps ==
  ASSUME TypeOK, TypeOK', RunInv, FitStep
  PROVE  RunInv'
<1>1. ASSUME NEW v \in Workers, NEW k \in Jobs PROVE RunFits(v, k)'
  <2>1. RunFits(v, k) /\ RunKeeps(v, k)
    BY DEF RunInv, FitStep
  <2>2. CASE run'[v][k] = run[v][k] /\ RowSeen(v, k)
    <3>1. Shape(run[v][k])'
      BY <2>1, <2>2 DEF RunFits, Shape
    <3>2. Fits(v, k, run[v][k])'
      BY <2>1, <2>2 DEF RunFits, Fits, RowSeen
    <3> QED BY <3>1, <3>2 DEF RunFits
  <2> QED BY <2>1, <2>2 DEF RunKeeps
<1>2. ASSUME NEW k \in Jobs PROVE ScanFits(k)'
  <2>1. ScanFits(k) /\ ScanSeen(k)
    BY DEF RunInv, FitStep
  <2>2. job[k].rev \in Nat /\ job'[k].rev \in Nat /\ scan[k] \in Nat \cup {NoRev}
    BY DEF TypeOK, Row
  <2>3. NoRev \notin Nat
    BY DEF NoRev
  <2> QED BY <2>1, <2>2, <2>3 DEF ScanFits, ScanSeen
<1> QED BY <1>1, <1>2 DEF RunInv

\* A run record that is emptied, or that was.
LEMMA NoRunFits ==
  ASSUME NEW w \in Workers, NEW j \in Jobs, run'[w][j] = NoRun
  PROVE  RunFits(w, j)'
<1>1. /\ NoRun.main = "idle" /\ NoRun.exec = "none" /\ NoRun.renew = "off"
      /\ NoRun.dl = "off" /\ NoRun.abort = "none" /\ NoRun.err = "none"
  BY DEF NoRun
<1>2. Shape(run[w][j])'
  BY <1>1 DEF Shape
<1>3. Fits(w, j, run[w][j])'
  BY <1>1 DEF Fits
<1> QED BY <1>2, <1>3 DEF RunFits

-----------------------------------------------------------------------------
(* What each kind of row write means to the runs and scans *)

LEMMA SameRowsSeen ==
  ASSUME UNCHANGED <<job, scan>>, leaseLate \subseteq leaseLate'
  PROVE  \A k \in Jobs : ScanSeen(k) /\ \A v \in Workers : RowSeen(v, k)
BY DEF ScanSeen, RowSeen, Past, Mine

\* A write to the row of j that keeps every other row.
OtherRows(j) ==
  \A k \in Jobs \ {j} :
    /\ job'[k] = job[k] /\ scan'[k] = scan[k]
    /\ k \in leaseLate => k \in leaseLate'

LEMMA OtherRowsSeen ==
  ASSUME NEW j \in Jobs, OtherRows(j)
  PROVE  \A k \in Jobs \ {j} : ScanSeen(k) /\ \A v \in Workers : RowSeen(v, k)
BY DEF OtherRows, ScanSeen, RowSeen, Past, Mine

\* What Transition does to the row of j, to its scan and to its lease.
LEMMA TransitionRow ==
  ASSUME TypeOK, NEW j \in Jobs, NEW to \in Status \ Absent, Transition(j, to)
  PROVE  /\ Moves(j, to) /\ OtherRows(j) /\ ScanSeen(j)
         /\ to \in Active => leaseLate' = leaseLate
<1>1. Moves(j, to)
  BY TransitionMoves
<1>2. /\ \A k \in Jobs \ {j} : scan'[k] = scan[k] /\ (k \in leaseLate => k \in leaseLate')
      /\ to \in Active => leaseLate' = leaseLate
      /\ scan'[j] # NoRev => scan'[j] = scan[j] /\ to \notin Terminal
  <2>1. Rest(j, to) /\ scan \in [Jobs -> Nat \cup {NoRev}]
    BY DEF Transition, TypeOK
  <2>2. CASE to \in Terminal
    <3>1. scan' = [scan EXCEPT ![j] = NoRev]
      BY <2>1, <2>2 DEF Rest
    <3>2. leaseLate' = leaseLate \ {j}
      BY <2>1, <2>2 DEF Rest, Terminal, Active
    <3> QED BY <2>1, <2>2, <3>1, <3>2 DEF Terminal, Active
  <2>3. CASE to \notin Terminal
    BY <2>1, <2>3 DEF Rest
  <2> QED BY <2>2, <2>3
<1>3. OtherRows(j)
  BY <1>1, <1>2 DEF OtherRows, Moves
<1>4. to \in Active \cup {"queued"} \cup Terminal
  BY DEF Status
<1>5. ScanSeen(j)
  BY <1>1, <1>2, <1>4 DEF ScanSeen, Moves
<1> QED BY <1>1, <1>2, <1>3, <1>5

\* A job is ended by somebody who does not own it.
LEMMA EndedRowSeen ==
  ASSUME TypeOK, NEW j \in Jobs, NEW to \in Terminal, Transition(j, to),
         job[j].status \in Active \cup {"queued"}
  PROVE  \A k \in Jobs : ScanSeen(k) /\ \A v \in Workers : RowSeen(v, k)
<1>1. to \in Status \ Absent /\ to \notin Active
  BY DEF Status, Terminal, Absent, Active
<1>2. Moves(j, to) /\ OtherRows(j) /\ ScanSeen(j)
  BY <1>1, TransitionRow
<1>3. ASSUME NEW v \in Workers PROVE RowSeen(v, j)
  BY <1>1, <1>2 DEF RowSeen, Past, Mine, Moves
<1> QED BY <1>2, <1>3, OtherRowsSeen

\* A worker writes the row it owns: no other worker's run sees a change.
LEMMA OwnRowSeen ==
  ASSUME NEW w \in Workers, NEW j \in Jobs, Mine(w, j), OtherRows(j), ScanSeen(j),
         job'[j].status \in Active => job'[j].owner = w
  PROVE  /\ \A k \in Jobs : ScanSeen(k)
         /\ \A v \in Workers, k \in Jobs : v # w \/ k # j => RowSeen(v, k)
<1>1. ASSUME NEW v \in Workers \ {w} PROVE RowSeen(v, j)
  <2>1. ~Mine(v, j) /\ ~Mine(v, j)' /\ ~Past(j)
    BY DEF Mine, Past, Terminal, Active
  <2> QED BY <2>1 DEF RowSeen
<1> QED BY <1>1, OtherRowsSeen

\* A worker's transition() of its row.
LEMMA OwnMove ==
  ASSUME TypeOK, NEW w \in Workers, NEW j \in Jobs, NEW from \in SUBSET Active,
         NEW to \in Status \ Absent, Holds(w, j, from, to), Transition(j, to)
  PROVE  /\ \A k \in Jobs : ScanSeen(k)
         /\ \A v \in Workers, k \in Jobs : v # w \/ k # j => RowSeen(v, k)
         /\ Moves(j, to)
         /\ to \in Active => leaseLate' = leaseLate
<1>1. Mine(w, j)
  BY DEF Holds, Mine
<1>2. /\ Moves(j, to) /\ OtherRows(j) /\ ScanSeen(j)
      /\ to \in Active => leaseLate' = leaseLate
  BY TransitionRow
<1>3. job'[j].status \in Active => job'[j].owner = w
  BY <1>1, <1>2 DEF Moves, Mine, Active
<1> QED BY <1>1, <1>2, <1>3, OwnRowSeen

-----------------------------------------------------------------------------
(* The run records *)

LEMMA AbortedFields ==
  ASSUME NEW r \in RunState, NEW reason \in Reason
  PROVE  LET n == Aborted(r, reason) IN
         /\ n \in RunState
         /\ n.exec = r.exec /\ n.renew = r.renew /\ n.dl = r.dl /\ n.cur = r.cur
         /\ n.stopRenewing = r.stopRenewing /\ n.readRev = r.readRev /\ n.casRev = r.casRev
         /\ IF r.abort # "none"
            THEN n.abort = r.abort /\ n.main = r.main /\ n.err = r.err
            ELSE /\ n.abort = reason
                 /\ n.main = IF r.main = "race" THEN "catch" ELSE r.main
                 /\ n.err = IF r.main = "race" THEN reason ELSE r.err
<1>1. CASE r.abort # "none"
  BY <1>1 DEF Aborted
<1>2. CASE r.abort = "none"
  <2> DEFINE m == IF r.main = "race" THEN "catch" ELSE r.main
             e == IF r.main = "race" THEN reason ELSE r.err
             n == [r EXCEPT !.abort = reason, !.main = m, !.err = e]
  <2>1. Aborted(r, reason) = n
    BY <1>2 DEF Aborted
  <2>2. /\ m \in {"idle", "start", "race", "check", "catch", "settle", "requeue", "done"}
        /\ e \in Reason
    BY DEF RunState
  <2>3. /\ n \in RunState
        /\ n.abort = reason /\ n.main = m /\ n.err = e
        /\ n.exec = r.exec /\ n.renew = r.renew /\ n.dl = r.dl /\ n.cur = r.cur
        /\ n.stopRenewing = r.stopRenewing /\ n.readRev = r.readRev /\ n.casRev = r.casRev
    <3> HIDE DEF m, e
    <3> QED BY <2>2 DEF RunState
  <2> QED BY <1>2, <2>1, <2>3
<1> QED BY <1>1, <1>2

LEMMA StoppedShape ==
  ASSUME NEW r \in RunState, Shape(r)
  PROVE  LET n == RenewalStopped(r) IN
         /\ n \in RunState /\ Shape(n)
         /\ n.stopRenewing /\ n.renew # "timer" /\ (n.renew = "read" <=> r.renew = "read")
         /\ n.exec = r.exec /\ n.dl = r.dl /\ n.main = r.main
         /\ n.readRev = r.readRev /\ n.casRev = r.casRev
         /\ n.abort = r.abort /\ n.err = r.err /\ n.cur = r.cur
<1> DEFINE x == IF r.renew = "timer" THEN "off" ELSE r.renew
           n == [r EXCEPT !.stopRenewing = TRUE, !.renew = x]
<1>1. RenewalStopped(r) = n
  BY DEF RenewalStopped
<1>2. /\ n \in RunState
      /\ n.stopRenewing /\ n.renew = x
      /\ n.exec = r.exec /\ n.dl = r.dl /\ n.main = r.main
      /\ n.readRev = r.readRev /\ n.casRev = r.casRev
      /\ n.abort = r.abort /\ n.err = r.err /\ n.cur = r.cur
  BY DEF RunState
<1> HIDE DEF n
<1>3. Shape(n)
  BY <1>2 DEF Shape
<1>4. x # "timer" /\ (x = "read" <=> r.renew = "read")
  OBVIOUS
<1> QED BY <1>1, <1>2, <1>3, <1>4

LEMMA LeftShape ==
  ASSUME NEW r \in RunState, Shape(r), r.main # "race"
  PROVE  /\ Left(r) \in RunState /\ Shape(Left(r))
         /\ Left(r).renew = "off"
         /\ Left(r).exec \in {"none", r.exec}
         /\ r.exec \in {"none", "ret"} => Left(r).exec = "none"
         /\ Left(r).casRev = r.casRev \/ Left(r).exec = "none"
         /\ Left(r).abort \in {"none", r.abort} /\ Left(r).err \in {"none", r.err}
         /\ Left(r).exec # "none" => Left(r).abort = r.abort
<1>1. CASE r.exec \in {"none", "ret"}
  <2>1. /\ NoRun.main = "idle" /\ NoRun.exec = "none" /\ NoRun.renew = "off"
        /\ NoRun.dl = "off" /\ NoRun.abort = "none" /\ NoRun.err = "none"
        /\ NoRun \in RunState
    BY DEF NoRun, RunState, Reason
  <2>2. Left(r) = NoRun
    BY <1>1 DEF Left
  <2> QED BY <2>1, <2>2 DEF Shape
<1>2. CASE r.exec \notin {"none", "ret"}
  <2> DEFINE n == [r EXCEPT !.main = "done", !.renew = "off", !.dl = "off",
                            !.stopRenewing = TRUE]
  <2>1. Left(r) = n
    BY <1>2 DEF Left
  <2>2. /\ n \in RunState
        /\ n.main = "done" /\ n.renew = "off" /\ n.dl = "off" /\ n.stopRenewing
        /\ n.exec = r.exec /\ n.casRev = r.casRev
        /\ n.abort = r.abort /\ n.err = r.err /\ n.cur = r.cur
    BY DEF RunState
  <2> HIDE DEF n
  <2>3. Shape(n)
    BY <1>2, <2>2 DEF Shape
  <2> QED BY <1>2, <2>1, <2>2, <2>3
<1> QED BY <1>1, <1>2

LEMMA ReturnedShape ==
  ASSUME NEW r \in RunState, Shape(r), NEW e \in Reason, e = "lapsed" => r.abort = "lapsed",
         r.exec # "none"
  PROVE  /\ Returned(r, e) \in RunState /\ Shape(Returned(r, e))
         /\ Returned(r, e).exec \in {"none", "ret"}
         /\ Returned(r, e).renew \in {"off", r.renew}
         /\ Returned(r, e).readRev = r.readRev \/ Returned(r, e).renew = "off"
         /\ Returned(r, e).abort \in {"none", r.abort}
<1>1. CASE r.main = "done"
  <2>1. /\ NoRun.main = "idle" /\ NoRun.exec = "none" /\ NoRun.renew = "off"
        /\ NoRun.dl = "off" /\ NoRun.abort = "none" /\ NoRun.err = "none"
        /\ NoRun \in RunState
    BY DEF NoRun, RunState, Reason
  <2>2. Returned(r, e) = NoRun
    BY <1>1 DEF Returned
  <2> QED BY <2>1, <2>2 DEF Shape
<1>2. CASE r.main # "done"
  <2> DEFINE m == IF r.main # "race" THEN r.main
                  ELSE IF e = "none" THEN "check" ELSE "catch"
             x == IF r.main = "race" THEN e ELSE r.err
             n == [r EXCEPT !.exec = "ret", !.main = m, !.err = x]
  <2>1. Returned(r, e) = n
    BY <1>2 DEF Returned
  <2>2. /\ n \in RunState
        /\ n.exec = "ret" /\ n.main = m /\ n.err = x
        /\ n.renew = r.renew /\ n.dl = r.dl /\ n.cur = r.cur
        /\ n.stopRenewing = r.stopRenewing /\ n.readRev = r.readRev
        /\ n.abort = r.abort
    BY DEF RunState
  <2> HIDE DEF n
  <2>3. Shape(n)
    BY <2>2 DEF Shape
  <2> QED BY <2>1, <2>2, <2>3
<1> QED BY <1>1, <1>2

-----------------------------------------------------------------------------
(* Steps of one run that leave its row alone, and steps with a transition *)

LEMMA SetFits ==
  ASSUME TypeOK, NEW w \in Workers, NEW j \in Jobs, NEW n \in RunState, Set(w, j, n),
         Shape(n), Fits(w, j, n), UNCHANGED <<job, leaseLate, scan>>
  PROVE  FitStep
<1>1. /\ run'[w][j] = n
      /\ \A v \in Workers, k \in Jobs : v # w \/ k # j => run'[v][k] = run[v][k]
  BY SetType
<1>2. \A k \in Jobs : ScanSeen(k) /\ \A v \in Workers : RowSeen(v, k)
  BY SameRowsSeen
<1>3. RunFits(w, j)'
  <2>1. Shape(run[w][j])'
    BY <1>1 DEF Shape
  <2>2. Fits(w, j, run[w][j])'
    BY <1>1 DEF Fits, Past, Mine
  <2> QED BY <2>1, <2>2 DEF RunFits
<1> QED BY <1>1, <1>2, <1>3 DEF FitStep, RunKeeps

LEMMA ReturnFits ==
  ASSUME TypeOK, RunInv, NEW w \in Workers, NEW j \in Jobs, NEW e \in Reason,
         Return(w, j, e), run[w][j].exec # "none", e = "lapsed" => run[w][j].abort = "lapsed",
         UNCHANGED <<job, leaseLate, scan>>
  PROVE  FitStep
<1> DEFINE r == run[w][j]
<1>1. r \in RunState /\ Shape(r) /\ Fits(w, j, r)
  BY DEF TypeOK, RunInv, RunFits
<1>2. Returned(r, e) \in RunState /\ Shape(Returned(r, e)) /\ Fits(w, j, Returned(r, e))
  BY <1>1, ReturnedShape DEF Fits
<1>3. Set(w, j, Returned(r, e))
  BY DEF Return
<1> QED BY <1>2, <1>3, SetFits

\* The row a run's own transition to an active status leaves it with.
MoveFits(j, n, to) ==
  /\ to \in Active =>
       /\ n.renew # "read" /\ n.exec # "cas" /\ (n.abort = "lapsed" => j \in leaseLate)
       /\ n.exec \in {"admit", "lock", "pre", "call", "fin", "barrier"} => to = "running"
       /\ n.exec \in {"mark", "tx"} => to = "committing"
  /\ to = "queued" => n.exec \in {"none", "ret"}

LEMMA MoveKeepsFit ==
  ASSUME NEW w \in Workers, NEW j \in Jobs, NEW n \in RunState, NEW to \in Status \ Absent,
         run'[w][j] = n, Shape(n), MoveFits(j, n, to), Mine(w, j), Moves(j, to),
         to \in Active => leaseLate' = leaseLate
  PROVE  RunFits(w, j)'
<1>1. Shape(run[w][j])'
  BY DEF Shape
<1>2. to \in Active \cup {"queued"} \cup Terminal
  BY DEF Status
<1>3. job'[j].status = to /\ (to # "queued" => job'[j].owner = w)
  BY DEF Moves, Mine
<1>4. Fits(w, j, run[w][j])'
  BY <1>2, <1>3 DEF Fits, Past, Mine, MoveFits, Active
<1> QED BY <1>1, <1>4 DEF RunFits

LEMMA HoldsFits ==
  ASSUME TypeOK, NEW w \in Workers, NEW j \in Jobs, NEW from \in SUBSET Active,
         NEW to \in Status \ Absent, NEW n \in RunState,
         Holds(w, j, from, to), Transition(j, to), Set(w, j, n), Shape(n), MoveFits(j, n, to)
  PROVE  FitStep
<1>1. /\ run'[w][j] = n
      /\ \A v \in Workers, k \in Jobs : v # w \/ k # j => run'[v][k] = run[v][k]
  BY SetType
<1>2. /\ \A k \in Jobs : ScanSeen(k)
      /\ \A v \in Workers, k \in Jobs : v # w \/ k # j => RowSeen(v, k)
      /\ Moves(j, to)
      /\ to \in Active => leaseLate' = leaseLate
  BY OwnMove
<1>3. Mine(w, j)
  BY DEF Holds, Mine
<1>4. RunFits(w, j)'
  BY <1>1, <1>2, <1>3, MoveKeepsFit
<1> QED BY <1>1, <1>2, <1>4 DEF FitStep, RunKeeps

-----------------------------------------------------------------------------
(* Every action keeps it: the runs *)

LEMMA StartFits ==
  ASSUME IInv, RunInv, NEW w \in Workers, NEW j \in Jobs, Start(w, j) \/ StartFails(w, j)
  PROVE  FitStep
<1> DEFINE r == run[w][j]
<1>1. TypeOK /\ r \in RunState /\ Shape(r) /\ r.main = "start"
  BY DEF IInv, TypeInv, TypeOK, RunInv, RunFits, Start, StartFails
<1>2. /\ r.exec = "none" /\ r.renew = "off" /\ r.dl = "off" /\ r.err = "none"
      /\ r.abort \in {"none", "closed"}
  BY <1>1 DEF Shape
<1>3. /\ "running" \in Status \ Absent /\ {"claimed"} \in SUBSET Active
      /\ "running" \in Active
  BY DEF Status, Active, Absent
<1>4. ASSUME NEW x \in Reason \ {"lapsed"}
      PROVE  LET n == [r EXCEPT !.main = "catch", !.err = x] IN
             n \in RunState /\ Shape(n) /\ Fits(w, j, n) /\ MoveFits(j, n, "running")
  <2> DEFINE n == [r EXCEPT !.main = "catch", !.err = x]
  <2>1. /\ n \in RunState /\ n.main = "catch" /\ n.err = x /\ n.exec = "none"
        /\ n.renew = "off" /\ n.abort = r.abort
    BY <1>1, <1>2 DEF RunState
  <2>2. Shape(n) /\ Fits(w, j, n) /\ MoveFits(j, n, "running")
    <3> HIDE DEF n
    <3> QED BY <1>2, <2>1 DEF Shape, Fits, MoveFits
  <2> QED BY <2>1, <2>2
<1>5. CASE Start(w, j)
  <2>1. CASE r.abort # "none"
    <3>1. r.abort \in Reason \ {"lapsed"}
      BY <1>1, <1>2 DEF RunState
    <3> QED BY <1>1, <1>4, <1>5, <2>1, <3>1, SetFits DEF Start
  <2>2. CASE r.abort = "none" /\ Holds(w, j, {"claimed"}, "running")
    <3> DEFINE d == IF j \in ExecTimed THEN "timer" ELSE "off"
               n == [r EXCEPT !.main = "race", !.exec = "admit", !.cur = "running",
                              !.renew = "timer", !.dl = d]
    <3>1. d \in {"off", "timer", "fired"}
      OBVIOUS
    <3>2. Set(w, j, n) /\ Transition(j, "running")
      BY <1>5, <2>2 DEF Start
    <3> HIDE DEF d
    <3>3. /\ n \in RunState /\ n.main = "race" /\ n.exec = "admit" /\ n.renew = "timer"
          /\ n.abort = "none" /\ n.err = "none"
      BY <1>1, <1>2, <2>2, <3>1 DEF RunState
    <3> HIDE DEF n
    <3>4. Shape(n) /\ MoveFits(j, n, "running")
      BY <3>3 DEF Shape, MoveFits
    <3> QED BY <1>1, <1>3, <2>2, <3>2, <3>3, <3>4, HoldsFits
  <2>3. CASE r.abort = "none" /\ ~Holds(w, j, {"claimed"}, "running")
    <3>1. Left(r) \in RunState /\ Shape(Left(r)) /\ Left(r).exec = "none"
          /\ Left(r).renew = "off" /\ Left(r).abort \in {"none", r.abort}
      BY <1>1, <1>2, LeftShape
    <3>2. Fits(w, j, Left(r))
      BY <2>3, <3>1 DEF Fits
    <3> QED BY <1>1, <1>5, <2>3, <3>1, <3>2, SetFits DEF Start
  <2> QED BY <2>1, <2>2, <2>3
<1>6. CASE StartFails(w, j)
  <2> DEFINE n == [r EXCEPT !.main = "catch", !.err = "error"]
  <2>1. n \in RunState /\ Shape(n) /\ Fits(w, j, n) /\ MoveFits(j, n, "running")
    BY <1>4 DEF Reason
  <2>2. Set(w, j, n)
    BY <1>6 DEF StartFails
  <2> HIDE DEF n
  <2>3. CASE UNCHANGED <<job, leaseLate, scan>>
    BY <1>1, <2>1, <2>2, <2>3, SetFits
  <2>4. CASE Holds(w, j, {"claimed"}, "running") /\ Transition(j, "running")
    BY <1>1, <1>3, <2>1, <2>2, <2>4, HoldsFits
  <2> QED BY <1>6, <2>3, <2>4 DEF StartFails
<1> QED BY <1>5, <1>6

LEMMA RenewFits ==
  ASSUME IInv, RunInv, NEW w \in Workers, NEW j \in Jobs,
         RenewRead(w, j) \/ RenewCas(w, j) \/ RenewError(w, j)
  PROVE  FitStep
<1> DEFINE r == run[w][j]
<1>1. /\ TypeOK /\ r \in RunState /\ job[j] \in Row /\ Shape(r) /\ Fits(w, j, r)
      /\ r.renew \in {"timer", "read"}
  BY DEF IInv, TypeInv, TypeOK, RunInv, RunFits, RenewRead, RenewCas, RenewError
<1>2. /\ r.main \notin {"idle", "start"}
      /\ r.exec \notin {"cas", "mark", "tx"}
      /\ r.abort # "lapsed"
  BY <1>1 DEF Shape
\* What ends a renewal, aborting the run or not.
<1>3. ASSUME NEW q \in {r, Aborted(r, "stale"), Aborted(r, "lapsed")},
             q.abort = "lapsed" => j \in leaseLate,
             NEW n \in RunState, n.renew = "off", r.stopRenewing => n.stopRenewing,
             n.main = q.main, n.exec = q.exec, n.dl = q.dl, n.cur = q.cur,
             n.abort = q.abort, n.err = q.err, n.casRev = q.casRev
      PROVE  Shape(n) /\ Fits(w, j, n)
  <2>1. "stale" \in Reason /\ "lapsed" \in Reason
    BY DEF Reason
  <2>2. /\ q \in RunState /\ q.exec = r.exec /\ q.dl = r.dl /\ q.cur = r.cur
        /\ q.casRev = r.casRev
        /\ \/ q.abort = r.abort /\ q.main = r.main /\ q.err = r.err
           \/ /\ r.abort = "none"
              /\ q.abort \in {"stale", "lapsed"}
              /\ q.abort = "lapsed" => j \in leaseLate
              /\ q.main = IF r.main = "race" THEN "catch" ELSE r.main
              /\ q.err = IF r.main = "race" THEN q.abort ELSE r.err
    <3>1. CASE q = r
      BY <1>1, <3>1
    <3>2. CASE q = Aborted(r, "stale")
      BY <1>1, <2>1, <3>2, AbortedFields
    <3>3. CASE q = Aborted(r, "lapsed")
      BY <1>1, <1>3, <2>1, <3>3, AbortedFields
    <3> QED BY <3>1, <3>2, <3>3
  <2>3. Shape(n)
    BY <1>1, <1>2, <1>3, <2>2 DEF Shape
  <2>4. Fits(w, j, n)
    BY <1>1, <1>2, <1>3, <2>2 DEF Fits
  <2> QED BY <2>3, <2>4
\* A renewal goes back to its timer.
<1>4. LET n == [r EXCEPT !.readRev = 0, !.renew = "timer"] IN
      r.renew = "read" /\ ~r.stopRenewing => n \in RunState /\ Shape(n) /\ Fits(w, j, n)
  <2> DEFINE n == [r EXCEPT !.readRev = 0, !.renew = "timer"]
  <2>1. /\ n \in RunState /\ n.renew = "timer" /\ n.stopRenewing = r.stopRenewing
        /\ n.main = r.main /\ n.exec = r.exec /\ n.dl = r.dl /\ n.cur = r.cur
        /\ n.abort = r.abort /\ n.err = r.err /\ n.casRev = r.casRev
    BY <1>1 DEF RunState
  <2>2. ASSUME r.renew = "read", ~r.stopRenewing PROVE Shape(n)
    <3> HIDE DEF n
    <3> QED BY <1>1, <1>2, <2>1, <2>2 DEF Shape
  <2>3. Fits(w, j, n)
    <3> HIDE DEF n
    <3> QED BY <1>1, <2>1 DEF Fits
  <2> QED BY <2>1, <2>2, <2>3
<1>5. /\ 0 \in Nat /\ TRUE \in BOOLEAN /\ r.stopRenewing \in BOOLEAN /\ r.readRev \in Nat
  BY <1>1 DEF RunState
<1>6. CASE RenewRead(w, j)
  <2>1. CASE job[j].status \in Active /\ job[j].owner = w
    <3> DEFINE n == [r EXCEPT !.renew = "read", !.readRev = job[j].rev]
    <3>1. /\ n \in RunState /\ n.renew = "read" /\ n.stopRenewing = r.stopRenewing
          /\ n.main = r.main /\ n.exec = r.exec /\ n.dl = r.dl /\ n.cur = r.cur
          /\ n.abort = r.abort /\ n.err = r.err /\ n.casRev = r.casRev
          /\ n.readRev = job[j].rev
      BY <1>1 DEF RunState, Row
    <3>2. Set(w, j, n) /\ r.renew = "timer" /\ UNCHANGED <<job, leaseLate, scan>>
      BY <1>6, <2>1 DEF RenewRead, rowVars
    <3> HIDE DEF n
    <3>3. Shape(n)
      BY <1>1, <1>2, <3>1, <3>2 DEF Shape
    <3>4. Fits(w, j, n)
      BY <1>1, <3>1 DEF Fits
    <3> QED BY <1>1, <3>1, <3>2, <3>3, <3>4, SetFits
  <2>2. CASE ~(job[j].status \in Active /\ job[j].owner = w)
    <3> DEFINE q == Aborted(r, "stale")
               n == [q EXCEPT !.renew = "off", !.stopRenewing = TRUE]
    <3>1. Set(w, j, n) /\ UNCHANGED <<job, leaseLate, scan>>
      BY <1>6, <2>2 DEF RenewRead, rowVars
    <3>2. q \in RunState /\ q.abort # "lapsed"
      <4>1. "stale" \in Reason
        BY DEF Reason
      <4> QED BY <1>1, <1>2, <4>1, AbortedFields
    <3>3. /\ n \in RunState /\ n.renew = "off" /\ n.stopRenewing
          /\ n.main = q.main /\ n.exec = q.exec /\ n.dl = q.dl /\ n.cur = q.cur
          /\ n.abort = q.abort /\ n.err = q.err /\ n.casRev = q.casRev
      <4> HIDE DEF q
      <4> QED BY <3>2 DEF RunState
    <3> HIDE DEF n
    <3>4. Shape(n) /\ Fits(w, j, n)
      BY <1>3, <3>2, <3>3
    <3> QED BY <1>1, <3>1, <3>3, <3>4, SetFits
  <2> QED BY <2>1, <2>2
<1>7. CASE RenewCas(w, j)
  <2>1. CASE Exists(j) /\ job[j].rev = r.readRev
    <3>1. PICK now \in Clock : job' = [job EXCEPT ![j].rev = NextRevision(@, now)]
      BY <1>7, <2>1 DEF RenewCas
    <3>2. NextRevision(job[j].rev, now) \in Nat /\ NextRevision(job[j].rev, now) > job[j].rev
      BY <1>1, RevisionGrows DEF Row
    <3>3. Mine(w, j) /\ r.renew = "read"
      BY <1>7, <2>1 DEF RenewCas, IInv, RenewalReadIsCurrent, Mine
    <3>4. /\ job'[j].status = job[j].status /\ job'[j].owner = job[j].owner
          /\ job'[j].rev > job[j].rev
          /\ \A k \in Jobs \ {j} : job'[k] = job[k]
      BY <1>1, <3>1, <3>2 DEF TypeOK, Row
    <3>5. scan' = scan /\ leaseLate' = leaseLate \ {j}
      BY <1>7, <2>1 DEF RenewCas
    <3>6. OtherRows(j) /\ ScanSeen(j) /\ (job'[j].status \in Active => job'[j].owner = w)
      BY <3>3, <3>4, <3>5 DEF OtherRows, ScanSeen, Mine
    <3>7. /\ \A k \in Jobs : ScanSeen(k)
          /\ \A v \in Workers, k \in Jobs : v # w \/ k # j => RowSeen(v, k)
      BY <3>3, <3>6, OwnRowSeen
    <3> DEFINE x == IF r.stopRenewing THEN "off" ELSE "timer"
               n == [r EXCEPT !.readRev = 0, !.renew = x]
    <3>8. Set(w, j, n) /\ x \in {"off", "timer", "read"}
      BY <1>7, <2>1 DEF RenewCas
    <3>9. /\ n \in RunState /\ n.renew = x /\ n.stopRenewing = r.stopRenewing
          /\ n.main = r.main /\ n.exec = r.exec /\ n.dl = r.dl /\ n.cur = r.cur
          /\ n.abort = r.abort /\ n.err = r.err /\ n.casRev = r.casRev
      <4> HIDE DEF x
      <4> QED BY <1>1, <3>8 DEF RunState
    <3>10. Shape(n)
      <4> HIDE DEF n
      <4> QED BY <1>1, <1>2, <3>3, <3>9 DEF Shape
    <3> HIDE DEF n
    <3>11. /\ run'[w][j] = n
           /\ \A v \in Workers, k \in Jobs : v # w \/ k # j => run'[v][k] = run[v][k]
      BY <1>1, <3>8, <3>9, SetType
    <3>12. RunFits(w, j)'
      <4>1. Shape(run[w][j])'
        BY <3>10, <3>11 DEF Shape
      <4>2. Fits(w, j, run[w][j])'
        BY <1>1, <1>2, <3>3, <3>4, <3>9, <3>11 DEF Fits, Past, Mine
      <4> QED BY <4>1, <4>2 DEF RunFits
    <3> QED BY <3>7, <3>11, <3>12 DEF FitStep, RunKeeps
  <2>2. CASE ~(Exists(j) /\ job[j].rev = r.readRev)
    <3> DEFINE q == IF r.stopRenewing THEN r ELSE Aborted(r, "stale")
               n == [q EXCEPT !.readRev = 0, !.renew = "off", !.stopRenewing = TRUE]
    <3>1. Set(w, j, n) /\ UNCHANGED <<job, leaseLate, scan>>
      BY <1>7, <2>2 DEF RenewCas
    <3>2. q \in RunState /\ q.abort # "lapsed" /\ q \in {r, Aborted(r, "stale")}
      <4>1. "stale" \in Reason
        BY DEF Reason
      <4> QED BY <1>1, <1>2, <4>1, AbortedFields
    <3>3. /\ n \in RunState /\ n.renew = "off" /\ n.stopRenewing
          /\ n.main = q.main /\ n.exec = q.exec /\ n.dl = q.dl /\ n.cur = q.cur
          /\ n.abort = q.abort /\ n.err = q.err /\ n.casRev = q.casRev
      <4> HIDE DEF q
      <4> QED BY <3>2 DEF RunState
    <3> HIDE DEF n, q
    <3>4. Shape(n) /\ Fits(w, j, n)
      BY <1>3, <3>2, <3>3
    <3> QED BY <1>1, <3>1, <3>3, <3>4, SetFits
  <2> QED BY <2>1, <2>2
<1>8. CASE RenewError(w, j)
  <2>1. r.renew = "read" /\ UNCHANGED <<job, leaseLate, scan>>
    BY <1>8 DEF RenewError, rowVars
  <2>2. CASE r.stopRenewing
    <3> DEFINE n == [r EXCEPT !.readRev = 0, !.renew = "off"]
    <3>1. Set(w, j, n)
      BY <1>8, <2>2 DEF RenewError
    <3>2. /\ n \in RunState /\ n.renew = "off" /\ n.stopRenewing
          /\ n.main = r.main /\ n.exec = r.exec /\ n.dl = r.dl /\ n.cur = r.cur
          /\ n.abort = r.abort /\ n.err = r.err /\ n.casRev = r.casRev
      BY <1>1, <2>2 DEF RunState
    <3> HIDE DEF n
    <3>3. Shape(n) /\ Fits(w, j, n)
      BY <1>2, <1>3, <3>2
    <3> QED BY <1>1, <2>1, <3>1, <3>2, <3>3, SetFits
  <2>3. CASE ~r.stopRenewing /\ j \in leaseLate
    <3> DEFINE q == Aborted(r, "lapsed")
               n == [q EXCEPT !.readRev = 0, !.renew = "off", !.stopRenewing = TRUE]
    <3>1. Set(w, j, n)
      BY <1>8, <2>3 DEF RenewError
    <3>2. q \in RunState
      <4>1. "lapsed" \in Reason
        BY DEF Reason
      <4> QED BY <1>1, <4>1, AbortedFields
    <3>3. /\ n \in RunState /\ n.renew = "off" /\ n.stopRenewing
          /\ n.main = q.main /\ n.exec = q.exec /\ n.dl = q.dl /\ n.cur = q.cur
          /\ n.abort = q.abort /\ n.err = q.err /\ n.casRev = q.casRev
      <4> HIDE DEF q
      <4> QED BY <3>2 DEF RunState
    <3> HIDE DEF n
    <3>4. Shape(n) /\ Fits(w, j, n)
      BY <1>3, <2>3, <3>2, <3>3
    <3> QED BY <1>1, <2>1, <3>1, <3>3, <3>4, SetFits
  <2>4. CASE ~r.stopRenewing /\ j \notin leaseLate
    BY <1>1, <1>4, <1>8, <2>1, <2>4, SetFits DEF RenewError
  <2> QED BY <2>2, <2>3, <2>4
<1> QED BY <1>6, <1>7, <1>8

LEMMA DeadlineFits ==
  ASSUME IInv, RunInv, NEW w \in Workers, NEW j \in Jobs,
         DeadlineFires(w, j) \/ \E reported \in BOOLEAN : DeadlineSettles(w, j, reported)
  PROVE  FitStep
<1> DEFINE r == run[w][j]
<1>1. /\ TypeOK /\ r \in RunState /\ Shape(r) /\ Fits(w, j, r)
      /\ r.main \notin {"idle", "start"}
  <2>1. TypeOK /\ r \in RunState /\ Shape(r) /\ Fits(w, j, r)
    BY DEF IInv, TypeInv, TypeOK, RunInv, RunFits
  <2>2. r.dl # "off"
    BY DEF DeadlineFires, DeadlineSettles
  <2> QED BY <2>1, <2>2 DEF Shape
<1>2. ASSUME NEW q \in RunState, Shape(q), q.main = r.main, NEW d \in {"off", "fired"},
             Fits(w, j, q)
      PROVE  LET n == [q EXCEPT !.dl = d] IN n \in RunState /\ Shape(n) /\ Fits(w, j, n)
  <2> DEFINE n == [q EXCEPT !.dl = d]
  <2>1. /\ n \in RunState /\ n.renew = q.renew /\ n.stopRenewing = q.stopRenewing
        /\ n.main = q.main /\ n.exec = q.exec /\ n.cur = q.cur /\ n.readRev = q.readRev
        /\ n.abort = q.abort /\ n.err = q.err /\ n.casRev = q.casRev
    BY DEF RunState
  <2>2. Shape(n)
    <3> HIDE DEF n
    <3> QED BY <1>1, <1>2, <2>1 DEF Shape
  <2>3. Fits(w, j, n)
    <3> HIDE DEF n
    <3> QED BY <1>2, <2>1 DEF Fits
  <2> QED BY <2>1, <2>2, <2>3
<1>3. CASE DeadlineFires(w, j)
  <2>1. /\ Set(w, j, [RenewalStopped(r) EXCEPT !.dl = "fired"])
        /\ UNCHANGED <<job, leaseLate, scan>>
    BY <1>3 DEF DeadlineFires, rowVars
  <2>2. /\ RenewalStopped(r) \in RunState /\ Shape(RenewalStopped(r))
        /\ RenewalStopped(r).main = r.main
    BY <1>1, StoppedShape
  <2>3. Fits(w, j, RenewalStopped(r))
    BY <1>1, StoppedShape DEF Fits
  <2> QED BY <1>1, <1>2, <2>1, <2>2, <2>3, SetFits
<1>4. ASSUME NEW reported \in BOOLEAN, DeadlineSettles(w, j, reported) PROVE FitStep
  <2>1. CASE Holds(w, j, {"running"}, "timed_out")
    <3> DEFINE q == IF reported THEN Aborted(r, "timeout") ELSE r
               n == [q EXCEPT !.dl = "off"]
    <3>1. Transition(j, "timed_out") /\ Set(w, j, n) /\ r.renew # "read"
      BY <1>4, <2>1 DEF DeadlineSettles, Drained
    <3>2. r.exec # "tx"
      BY <1>1, <2>1 DEF Fits, Mine, Holds, Active
    <3>3. /\ q \in RunState /\ q.exec = r.exec /\ q.renew = r.renew /\ q.cur = r.cur
          /\ q.stopRenewing = r.stopRenewing
          /\ \/ q.abort = r.abort /\ q.main = r.main /\ q.err = r.err
             \/ /\ r.abort = "none" /\ q.abort = "timeout"
                /\ q.main = IF r.main = "race" THEN "catch" ELSE r.main
                /\ q.err = IF r.main = "race" THEN "timeout" ELSE r.err
      <4>1. "timeout" \in Reason
        BY DEF Reason
      <4>2. CASE reported
        BY <1>1, <4>1, <4>2, AbortedFields
      <4>3. CASE ~reported
        BY <1>1, <4>3
      <4> QED BY <4>2, <4>3
    <3>4. /\ n \in RunState /\ n.exec = q.exec /\ n.renew = q.renew /\ n.cur = q.cur
          /\ n.stopRenewing = q.stopRenewing /\ n.dl = "off"
          /\ n.abort = q.abort /\ n.main = q.main /\ n.err = q.err
      <4> HIDE DEF q
      <4> QED BY <3>3 DEF RunState
    <3> HIDE DEF n, q
    <3>5. Shape(n)
      BY <1>1, <3>2, <3>3, <3>4 DEF Shape
    <3>6. /\ "timed_out" \in Status \ Absent /\ "timed_out" \notin Active
          /\ {"running"} \in SUBSET Active
      BY DEF Status, Active, Absent, Terminal
    <3>7. MoveFits(j, n, "timed_out")
      BY <3>6 DEF MoveFits
    <3> QED BY <1>1, <2>1, <3>1, <3>4, <3>5, <3>6, <3>7, HoldsFits
  <2>2. CASE ~Holds(w, j, {"running"}, "timed_out")
    BY <1>1, <1>2, <1>4, <2>2, SetFits DEF DeadlineSettles
  <2> QED BY <2>1, <2>2
<1> QED BY <1>3, <1>4

LEMMA LeftFits ==
  ASSUME TypeOK, RunInv, NEW w \in Workers, NEW j \in Jobs, run[w][j].main # "race"
  PROVE  /\ Left(run[w][j]) \in RunState /\ Shape(Left(run[w][j]))
         /\ Fits(w, j, Left(run[w][j]))
<1> DEFINE r == run[w][j]
<1>1. r \in RunState /\ Shape(r) /\ Fits(w, j, r)
  BY DEF TypeOK, RunInv, RunFits
<1>2. /\ Left(r) \in RunState /\ Shape(Left(r))
      /\ Left(r).renew = "off"
      /\ Left(r).exec \in {"none", r.exec}
      /\ Left(r).casRev = r.casRev \/ Left(r).exec = "none"
      /\ Left(r).abort \in {"none", r.abort}
  BY <1>1, LeftShape
<1> QED BY <1>1, <1>2 DEF Fits

LEMMA SettleFits ==
  ASSUME IInv, RunInv, NEW w \in Workers, NEW j \in Jobs,
         Check(w, j) \/ Catch(w, j) \/ Settle(w, j) \/ Requeue(w, j) \/ SettleFails(w, j)
  PROVE  FitStep
<1> DEFINE r == run[w][j]
<1>1. TypeOK /\ r \in RunState /\ Shape(r) /\ Fits(w, j, r)
  BY DEF IInv, TypeInv, TypeOK, RunInv, RunFits
<1>2. r.main \notin {"idle", "start", "race"}
  BY DEF Check, Catch, Settle, Requeue, SettleFails
<1>3. Left(r) \in RunState /\ Shape(Left(r)) /\ Fits(w, j, Left(r))
  BY <1>1, <1>2, LeftFits
<1>4. ASSUME Set(w, j, Left(r)), UNCHANGED <<job, leaseLate, scan>> PROVE FitStep
  BY <1>1, <1>3, <1>4, SetFits
<1>5. CASE Check(w, j)
  <2>1. UNCHANGED <<job, leaseLate, scan>>
    BY <1>5 DEF Check, rowVars
  <2> DEFINE n == [r EXCEPT !.main = "catch", !.err = "error"]
  <2>2. /\ n \in RunState /\ n.main = "catch" /\ n.err = "error"
        /\ n.exec = r.exec /\ n.renew = r.renew /\ n.stopRenewing = r.stopRenewing
        /\ n.cur = r.cur /\ n.abort = r.abort /\ n.readRev = r.readRev /\ n.casRev = r.casRev
    <3>1. "error" \in Reason
      BY DEF Reason
    <3> QED BY <1>1, <3>1 DEF RunState
  <2>3. Shape(n) /\ Fits(w, j, n)
    <3> HIDE DEF n
    <3>1. r.main = "check"
      BY <1>5 DEF Check
    <3>2. Shape(n)
      BY <1>1, <2>2, <3>1 DEF Shape
    <3>3. Fits(w, j, n)
      BY <1>1, <2>2 DEF Fits
    <3> QED BY <3>2, <3>3
  <2>4. Set(w, j, Left(r)) \/ Set(w, j, n)
    BY <1>5 DEF Check
  <2> HIDE DEF n
  <2> QED BY <1>1, <1>4, <2>1, <2>2, <2>3, <2>4, SetFits
<1>6. CASE Catch(w, j)
  <2>1. UNCHANGED <<job, leaseLate, scan>> /\ r.main = "catch"
    BY <1>6 DEF Catch, rowVars
  <2> DEFINE q == RenewalStopped(r)
             n(m) == [q EXCEPT !.dl = "off", !.main = m]
  <2>2. ASSUME NEW m \in {"settle", "requeue"}
        PROVE  n(m) \in RunState /\ Shape(n(m)) /\ Fits(w, j, n(m))
    <3>1. /\ q \in RunState /\ Shape(q) /\ q.main = r.main
          /\ q.renew = "read" => r.renew = "read"
          /\ q.exec = r.exec /\ q.readRev = r.readRev /\ q.casRev = r.casRev
          /\ q.abort = r.abort
      BY <1>1, StoppedShape
    <3> HIDE DEF q
    <3>2. /\ n(m) \in RunState /\ n(m).main = m /\ n(m).err = q.err
          /\ n(m).exec = q.exec /\ n(m).renew = q.renew /\ n(m).stopRenewing = q.stopRenewing
          /\ n(m).cur = q.cur /\ n(m).abort = q.abort
          /\ n(m).readRev = q.readRev /\ n(m).casRev = q.casRev
      BY <3>1 DEF RunState
    <3> HIDE DEF n
    <3>3. Shape(n(m))
      BY <2>1, <3>1, <3>2 DEF Shape
    <3>4. Fits(w, j, n(m))
      BY <1>1, <3>1, <3>2 DEF Fits
    <3> QED BY <3>2, <3>3, <3>4
  <2>3. Set(w, j, Left(r)) \/ \E m \in {"settle", "requeue"} : Set(w, j, n(m))
    BY <1>6 DEF Catch
  <2> HIDE DEF n
  <2> QED BY <1>1, <1>4, <2>1, <2>2, <2>3, SetFits
<1>7. Active \in SUBSET Active
  OBVIOUS
<1>8. CASE Settle(w, j)
  <2>1. /\ Outcome(r.err) \in Status \ Absent /\ Outcome(r.err) \notin Active
        /\ Outcome(r.err) # "queued"
    BY DEF Outcome, Status, Absent, Terminal, Active
  <2>2. MoveFits(j, Left(r), Outcome(r.err))
    BY <2>1 DEF MoveFits
  <2>3. CASE Holds(w, j, Active, Outcome(r.err))
    BY <1>1, <1>3, <1>7, <1>8, <2>1, <2>2, <2>3, HoldsFits DEF Settle
  <2>4. CASE ~Holds(w, j, Active, Outcome(r.err))
    BY <1>4, <1>8, <2>4 DEF Settle
  <2> QED BY <2>3, <2>4
<1>9. CASE Requeue(w, j)
  <2>1. "queued" \in Status \ Absent /\ "queued" \notin Active
    BY DEF Status, Absent, Active
  <2>2. MoveFits(j, Left(r), "queued")
    BY <1>1, <1>2, <1>9, <2>1, LeftShape DEF MoveFits, Requeue, Unwound
  <2>3. CASE Holds(w, j, Active, "queued")
    BY <1>1, <1>3, <1>7, <1>9, <2>1, <2>2, <2>3, HoldsFits DEF Requeue
  <2>4. CASE ~Holds(w, j, Active, "queued")
    BY <1>4, <1>9, <2>4 DEF Requeue
  <2> QED BY <2>3, <2>4
<1>10. CASE SettleFails(w, j)
  BY <1>4, <1>10 DEF SettleFails, rowVars
<1> QED BY <1>5, <1>6, <1>8, <1>9, <1>10

\* The execution up to the commit barrier, and the steps that end it.
LEMMA ExecFits ==
  ASSUME IInv, RunInv, NEW w \in Workers, NEW j \in Jobs,
         \/ ExecAdmit(w, j) \/ ExecLock(w, j) \/ ExecLockTimeout(w, j)
         \/ ExecAuthorize(w, j) \/ ExecFinish(w, j) \/ ExecFail(w, j)
         \/ ExecGiveUp(w, j) \/ ExecConnectionGone(w, j) \/ ExecCommitLock(w, j)
         \/ ExecBarrierRead(w, j) \/ ExecMark(w, j) \/ ExecMarkFails(w, j)
         \/ ExecRollback(w, j)
  PROVE  FitStep
<1> DEFINE r == run[w][j]
<1>1. TypeOK /\ r \in RunState /\ Shape(r) /\ Fits(w, j, r) /\ job[j] \in Row
  BY DEF IInv, TypeInv, TypeOK, RunInv, RunFits
<1>2. r.exec \notin {"none", "ret"} /\ UNCHANGED <<job, leaseLate, scan>>
  BY DEF ExecAdmit, ExecLock, ExecLockTimeout, ExecAuthorize, ExecFinish, ExecFail,
         ExecGiveUp, ExecConnectionGone, ExecCommitLock, ExecBarrierRead, ExecMark,
         ExecMarkFails, ExecRollback, rowVars
<1>3. r.abort \in Reason /\ "stale" \in Reason /\ "error" \in Reason
  BY <1>1 DEF RunState, Reason
<1>4. ASSUME NEW e \in {r.abort, "stale", "error"}, Return(w, j, e) PROVE FitStep
  <2>1. e \in Reason /\ (e = "lapsed" => r.abort = "lapsed")
    BY <1>3, <1>4
  <2> QED BY <1>1, <1>2, <1>4, <2>1, ReturnFits
<1>5. ASSUME NEW n \in RunState, Set(w, j, n), Shape(n), Fits(w, j, n) PROVE FitStep
  BY <1>1, <1>2, <1>5, SetFits
\* One step further, before the commit section.
<1>6. ASSUME r.exec \in {"admit", "lock", "pre"}, NEW x \in {"lock", "pre", "call"},
             Set(w, j, [r EXCEPT !.exec = x])
      PROVE  FitStep
  <2> DEFINE n == [r EXCEPT !.exec = x]
  <2>1. /\ n \in RunState /\ n.exec = x
        /\ n.main = r.main /\ n.err = r.err /\ n.cur = r.cur
        /\ n.renew = r.renew /\ n.stopRenewing = r.stopRenewing
        /\ n.abort = r.abort /\ n.readRev = r.readRev
    BY <1>1 DEF RunState
  <2> HIDE DEF n
  <2>2. Shape(n)
    BY <1>1, <1>6, <2>1 DEF Shape
  <2>3. Fits(w, j, n)
    BY <1>1, <1>6, <2>1 DEF Fits
  <2> QED BY <1>5, <1>6, <2>1, <2>2, <2>3 DEF n
<1>7. CASE ExecAdmit(w, j)
  BY <1>4, <1>6, <1>7 DEF ExecAdmit
<1>8. CASE ExecLock(w, j)
  BY <1>4, <1>6, <1>8 DEF ExecLock
<1>9. CASE ExecLockTimeout(w, j) \/ ExecFail(w, j) \/ ExecConnectionGone(w, j)
             \/ ExecMarkFails(w, j) \/ ExecRollback(w, j)
  BY <1>4, <1>9
     DEF ExecLockTimeout, ExecFail, ExecConnectionGone, ExecMarkFails, ExecRollback
<1>10. CASE ExecGiveUp(w, j)
  BY <1>4, <1>10 DEF ExecGiveUp
<1>11. CASE ExecAuthorize(w, j)
  BY <1>4, <1>6, <1>11 DEF ExecAuthorize
<1>12. CASE ExecFinish(w, j)
  <2> DEFINE d == IF r.dl = "timer" THEN "off" ELSE r.dl
             n == [r EXCEPT !.exec = "fin", !.dl = d]
  <2>1. Set(w, j, n) /\ r.exec = "call" /\ d \in {"off", "timer", "fired"}
    BY <1>1, <1>12 DEF ExecFinish, RunState
  <2> HIDE DEF d
  <2>2. /\ n \in RunState /\ n.exec = "fin"
        /\ n.main = r.main /\ n.err = r.err /\ n.cur = r.cur
        /\ n.renew = r.renew /\ n.stopRenewing = r.stopRenewing
        /\ n.abort = r.abort /\ n.readRev = r.readRev
    BY <1>1, <2>1 DEF RunState
  <2> HIDE DEF n
  <2>3. Shape(n)
    BY <1>1, <2>1, <2>2 DEF Shape
  <2>4. Fits(w, j, n)
    BY <1>1, <2>1, <2>2 DEF Fits
  <2> QED BY <1>5, <2>1, <2>2, <2>3, <2>4
<1>13. CASE ExecCommitLock(w, j)
  <2>1. CASE r.abort # "none" \/ ~StillAdmitted(j)
    BY <1>4, <1>13, <2>1 DEF ExecCommitLock
  <2>2. CASE r.abort = "none" /\ StillAdmitted(j)
    <3> DEFINE q == RenewalStopped(r)
               n == [q EXCEPT !.exec = "barrier"]
    <3>1. Set(w, j, n) /\ r.exec = "fin"
      BY <1>13, <2>2 DEF ExecCommitLock
    <3>2. /\ q \in RunState /\ Shape(q) /\ q.exec = r.exec /\ q.main = r.main
          /\ q.stopRenewing /\ q.renew # "timer" /\ (q.renew = "read" <=> r.renew = "read")
          /\ q.readRev = r.readRev /\ q.abort = r.abort
      BY <1>1, StoppedShape
    <3> HIDE DEF q
    <3>3. /\ n \in RunState /\ n.exec = "barrier"
          /\ n.main = q.main /\ n.err = q.err /\ n.cur = q.cur
          /\ n.renew = q.renew /\ n.stopRenewing = q.stopRenewing
          /\ n.abort = q.abort /\ n.readRev = q.readRev
      BY <3>2 DEF RunState
    <3> HIDE DEF n
    <3>4. Shape(n)
      BY <3>1, <3>2, <3>3 DEF Shape
    <3>5. Fits(w, j, n)
      BY <1>1, <3>1, <3>2, <3>3 DEF Fits
    <3> QED BY <1>5, <3>1, <3>3, <3>4, <3>5
  <2> QED BY <2>1, <2>2
<1>14. CASE ExecBarrierRead(w, j)
  <2>1. CASE r.abort # "none" \/ ~Holds(w, j, {"running"}, "committing")
    BY <1>4, <1>14, <2>1 DEF ExecBarrierRead
  <2>2. CASE r.abort = "none" /\ Holds(w, j, {"running"}, "committing")
    <3> DEFINE n == [r EXCEPT !.exec = "cas", !.casRev = job[j].rev]
    <3>1. Set(w, j, n) /\ r.exec = "barrier" /\ r.renew # "read"
      BY <1>14, <2>2 DEF ExecBarrierRead, Drained
    <3>2. /\ n \in RunState /\ n.exec = "cas" /\ n.casRev = job[j].rev
          /\ n.main = r.main /\ n.err = r.err /\ n.cur = r.cur
          /\ n.renew = r.renew /\ n.stopRenewing = r.stopRenewing
          /\ n.abort = r.abort
      BY <1>1 DEF RunState, Row
    <3>3. r.renew \in {"off", "timer", "read"}
      BY <1>1 DEF RunState
    <3> HIDE DEF n
    <3>4. Shape(n)
      BY <1>1, <3>1, <3>2, <3>3 DEF Shape
    <3>5. Fits(w, j, n)
      BY <1>1, <3>1, <3>2 DEF Fits
    <3> QED BY <1>5, <3>1, <3>2, <3>4, <3>5
  <2> QED BY <2>1, <2>2
<1>15. CASE ExecMark(w, j)
  <2>1. CASE r.abort # "none"
    BY <1>4, <1>15, <2>1 DEF ExecMark
  <2>2. CASE r.abort = "none"
    <3> DEFINE n == [r EXCEPT !.exec = "tx", !.cur = "committing"]
    <3>1. Set(w, j, n) /\ r.exec = "mark"
      BY <1>15, <2>2 DEF ExecMark
    <3>2. /\ n \in RunState /\ n.exec = "tx" /\ n.cur = "committing"
          /\ n.main = r.main /\ n.err = r.err
          /\ n.renew = r.renew /\ n.stopRenewing = r.stopRenewing
          /\ n.abort = r.abort /\ n.readRev = r.readRev
      BY <1>1 DEF RunState
    <3> HIDE DEF n
    <3>3. Shape(n)
      BY <1>1, <2>2, <3>1, <3>2 DEF Shape
    <3>4. Fits(w, j, n)
      BY <1>1, <3>1, <3>2 DEF Fits
    <3> QED BY <1>5, <3>1, <3>2, <3>3, <3>4
  <2> QED BY <2>1, <2>2
<1> QED BY <1>7, <1>8, <1>9, <1>10, <1>11, <1>12, <1>13, <1>14, <1>15

LEMMA BarrierCasFits ==
  ASSUME IInv, RunInv, NEW w \in Workers, NEW j \in Jobs, ExecBarrierCas(w, j)
  PROVE  FitStep
<1> DEFINE r == run[w][j]
<1>1. TypeOK /\ r \in RunState /\ Shape(r) /\ Fits(w, j, r) /\ r.exec = "cas"
  BY DEF IInv, TypeInv, TypeOK, RunInv, RunFits, ExecBarrierCas
<1>2. CASE Exists(j) /\ job[j].rev = r.casRev
  <2> DEFINE n == [r EXCEPT !.exec = "mark", !.casRev = 0]
  <2>1. Transition(j, "committing") /\ Set(w, j, n)
    BY <1>2 DEF ExecBarrierCas
  <2>2. Holds(w, j, {"running"}, "committing")
    BY <1>1, <1>2 DEF IInv, BarrierReadIsCurrent, Holds, Legal
  <2>3. /\ n \in RunState /\ n.exec = "mark"
        /\ n.main = r.main /\ n.err = r.err /\ n.cur = r.cur
        /\ n.renew = r.renew /\ n.stopRenewing = r.stopRenewing
        /\ n.abort = r.abort
    BY <1>1 DEF RunState
  <2> HIDE DEF n
  <2>4. Shape(n)
    BY <1>1, <2>3 DEF Shape
  <2>5. /\ "committing" \in Status \ Absent /\ {"running"} \in SUBSET Active
        /\ "committing" # "queued"
    BY DEF Status, Active, Absent
  <2>6. MoveFits(j, n, "committing")
    <3>1. Mine(w, j) /\ r.renew = "off"
      BY <1>1, <2>2, <2>5 DEF Holds, Mine, Shape
    <3> QED BY <1>1, <2>3, <3>1 DEF MoveFits, Fits
  <2> QED BY <1>1, <2>1, <2>2, <2>3, <2>4, <2>5, <2>6, HoldsFits
<1>3. CASE ~(Exists(j) /\ job[j].rev = r.casRev)
  <2>1. Return(w, j, "stale") /\ UNCHANGED <<job, leaseLate, scan>>
    BY <1>3 DEF ExecBarrierCas
  <2>2. "stale" \in Reason
    BY DEF Reason
  <2> QED BY <1>1, <2>1, <2>2, ReturnFits
<1> QED BY <1>2, <1>3

\* A row that appears is seen by no run and no scan.
LEMMA CreatedSeen ==
  ASSUME RunInv, NEW f \in Jobs, job[f].status = "absent", job'[f].status = "queued",
         scan'[f] = scan[f]
  PROVE  ScanSeen(f) /\ \A v \in Workers : RowSeen(v, f)
<1>1. job[f].status \notin Active \cup Terminal \cup {"queued", "pruned"}
  BY DEF Active, Terminal
<1>2. job'[f].status \notin Active
  BY DEF Active
<1>3. scan[f] = NoRev
  BY <1>1 DEF RunInv, ScanFits
<1> QED BY <1>1, <1>2, <1>3 DEF ScanSeen, RowSeen, Mine, Past

\* The rows the commit transaction of j leaves: j is final, a follower queued.
CommitRows(j, f) ==
  /\ job'[j].status \in {"succeeded", "failed"}
  /\ job'[j].rev > job[j].rev
  /\ \A k \in Jobs \ {j, f} : job'[k] = job[k]
  /\ f \in Jobs => job[f].status = "absent" /\ job'[f].status = "queued"

LEMMA CommitRowsHold ==
  ASSUME IInv, NEW w \in Workers, NEW j \in Jobs, NEW to \in {"succeeded", "failed"},
         NEW f \in Jobs \cup {NoJob}, NEW e \in {"none", "error"},
         ExecCommit(w, j, to, f, e)
  PROVE  CommitRows(j, f) /\ Mine(w, j) /\ f # j
<1>1. TypeInv /\ TypeOK /\ job[j] \in Row
  BY DEF IInv, TypeInv, TypeOK
<1>2. Mine(w, j) /\ job[j].status = "committing" /\ to \in Status
  BY DEF ExecCommit, Holds, Mine, Active, Status, Terminal
<1>3. PICK now \in Clock :
        IF f = NoJob
        THEN job' = [job EXCEPT ![j] = Moved(@, to, now)] /\ UNCHANGED <<counter, born, origin>>
        ELSE CanCreate(f) /\ Create([job EXCEPT ![j] = Moved(@, to, now)], f, NextSeq)
  BY DEF ExecCommit
<1> DEFINE rows == [job EXCEPT ![j] = Moved(job[j], to, now)]
<1>4. /\ rows \in [Jobs -> Row]
      /\ \A k \in Jobs \ {j} : rows[k] = job[k]
      /\ rows[j].status = to /\ rows[j].rev > job[j].rev
  <2>1. NextRevision(job[j].rev, now) \in Nat /\ NextRevision(job[j].rev, now) > job[j].rev
    BY <1>1, RevisionGrows DEF Row
  <2>2. /\ Moved(job[j], to, now) \in Row
        /\ Moved(job[j], to, now).status = to
        /\ Moved(job[j], to, now).rev = NextRevision(job[j].rev, now)
    BY <1>1, <1>2, <2>1 DEF Moved, Row
  <2> QED BY <1>1, <2>1, <2>2 DEF TypeOK
<1>5. CASE f = NoJob
  <2>1. job' = rows
    BY <1>3, <1>5
  <2> HIDE DEF rows
  <2> QED BY <1>2, <1>4, <1>5, <2>1, ConstantsAssumption DEF CommitRows
<1>6. CASE f # NoJob
  <2>1. CanCreate(f) /\ Create(rows, f, NextSeq) /\ f \in Jobs
    BY <1>3, <1>6
  <2>2. job[f].status = "absent" /\ f # j
    BY <1>2, <2>1 DEF CanCreate
  <2>3. NextSeq \in Nat
    BY <1>1, SequenceIsNew DEF TypeOK
  <2> HIDE DEF rows
  <2>4. (\A k \in Jobs \ {f} : job'[k] = rows[k]) /\ Creates(f)
    BY <1>1, <1>4, <2>1, <2>2, <2>3, CreateMoves
  <2>5. job'[j] = rows[j]
    BY <2>2, <2>4
  <2> QED BY <1>2, <1>4, <2>1, <2>2, <2>4, <2>5 DEF CommitRows, Creates
<1> QED BY <1>5, <1>6

LEMMA CommitFits ==
  ASSUME IInv, RunInv, NEW w \in Workers, NEW j \in Jobs, NEW to \in {"succeeded", "failed"},
         NEW f \in Jobs \cup {NoJob}, NEW e \in {"none", "error"},
         ExecCommit(w, j, to, f, e)
  PROVE  FitStep
<1> DEFINE r == run[w][j]
<1>1. TypeOK /\ r \in RunState /\ Shape(r) /\ r.exec # "none"
  BY DEF IInv, TypeInv, TypeOK, RunInv, RunFits, ExecCommit
<1>2. CommitRows(j, f) /\ Mine(w, j) /\ f # j
  BY CommitRowsHold
<1>3. e \in Reason /\ (e = "lapsed" => r.abort = "lapsed")
  BY DEF Reason
<1>4. Return(w, j, e) /\ Rest(j, to)
  BY DEF ExecCommit
<1>5. scan' = [scan EXCEPT ![j] = NoRev] /\ leaseLate' = leaseLate \ {j}
  BY <1>4 DEF Rest, Terminal, Active
<1>6. scan'[j] = NoRev /\ \A k \in Jobs \ {j} : scan'[k] = scan[k]
  BY <1>1, <1>5 DEF TypeOK
<1>7. /\ run'[w][j] = Returned(r, e)
      /\ \A v \in Workers, k \in Jobs : v # w \/ k # j => run'[v][k] = run[v][k]
  BY <1>1, <1>3, <1>4, ReturnType
<1>8. job'[j].status \in Terminal /\ job'[j].status \notin Active
  BY <1>2 DEF CommitRows, Terminal, Active
<1>9. RunFits(w, j)'
  <2>1. Shape(Returned(r, e)) /\ Returned(r, e).exec \in {"none", "ret"}
    BY <1>1, <1>3, ReturnedShape
  <2>2. Shape(run[w][j])'
    BY <1>7, <2>1 DEF Shape
  <2>3. Fits(w, j, run[w][j])'
    BY <1>7, <1>8, <2>1 DEF Fits, Mine
  <2> QED BY <2>2, <2>3 DEF RunFits
<1>10. ASSUME NEW k \in Jobs \ {j}
       PROVE  ScanSeen(k) /\ \A v \in Workers : RowSeen(v, k)
  <2>1. CASE k = f
    BY <1>2, <1>6, <1>10, <2>1, CreatedSeen DEF CommitRows
  <2>2. CASE k # f
    BY <1>2, <1>5, <1>6, <2>2 DEF CommitRows, ScanSeen, RowSeen, Mine, Past
  <2> QED BY <2>1, <2>2
<1>11. ScanSeen(j)
  BY <1>6 DEF ScanSeen
<1>12. ASSUME NEW v \in Workers \ {w} PROVE RowSeen(v, j)
  BY <1>2, <1>8 DEF RowSeen, Mine, Past, Active, Terminal
<1> QED BY <1>7, <1>9, <1>10, <1>11, <1>12 DEF FitStep, RunKeeps

-----------------------------------------------------------------------------
(* Every action keeps it: the others *)

\* A step that moves no run.
LEMMA RowsOnlyFit ==
  ASSUME UNCHANGED run, \A k \in Jobs : ScanSeen(k) /\ \A v \in Workers : RowSeen(v, k)
  PROVE  FitStep
BY DEF FitStep, RunKeeps

LEMMA CreateFits ==
  ASSUME IInv, RunInv, NEW j \in Jobs, NEW source \in Nat, CanCreate(j), Create(job, j, source),
         UNCHANGED <<run, leaseLate, scan>>
  PROVE  FitStep
<1>1. TypeInv /\ job \in [Jobs -> Row] /\ job[j].status = "absent"
  BY DEF IInv, TypeInv, TypeOK, CanCreate
<1>2. (\A k \in Jobs \ {j} : job'[k] = job[k]) /\ Creates(j)
  BY <1>1, CreateMoves
<1>3. ScanSeen(j) /\ \A v \in Workers : RowSeen(v, j)
  BY <1>2, CreatedSeen DEF Creates
<1>4. OtherRows(j)
  BY <1>2 DEF OtherRows
<1> QED BY <1>3, <1>4, OtherRowsSeen, RowsOnlyFit

LEMMA RequestFits ==
  ASSUME IInv, RunInv, RequestStep
  PROVE  FitStep
<1>1. TypeOK /\ TypeInv
  BY DEF IInv, TypeInv
<1>2. CASE TurnBegin \/ TurnEnd \/ ChangeStatus \/ ChangeScope
  BY <1>2, SameRowsSeen, RowsOnlyFit DEF TurnBegin, TurnEnd, ChangeStatus, ChangeScope, rowVars
<1>3. ASSUME NEW j \in Jobs, TurnEnqueue(j) PROVE FitStep
  <2>1. NextSeq \in Nat
    BY <1>1, SequenceIsNew DEF TypeOK
  <2> QED BY <1>3, <2>1, CreateFits DEF TurnEnqueue
<1>4. ASSUME NEW j \in Jobs, Cancel(j) PROVE FitStep
  <2>1. "cancelled" \in Terminal /\ job[j].status \in Active \cup {"queued"}
    BY <1>4 DEF Cancel, Terminal, Active
  <2> QED BY <1>1, <1>4, <2>1, EndedRowSeen, RowsOnlyFit DEF Cancel
<1>5. ASSUME NEW j \in Jobs, NEW k \in Jobs, Retry(j, k) PROVE FitStep
  <2>1. origin[j] \in Nat
    BY <1>1 DEF TypeOK
  <2> QED BY <1>5, <2>1, CreateFits DEF Retry
<1> QED BY <1>2, <1>3, <1>4, <1>5 DEF RequestStep

LEMMA TimeFits ==
  ASSUME TimeStep
  PROVE  FitStep
<1>1. PICK j \in Jobs : QueueDeadlinePasses(j) \/ LeasePasses(j)
  BY DEF TimeStep
<1> QED BY <1>1, SameRowsSeen, RowsOnlyFit DEF QueueDeadlinePasses, LeasePasses

LEMMA DrainFits ==
  ASSUME IInv, RunInv, NEW w \in Workers, NEW j \in Jobs, DrainStep(w, j)
  PROVE  FitStep
<1>1. TypeOK /\ job[j] \in Row
  BY DEF IInv, TypeInv, TypeOK
<1>2. CASE Claim(w, j)
  <2>1. PICK now \in Clock : job' = [job EXCEPT ![j] = Claimed(job[j], w, now)]
    BY <1>2 DEF Claim
  <2>2. NextRevision(job[j].rev, now) \in Nat /\ NextRevision(job[j].rev, now) > job[j].rev
    BY <1>1, RevisionGrows DEF Row
  <2>3. /\ job'[j].status = "claimed" /\ job'[j].owner = w /\ job'[j].rev > job[j].rev
        /\ \A k \in Jobs \ {j} : job'[k] = job[k]
    BY <1>1, <2>1, <2>2 DEF Claimed, TypeOK, Row
  <2>4. /\ job[j].status = "queued" /\ run[w][j] = NoRun
        /\ leaseLate' = leaseLate \ {j} /\ scan' = scan
        /\ run' = [run EXCEPT ![w][j].main = "start"]
    BY <1>2 DEF Claim
  <2>5. OtherRows(j) /\ ScanSeen(j)
    BY <2>3, <2>4 DEF OtherRows, ScanSeen, Active
  <2>6. ASSUME NEW v \in Workers \ {w} PROVE RowSeen(v, j)
    BY <2>3, <2>4 DEF RowSeen, Mine, Past, Active, Terminal
  <2> DEFINE n == [NoRun EXCEPT !.main = "start"]
  <2>7. n \in RunState /\ n.main = "start" /\ n.exec = "none" /\ n.renew = "off"
        /\ n.dl = "off" /\ n.abort = "none" /\ n.err = "none"
    BY DEF NoRun, RunState, Reason
  <2>8. Set(w, j, n)
    BY <1>1, <2>4 DEF Set, TypeOK
  <2> HIDE DEF n
  <2>9. /\ run'[w][j] = n
        /\ \A v \in Workers, k \in Jobs : v # w \/ k # j => run'[v][k] = run[v][k]
    BY <1>1, <2>7, <2>8, SetType
  <2>10. RunFits(w, j)'
    <3>1. Shape(run[w][j])'
      BY <2>7, <2>9 DEF Shape
    <3>2. Fits(w, j, run[w][j])'
      BY <2>7, <2>9 DEF Fits
    <3> QED BY <3>1, <3>2 DEF RunFits
  <2> QED BY <2>5, <2>6, <2>9, <2>10, OtherRowsSeen DEF FitStep, RunKeeps
<1>3. CASE QueueTimeout(w, j)
  <2>1. "timed_out" \in Terminal
    BY DEF Terminal
  <2> QED BY <1>1, <1>3, <2>1, EndedRowSeen, RowsOnlyFit DEF QueueTimeout
<1>4. CASE RecoverScan(w, j)
  <2>1. UNCHANGED <<job, leaseLate, run>> /\ job[j].status \in Active /\ j \in leaseLate
        /\ scan' = [scan EXCEPT ![j] = job[j].rev]
    BY <1>4 DEF RecoverScan, Recoverable
  <2>2. scan'[j] = job[j].rev /\ \A k \in Jobs \ {j} : scan'[k] = scan[k]
    BY <1>1, <2>1 DEF TypeOK
  <2>3. \A k \in Jobs : ScanSeen(k) /\ \A v \in Workers : RowSeen(v, k)
    BY <2>1, <2>2 DEF ScanSeen, RowSeen, Mine, Past
  <2> QED BY <2>1, <2>3, RowsOnlyFit
<1>5. CASE Recover(w, j)
  <2>1. "orphaned" \in Terminal
    BY DEF Terminal
  <2> QED BY <1>1, <1>5, <2>1, EndedRowSeen, RowsOnlyFit DEF Recover
<1>6. CASE Prune(w, j)
  <2>1. /\ job[j].status \in Terminal /\ UNCHANGED <<run, leaseLate, scan>>
        /\ job' = [job EXCEPT ![j] = [NoRow EXCEPT !.status = "pruned"]]
    BY <1>6 DEF Prune
  <2>2. job'[j].status = "pruned" /\ \A k \in Jobs \ {j} : job'[k] = job[k]
    BY <1>1, <2>1 DEF TypeOK, NoRow
  <2>3. OtherRows(j)
    BY <2>1, <2>2 DEF OtherRows
  <2>4. scan[j] = NoRev
    BY <2>1 DEF RunInv, ScanFits, Terminal, Active
  <2>5. ScanSeen(j) /\ \A v \in Workers : RowSeen(v, j)
    BY <2>1, <2>2, <2>4 DEF ScanSeen, RowSeen, Mine, Past, Active, Terminal
  <2> QED BY <2>1, <2>3, <2>5, OtherRowsSeen, RowsOnlyFit
<1> QED BY <1>2, <1>3, <1>4, <1>5, <1>6 DEF DrainStep

LEMMA ProcessFits ==
  ASSUME IInv, RunInv, NEW w \in Workers, ProcessStep(w)
  PROVE  FitStep
<1>1. TypeOK
  BY DEF IInv, TypeInv
<1>2. UNCHANGED <<job, scan, leaseLate>>
  BY DEF ProcessStep, Close, Exit, Crash, LoseLocks, rowVars
<1>3. \A k \in Jobs : ScanSeen(k) /\ \A v \in Workers : RowSeen(v, k)
  BY <1>2, SameRowsSeen
<1>4. CASE Close(w)
  <2>1. run' = [run EXCEPT ![w] = [j \in Jobs |-> Stopped(run[w][j])]]
    BY <1>4 DEF Close
  <2>2. ASSUME NEW j \in Jobs PROVE RunFits(w, j)'
    <3> DEFINE r == run[w][j]
               n == Aborted(r, "closed")
    <3>1. r \in RunState /\ Shape(r) /\ Fits(w, j, r)
      BY <1>1 DEF TypeOK, RunInv, RunFits
    <3>2. run'[w][j] = Stopped(r)
      BY <1>1, <2>1 DEF TypeOK
    <3>3. Shape(Stopped(r)) /\ Fits(w, j, Stopped(r))
      <4>1. CASE r.main \in {"idle", "done"} \/ r.cur = "committing"
        BY <3>1, <4>1 DEF Stopped
      <4>2. CASE ~(r.main \in {"idle", "done"} \/ r.cur = "committing")
        <5>1. Stopped(r) = n
          BY <4>2 DEF Stopped
        <5>2. "closed" \in Reason
          BY DEF Reason
        <5>3. /\ n \in RunState
              /\ n.exec = r.exec /\ n.renew = r.renew /\ n.dl = r.dl /\ n.cur = r.cur
              /\ n.stopRenewing = r.stopRenewing
              /\ n.readRev = r.readRev /\ n.casRev = r.casRev
              /\ IF r.abort # "none"
                 THEN n.abort = r.abort /\ n.main = r.main /\ n.err = r.err
                 ELSE /\ n.abort = "closed"
                      /\ n.main = IF r.main = "race" THEN "catch" ELSE r.main
                      /\ n.err = IF r.main = "race" THEN "closed" ELSE r.err
          BY <3>1, <5>2, AbortedFields
        <5> HIDE DEF n
        <5>4. Shape(n)
          BY <3>1, <4>2, <5>3 DEF Shape
        <5>5. Fits(w, j, n)
          BY <3>1, <5>3 DEF Fits
        <5> QED BY <5>1, <5>4, <5>5
      <4> QED BY <4>1, <4>2
    <3>4. Shape(run[w][j])'
      BY <3>2, <3>3 DEF Shape
    <3>5. Fits(w, j, run[w][j])'
      BY <1>2, <3>2, <3>3 DEF Fits, Mine, Past
    <3> QED BY <3>4, <3>5 DEF RunFits
  <2>3. \A v \in Workers \ {w}, k \in Jobs : run'[v][k] = run[v][k]
    BY <1>1, <2>1 DEF TypeOK
  <2> QED BY <1>3, <2>2, <2>3 DEF FitStep, RunKeeps
<1>5. CASE Exit(w)
  BY <1>3, <1>5, RowsOnlyFit DEF Exit
<1>6. CASE Crash(w)
  <2>1. run' = [run EXCEPT ![w] = [j \in Jobs |-> NoRun]]
    BY <1>6 DEF Crash
  <2>2. /\ \A k \in Jobs : run'[w][k] = NoRun
        /\ \A v \in Workers \ {w}, k \in Jobs : run'[v][k] = run[v][k]
    BY <1>1, <2>1 DEF TypeOK
  <2> QED BY <1>3, <2>2, NoRunFits DEF FitStep, RunKeeps
<1>7. ASSUME NEW j \in Jobs, LoseLocks(w, j) PROVE FitStep
  BY <1>3, <1>7, RowsOnlyFit DEF LoseLocks
<1> QED BY <1>4, <1>5, <1>6, <1>7 DEF ProcessStep

LEMMA NextFits ==
  ASSUME IInv, RunInv, [Next]_vars
  PROVE  FitStep
<1>1. CASE UNCHANGED vars
  BY <1>1, SameRowsSeen, RowsOnlyFit DEF vars
<1>2. ASSUME NEW w \in Workers, NEW j \in Jobs, RunStep(w, j) PROVE FitStep
  BY <1>2, StartFits, RenewFits, DeadlineFits, SettleFits DEF RunStep
<1>3. ASSUME NEW w \in Workers, NEW j \in Jobs, ExecStep(w, j) PROVE FitStep
  BY <1>3, ExecFits, BarrierCasFits, CommitFits DEF ExecStep
<1> QED BY <1>1, <1>2, <1>3, RequestFits, TimeFits, ProcessFits, DrainFits DEF Next

LEMMA InitFits == Init => RunInv
<1> SUFFICES ASSUME Init PROVE RunInv
  OBVIOUS
<1>1. /\ NoRun.main = "idle" /\ NoRun.exec = "none" /\ NoRun.renew = "off"
      /\ NoRun.dl = "off" /\ NoRun.abort = "none" /\ NoRun.err = "none"
  BY DEF NoRun
<1>2. ASSUME NEW w \in Workers, NEW j \in Jobs PROVE RunFits(w, j)
  <2>1. run[w][j] = NoRun
    BY DEF Init
  <2>2. Shape(run[w][j])
    BY <1>1, <2>1 DEF Shape
  <2>3. Fits(w, j, run[w][j])
    BY <1>1, <2>1 DEF Fits
  <2> QED BY <2>2, <2>3 DEF RunFits
<1>3. \A j \in Jobs : ScanFits(j)
  BY DEF Init, ScanFits
<1> QED BY <1>2, <1>3 DEF RunInv

LEMMA RunInvariance == Spec => [](IInv /\ RunInv)
<1>1. Init => IInv /\ RunInv
  BY InitInvariant, InitFits
<1>2. IInv /\ RunInv /\ [Next]_vars => (IInv /\ RunInv)'
  <2> SUFFICES ASSUME IInv, RunInv, [Next]_vars PROVE IInv' /\ RunInv'
    OBVIOUS
  <2>1. IInv' /\ TypeOK /\ TypeOK'
    BY StepInvariant DEF IInv, TypeInv
  <2> QED BY <2>1, NextFits, FitStepKeeps
<1> QED BY <1>1, <1>2, PTL DEF Spec

-----------------------------------------------------------------------------
(* What the second invariant says of the queue and of recovery *)

\* A job in the queue has no execution left on any worker, so the next claim
\* never meets the one a shutdown handed back (Requeue waits for the execution
\* to unwind); no assumption on the locks is needed.
THEOREM QuietQueue == Spec => []QueuedIsQuiet
<1>1. RunInv => QueuedIsQuiet
  BY DEF RunInv, RunFits, Fits, Mine, Past, Active, Terminal, QueuedIsQuiet
<1> QED BY <1>1, RunInvariance, PTL

OrphanedLate ==
  \A j \in Jobs : job[j].status # "orphaned" /\ job'[j].status = "orphaned" => j \in leaseLate

LEMMA NoOrphanMoved ==
  ASSUME TypeOK, NEW j \in Jobs, NEW to \in Status \ {"orphaned"}, Transition(j, to)
  PROVE  OrphanedLate
<1>1. Moves(j, to)
  BY TransitionMoves
<1> QED BY <1>1 DEF OrphanedLate, Moves

LEMMA NoOrphanCreated ==
  ASSUME TypeInv, NEW j \in Jobs, NEW source \in Nat, CanCreate(j), Create(job, j, source)
  PROVE  OrphanedLate
<1>1. job \in [Jobs -> Row] /\ job[j].status = "absent"
  BY DEF TypeInv, TypeOK, CanCreate
<1>2. (\A k \in Jobs \ {j} : job'[k] = job[k]) /\ Creates(j)
  BY <1>1, CreateMoves
<1> QED BY <1>2 DEF OrphanedLate, Creates

LEMMA OrphanStep ==
  ASSUME IInv, RunInv, [Next]_vars
  PROVE  OrphanedLate
<1>1. TypeOK /\ TypeInv
  BY DEF IInv, TypeInv
<1>2. ASSUME UNCHANGED job PROVE OrphanedLate
  BY <1>2 DEF OrphanedLate
<1>3. {"queued", "timed_out", "cancelled", "running", "committing", "failed", "stale"}
        \subseteq Status \ {"orphaned"}
  BY DEF Status, Active, Terminal
<1>4. CASE UNCHANGED vars
  BY <1>2, <1>4 DEF vars
<1>5. CASE RequestStep
  <2>1. ASSUME NEW j \in Jobs, TurnEnqueue(j) PROVE OrphanedLate
    <3>1. NextSeq \in Nat
      BY <1>1, SequenceIsNew DEF TypeOK
    <3> QED BY <1>1, <2>1, <3>1, NoOrphanCreated DEF TurnEnqueue
  <2>2. ASSUME NEW j \in Jobs, NEW k \in Jobs, Retry(j, k) PROVE OrphanedLate
    <3>1. origin[j] \in Nat
      BY <1>1 DEF TypeOK
    <3> QED BY <1>1, <2>2, <3>1, NoOrphanCreated DEF Retry
  <2>3. ASSUME NEW j \in Jobs, Cancel(j) PROVE OrphanedLate
    BY <1>1, <1>3, <2>3, NoOrphanMoved DEF Cancel
  <2>4. CASE TurnBegin \/ TurnEnd \/ ChangeStatus \/ ChangeScope
    BY <1>2, <2>4 DEF TurnBegin, TurnEnd, ChangeStatus, ChangeScope, rowVars
  <2> QED BY <1>5, <2>1, <2>2, <2>3, <2>4 DEF RequestStep
<1>6. CASE TimeStep
  BY <1>2, <1>6 DEF TimeStep, QueueDeadlinePasses, LeasePasses
<1>7. ASSUME NEW w \in Workers, ProcessStep(w) PROVE OrphanedLate
  BY <1>2, <1>7 DEF ProcessStep, Close, Exit, Crash, LoseLocks, rowVars
<1>8. ASSUME NEW w \in Workers, NEW j \in Jobs, DrainStep(w, j) PROVE OrphanedLate
  <2>1. CASE Claim(w, j)
    <3>1. PICK now \in Clock : job' = [job EXCEPT ![j] = Claimed(job[j], w, now)]
      BY <2>1 DEF Claim
    <3>2. job'[j].status = "claimed" /\ \A k \in Jobs \ {j} : job'[k] = job[k]
      BY <1>1, <3>1 DEF Claimed, TypeOK, Row
    <3> QED BY <3>2 DEF OrphanedLate
  <2>2. CASE QueueTimeout(w, j)
    BY <1>1, <1>3, <2>2, NoOrphanMoved DEF QueueTimeout
  <2>3. CASE RecoverScan(w, j)
    BY <1>2, <2>3 DEF RecoverScan
  <2>4. CASE Recover(w, j)
    <3>1. Transition(j, "orphaned") /\ "orphaned" \in Status
      BY <2>4 DEF Recover, Status, Terminal
    <3>2. Moves(j, "orphaned")
      BY <1>1, <3>1, TransitionMoves
    <3>3. j \in leaseLate
      BY <2>4 DEF Recover, ScanCurrent, RunInv, ScanFits
    <3> QED BY <3>2, <3>3 DEF Moves, OrphanedLate
  <2>5. CASE Prune(w, j)
    <3>1. job' = [job EXCEPT ![j] = [NoRow EXCEPT !.status = "pruned"]]
      BY <2>5 DEF Prune
    <3>2. job'[j].status = "pruned" /\ \A k \in Jobs \ {j} : job'[k] = job[k]
      BY <1>1, <3>1 DEF TypeOK, NoRow
    <3> QED BY <3>2 DEF OrphanedLate
  <2> QED BY <1>8, <2>1, <2>2, <2>3, <2>4, <2>5 DEF DrainStep
<1>9. ASSUME NEW w \in Workers, NEW j \in Jobs, RunStep(w, j) PROVE OrphanedLate
  <2>1. CASE Start(w, j) \/ StartFails(w, j)
    BY <1>1, <1>2, <1>3, <2>1, NoOrphanMoved DEF Start, StartFails
  <2>2. CASE RenewRead(w, j) \/ RenewError(w, j) \/ DeadlineFires(w, j)
             \/ Check(w, j) \/ Catch(w, j) \/ SettleFails(w, j)
    BY <1>2, <2>2 DEF RenewRead, RenewError, DeadlineFires, Check, Catch, SettleFails, rowVars
  <2>3. CASE RenewCas(w, j)
    <3>1. CASE Exists(j) /\ job[j].rev = run[w][j].readRev
      <4>1. PICK now \in Clock : job' = [job EXCEPT ![j].rev = NextRevision(@, now)]
        BY <2>3, <3>1 DEF RenewCas
      <4>2. job'[j].status = job[j].status /\ \A k \in Jobs \ {j} : job'[k] = job[k]
        BY <1>1, <4>1 DEF TypeOK, Row
      <4> QED BY <4>2 DEF OrphanedLate
    <3>2. CASE ~(Exists(j) /\ job[j].rev = run[w][j].readRev)
      BY <1>2, <2>3, <3>2 DEF RenewCas
    <3> QED BY <3>1, <3>2
  <2>4. ASSUME NEW reported \in BOOLEAN, DeadlineSettles(w, j, reported) PROVE OrphanedLate
    BY <1>1, <1>2, <1>3, <2>4, NoOrphanMoved DEF DeadlineSettles
  <2>5. CASE Requeue(w, j)
    BY <1>1, <1>2, <1>3, <2>5, NoOrphanMoved DEF Requeue
  <2>6. CASE Settle(w, j)
    <3> DEFINE e == run[w][j].err
    <3>1. CASE Holds(w, j, Active, Outcome(e))
      <4>1. Transition(j, Outcome(e))
        BY <2>6, <3>1 DEF Settle
      <4>2. CASE e = "lapsed"
        <5>1. run[w][j].abort = "lapsed"
          BY <4>2 DEF RunInv, RunFits, Shape
        <5>2. j \in leaseLate
          BY <3>1, <5>1 DEF RunInv, RunFits, Fits, Mine, Holds
        <5>3. Outcome(e) = "orphaned" /\ "orphaned" \in Status
          BY <4>2 DEF Outcome, Status, Terminal
        <5>4. Moves(j, "orphaned")
          BY <1>1, <4>1, <5>3, TransitionMoves
        <5> QED BY <5>2, <5>4 DEF Moves, OrphanedLate
      <4>3. CASE e # "lapsed"
        <5>1. Outcome(e) \in {"stale", "failed"}
          BY <4>3 DEF Outcome
        <5> QED BY <1>1, <1>3, <4>1, <5>1, NoOrphanMoved
      <4> QED BY <4>2, <4>3
    <3>2. CASE ~Holds(w, j, Active, Outcome(e))
      BY <1>2, <2>6, <3>2 DEF Settle
    <3> QED BY <3>1, <3>2
  <2> QED BY <1>9, <2>1, <2>2, <2>3, <2>4, <2>5, <2>6 DEF RunStep
<1>10. ASSUME NEW w \in Workers, NEW j \in Jobs, ExecStep(w, j) PROVE OrphanedLate
  <2>1. CASE ExecBarrierCas(w, j)
    BY <1>1, <1>2, <1>3, <2>1, NoOrphanMoved DEF ExecBarrierCas
  <2>2. ASSUME NEW to \in {"succeeded", "failed"}, NEW f \in Jobs \cup {NoJob},
               NEW e \in {"none", "error"}, ExecCommit(w, j, to, f, e)
        PROVE  OrphanedLate
    <3>1. CommitRows(j, f)
      BY <2>2, CommitRowsHold
    <3> QED BY <3>1 DEF CommitRows, OrphanedLate
  <2>3. CASE \/ ExecAdmit(w, j) \/ ExecLock(w, j) \/ ExecLockTimeout(w, j)
             \/ ExecAuthorize(w, j) \/ ExecFinish(w, j) \/ ExecFail(w, j)
             \/ ExecGiveUp(w, j) \/ ExecConnectionGone(w, j) \/ ExecCommitLock(w, j)
             \/ ExecBarrierRead(w, j) \/ ExecMark(w, j) \/ ExecMarkFails(w, j)
             \/ ExecRollback(w, j)
    BY <1>2, <2>3
       DEF ExecAdmit, ExecLock, ExecLockTimeout, ExecAuthorize, ExecFinish, ExecFail,
           ExecGiveUp, ExecConnectionGone, ExecCommitLock, ExecBarrierRead, ExecMark,
           ExecMarkFails, ExecRollback, rowVars
  <2> QED BY <1>10, <2>1, <2>2, <2>3 DEF ExecStep
<1> QED BY <1>4, <1>5, <1>6, <1>7, <1>8, <1>9, <1>10 DEF Next

\* Recovery acts on a snapshot (recoverExpiredRuntimeJobs), and a worker on what
\* its renewal told it; still a job is only ever orphaned while its lease is
\* lapsed.
THEOREM OrphansLapsed == Spec => OrphanOnlyLapsed
<1>1. IInv /\ RunInv /\ [Next]_vars => [OrphanedLate]_vars
  BY OrphanStep
<1> QED BY <1>1, RunInvariance, PTL DEF Spec, OrphanOnlyLapsed, OrphanedLate

-----------------------------------------------------------------------------
(* The third invariant: what the locks add, when no lock connection is lost *)

\* A run (w, j) in state r past the runtime lock holds it; one past the commit
\* lock holds that too, in a session that still admits its job; one on its way
\* through the transaction still owns its row; and a run was told stale only
\* if the session changed after its job was enqueued, or if it lost the row.
Holding(w, j, r) ==
  /\ r.exec \in {"pre", "call", "fin", "barrier", "cas", "mark", "tx"}
       => rtLock[RuntimeOf[j]] = <<w, j>>
  /\ r.exec \in {"barrier", "cas", "mark", "tx"}
       => sessLock = <<w, j>> /\ (Exists(j) => Admitted(j))
  /\ r.exec \in {"mark", "tx"} /\ r.abort = "none" => Mine(w, j)
  /\ (r.abort = "stale" \/ r.err = "stale") /\ Mine(w, j) => changes > born[j]

LockFits(w, j) == Holding(w, j, run[w][j])

\* The session admits a job enqueued after its last change.
BirthFits(j) ==
  job[j].status # "absent" =>
    /\ born[j] <= changes
    /\ Exists(j) /\ born[j] = changes => Admitted(j)

TurnIsActive == sessLock = Turn => session.active

LocksInv ==
  /\ \A w \in Workers, j \in Jobs : LockFits(w, j)
  /\ \A j \in Jobs : BirthFits(j)
  /\ TurnIsActive
  /\ StaleOnlyAfterChange

\* What a step leaves to the lock holder (v, k).
LockSeen(v, k) ==
  /\ rtLock[RuntimeOf[k]] = <<v, k>> => rtLock'[RuntimeOf[k]] = <<v, k>>
  /\ sessLock = <<v, k>> => sessLock' = <<v, k>> /\ session' = session
  /\ Exists(k)' => (Exists(k) /\ job'[k].gen = job[k].gen) \/ run[v][k] = NoRun
  /\ sessLock = <<v, k>> /\ Mine(v, k) /\ job[k].status = "committing" => Mine(v, k)'
  /\ Mine(v, k)' => Mine(v, k) /\ born'[k] = born[k]

\* What it leaves to the row k: the row of an enqueued job keeps its birth, and
\* a new one is born in the session as it is.
BirthSeen(k) ==
  \/ job'[k].status = "absent"
  \/ /\ job[k].status # "absent" /\ born'[k] = born[k]
     /\ Exists(k)' => Exists(k) /\ job'[k].gen = job[k].gen
     /\ changes' = changes => session' = session
     /\ job'[k].status = "stale" => job[k].status = "stale" \/ changes > born[k]
  \/ born'[k] = changes /\ changes' = changes /\ Admitted(k)' /\ job'[k].status = "queued"

LockKeeps(v, k) ==
  \/ run'[v][k] = run[v][k] /\ LockSeen(v, k)
  \/ LockFits(v, k)'

LockStep ==
  /\ \A v \in Workers, k \in Jobs : LockKeeps(v, k)
  /\ \A k \in Jobs : BirthSeen(k)
  /\ changes <= changes'
  /\ TurnIsActive'

LEMMA NoRunHolds ==
  ASSUME NEW w \in Workers, NEW j \in Jobs
  PROVE  Holding(w, j, NoRun) /\ (run'[w][j] = NoRun => LockFits(w, j)')
<1>1. NoRun.exec = "none" /\ NoRun.abort = "none" /\ NoRun.err = "none"
  BY DEF NoRun
<1>2. Holding(w, j, NoRun)
  BY <1>1 DEF Holding
<1>3. ASSUME run'[w][j] = NoRun PROVE LockFits(w, j)'
  <2>1. Holding(w, j, run[w][j])'
    BY <1>1, <1>3 DEF Holding
  <2> QED BY <2>1 DEF LockFits
<1> QED BY <1>2, <1>3

LEMMA LockStepKeeps ==
  ASSUME TypeOK, TypeOK', RunInv, LocksInv, LockStep
  PROVE  LocksInv'
<1>1. changes \in Nat /\ changes' \in Nat /\ changes <= changes'
  BY DEF TypeOK, LockStep
<1>2. ASSUME NEW v \in Workers, NEW k \in Jobs PROVE LockFits(v, k)'
  <2>1. LockFits(v, k) /\ LockKeeps(v, k)
    BY DEF LocksInv, LockStep
  <2>2. CASE run'[v][k] = run[v][k] /\ LockSeen(v, k)
    <3>1. CASE run[v][k] = NoRun
      BY <2>2, <3>1, NoRunHolds
    <3>2. CASE run[v][k] # NoRun
      <4> DEFINE r == run[v][k]
      <4>1. Holding(v, k, r) /\ r' = r
        BY <2>1, <2>2 DEF LockFits
      <4>2. born[k] \in Nat /\ born'[k] \in Nat
        BY DEF TypeOK
      <4>3. r.exec \in {"mark", "tx"} /\ Mine(v, k) => job[k].status = "committing"
        BY DEF RunInv, RunFits, Fits
      <4>4. ASSUME r.exec \in {"barrier", "cas", "mark", "tx"}
            PROVE  sessLock' = <<v, k>> /\ (Exists(k)' => Admitted(k)')
        BY <2>2, <3>2, <4>1, <4>4 DEF Holding, LockSeen, Admitted
      <4>5. ASSUME r.exec \in {"mark", "tx"}, r.abort = "none" PROVE Mine(v, k)'
        BY <2>2, <4>1, <4>3, <4>5 DEF Holding, LockSeen
      <4>6. ASSUME r.abort = "stale" \/ r.err = "stale", Mine(v, k)' PROVE changes' > born'[k]
        BY <1>1, <2>2, <4>1, <4>2, <4>6 DEF Holding, LockSeen
      <4>7. r.exec \in {"pre", "call", "fin", "barrier", "cas", "mark", "tx"}
              => rtLock'[RuntimeOf[k]] = <<v, k>>
        BY <2>2, <4>1 DEF Holding, LockSeen
      <4>8. Holding(v, k, run[v][k])'
        BY <4>1, <4>4, <4>5, <4>6, <4>7 DEF Holding
      <4> QED BY <4>8 DEF LockFits
    <3> QED BY <3>1, <3>2
  <2> QED BY <2>1, <2>2 DEF LockKeeps
<1>3. ASSUME NEW k \in Jobs
      PROVE  BirthFits(k)' /\ (job'[k].status = "stale" => changes' > born'[k])
  <2>1. BirthFits(k) /\ BirthSeen(k) /\ (job[k].status = "stale" => changes > born[k])
    BY DEF LocksInv, LockStep, StaleOnlyAfterChange
  <2>2. born[k] \in Nat /\ born'[k] \in Nat
    BY DEF TypeOK
  <2>3. CASE job'[k].status = "absent"
    BY <2>3 DEF BirthFits
  <2>4. CASE /\ job[k].status # "absent" /\ born'[k] = born[k]
             /\ Exists(k)' => Exists(k) /\ job'[k].gen = job[k].gen
             /\ changes' = changes => session' = session
             /\ job'[k].status = "stale" => job[k].status = "stale" \/ changes > born[k]
    <3>1. born[k] <= changes /\ (Exists(k) /\ born[k] = changes => Admitted(k))
      BY <2>1, <2>4 DEF BirthFits
    <3>2. born'[k] <= changes'
      BY <1>1, <2>2, <2>4, <3>1
    <3>3. Exists(k)' /\ born'[k] = changes' => Admitted(k)'
      BY <1>1, <2>2, <2>4, <3>1 DEF Admitted
    <3>4. job'[k].status = "stale" => changes' > born'[k]
      BY <1>1, <2>1, <2>2, <2>4
    <3> QED BY <3>2, <3>3, <3>4 DEF BirthFits
  <2>5. CASE born'[k] = changes /\ changes' = changes /\ Admitted(k)' /\ job'[k].status = "queued"
    BY <1>1, <2>5 DEF BirthFits
  <2> QED BY <2>1, <2>3, <2>4, <2>5 DEF BirthSeen
<1> QED BY <1>2, <1>3 DEF LocksInv, LockStep, StaleOnlyAfterChange

-----------------------------------------------------------------------------
(* What each kind of step means to the lock holders *)

\* Nothing the locks protect changes.
LEMMA SameSeen ==
  ASSUME TypeOK, UNCHANGED <<job, session, changes, born>>
  PROVE  /\ \A k \in Jobs : BirthSeen(k)
         /\ changes <= changes'
         /\ \A v \in Workers, k \in Jobs :
              /\ rtLock[RuntimeOf[k]] = <<v, k>> => rtLock'[RuntimeOf[k]] = <<v, k>>
              /\ sessLock = <<v, k>> => sessLock' = <<v, k>>
              => LockSeen(v, k)
<1>1. \A k \in Jobs : Exists(k)' <=> Exists(k)
  BY DEF Exists
<1>2. ASSUME NEW k \in Jobs PROVE BirthSeen(k)
  BY <1>1 DEF BirthSeen
<1>3. changes <= changes'
  BY DEF TypeOK
<1> QED BY <1>1, <1>2, <1>3 DEF LockSeen, Mine

LEMMA SetLocks ==
  ASSUME TypeOK, LocksInv, NEW w \in Workers, NEW j \in Jobs, NEW n \in RunState, Set(w, j, n),
         Holding(w, j, n), UNCHANGED <<job, sessLock, rtLock, session, changes, born>>
  PROVE  LockStep
<1>1. /\ run'[w][j] = n
      /\ \A v \in Workers, k \in Jobs : v # w \/ k # j => run'[v][k] = run[v][k]
  BY SetType
<1>2. /\ \A k \in Jobs : BirthSeen(k) /\ changes <= changes'
      /\ \A v \in Workers, k \in Jobs : LockSeen(v, k)
  BY SameSeen
<1>3. changes <= changes'
  BY DEF TypeOK
<1>4. LockFits(w, j)'
  <2>1. Holding(w, j, run[w][j])'
    BY <1>1 DEF Holding, Mine, Exists, Admitted
  <2> QED BY <2>1 DEF LockFits
<1>5. TurnIsActive'
  BY DEF LocksInv, TurnIsActive
<1> QED BY <1>1, <1>2, <1>3, <1>4, <1>5 DEF LockStep, LockKeeps

\* Returning frees only the locks of the run that returns.
LEMMA ReturnFrees ==
  ASSUME TypeOK, NEW w \in Workers, NEW j \in Jobs, NEW e \in Reason, Return(w, j, e)
  PROVE  /\ \A v \in Workers, k \in Jobs : v # w \/ k # j =>
              /\ run'[v][k] = run[v][k]
              /\ rtLock[RuntimeOf[k]] = <<v, k>> => rtLock'[RuntimeOf[k]] = <<v, k>>
              /\ sessLock = <<v, k>> => sessLock' = <<v, k>>
         /\ sessLock' = Turn => sessLock = Turn
<1>1. \A v \in Workers, k \in Jobs : v # w \/ k # j => run'[v][k] = run[v][k]
  BY ReturnType
<1>2. /\ sessLock' = IF sessLock = <<w, j>> THEN NoHolder ELSE sessLock
      /\ rtLock' = [r \in Runtimes |-> IF rtLock[r] = <<w, j>> THEN NoHolder ELSE rtLock[r]]
  BY DEF Return
<1>3. \A k \in Jobs : RuntimeOf[k] \in Runtimes
  BY ConstantsAssumption
<1>4. Turn # NoHolder
  BY ConstantsAssumption
<1> QED BY <1>1, <1>2, <1>3, <1>4

\* The run record of an execution that returned holds nothing.
LEMMA ReturnedHolds ==
  ASSUME TypeOK, RunInv, LocksInv, NEW w \in Workers, NEW j \in Jobs, NEW e \in Reason,
         run[w][j].exec # "none", e = "lapsed" => run[w][j].abort = "lapsed",
         e = "stale" /\ Mine(w, j) => changes > born[j]
  PROVE  Holding(w, j, Returned(run[w][j], e))
<1> DEFINE r == run[w][j]
<1>1. r \in RunState /\ Shape(r) /\ Holding(w, j, r)
  BY DEF TypeOK, RunInv, RunFits, LocksInv, LockFits
<1>2. /\ Returned(r, e).exec \in {"none", "ret"}
      /\ Returned(r, e).abort \in {"none", r.abort}
  BY <1>1, ReturnedShape
<1>3. Returned(r, e).err \in {"none", e, r.err}
  <2>1. CASE r.main = "done"
    BY <2>1 DEF Returned, NoRun
  <2>2. CASE r.main # "done"
    <3>1. Returned(r, e) = [r EXCEPT !.exec = "ret",
                                     !.main = IF @ # "race" THEN @
                                              ELSE IF e = "none" THEN "check" ELSE "catch",
                                     !.err = IF r.main = "race" THEN e ELSE @]
      BY <2>2 DEF Returned
    <3> QED BY <1>1, <3>1 DEF RunState
  <2> QED BY <2>1, <2>2
<1> QED BY <1>1, <1>2, <1>3 DEF Holding

LEMMA ReturnLocks ==
  ASSUME TypeOK, RunInv, LocksInv, NEW w \in Workers, NEW j \in Jobs, NEW e \in Reason,
         Return(w, j, e), run[w][j].exec # "none", e = "lapsed" => run[w][j].abort = "lapsed",
         e = "stale" /\ Mine(w, j) => changes > born[j],
         UNCHANGED <<job, session, changes, born>>
  PROVE  LockStep
<1> DEFINE n == Returned(run[w][j], e)
<1>1. /\ \A v \in Workers, k \in Jobs : v # w \/ k # j =>
              /\ run'[v][k] = run[v][k]
              /\ rtLock[RuntimeOf[k]] = <<v, k>> => rtLock'[RuntimeOf[k]] = <<v, k>>
              /\ sessLock = <<v, k>> => sessLock' = <<v, k>>
      /\ sessLock' = Turn => sessLock = Turn
  BY ReturnFrees
<1>2. /\ \A k \in Jobs : BirthSeen(k)
      /\ changes <= changes'
      /\ \A v \in Workers, k \in Jobs : v # w \/ k # j => LockSeen(v, k)
  BY <1>1, SameSeen
<1>3. run'[w][j] = n
  BY ReturnType
<1>4. LockFits(w, j)'
  <2>1. Holding(w, j, n)
    BY ReturnedHolds
  <2>2. n.exec \in {"none", "ret"}
    <3>1. run[w][j] \in RunState /\ Shape(run[w][j])
      BY DEF TypeOK, RunInv, RunFits
    <3> QED BY <3>1, ReturnedShape
  <2> HIDE DEF n
  <2>3. Holding(w, j, run[w][j])'
    BY <1>3, <2>1, <2>2 DEF Holding, Mine
  <2> QED BY <2>3 DEF LockFits
<1>5. TurnIsActive'
  BY <1>1 DEF LocksInv, TurnIsActive
<1> QED BY <1>1, <1>2, <1>4, <1>5 DEF LockStep, LockKeeps

\* Writing the row of j, its status apart, keeps what it was born with.
KeepsRow(j) ==
  /\ Exists(j)' => Exists(j) /\ job'[j].gen = job[j].gen
  /\ job[j].status # "absent"
  /\ \A k \in Jobs \ {j} : job'[k] = job[k]

\* One row is written and the locks, the session and the births stay.
LEMMA RowWriteSeen ==
  ASSUME TypeOK, NEW j \in Jobs, KeepsRow(j),
         UNCHANGED <<sessLock, rtLock, session, changes, born>>,
         job'[j].status = "stale" => job[j].status = "stale" \/ changes > born[j]
  PROVE  /\ \A k \in Jobs : BirthSeen(k)
         /\ changes <= changes'
         /\ \A v \in Workers :
              /\ \A k \in Jobs \ {j} : LockSeen(v, k)
              /\ (~Mine(v, j) \/ sessLock # <<v, j>> \/ job[j].status # "committing")
                   /\ ~Mine(v, j)' => LockSeen(v, j)
         /\ TurnIsActive => TurnIsActive'
<1>1. \A k \in Jobs : Exists(k)' => Exists(k) /\ job'[k].gen = job[k].gen
  BY DEF KeepsRow, Exists
<1>2. ASSUME NEW k \in Jobs PROVE BirthSeen(k)
  BY <1>1 DEF KeepsRow, BirthSeen
<1>3. changes <= changes' /\ (TurnIsActive => TurnIsActive')
  BY DEF TypeOK, TurnIsActive
<1>4. ASSUME NEW v \in Workers, NEW k \in Jobs \ {j} PROVE LockSeen(v, k)
  BY <1>1 DEF KeepsRow, LockSeen, Mine
<1>5. ASSUME NEW v \in Workers, ~Mine(v, j)',
             ~Mine(v, j) \/ sessLock # <<v, j>> \/ job[j].status # "committing"
      PROVE  LockSeen(v, j)
  BY <1>1, <1>5 DEF KeepsRow, LockSeen
<1> QED BY <1>2, <1>3, <1>4, <1>5

LEMMA TransitionKeepsRow ==
  ASSUME TypeOK, NEW j \in Jobs, NEW to \in Status, Transition(j, to), Exists(j)
  PROVE  KeepsRow(j)
<1>1. Moves(j, to)
  BY TransitionMoves
<1>2. PICK now \in Clock : job' = [job EXCEPT ![j] = Moved(job[j], to, now)]
  BY DEF Transition
<1>3. job'[j].gen = job[j].gen
  BY <1>2 DEF Moved, TypeOK, Row
<1> QED BY <1>1, <1>3 DEF Moves, KeepsRow, Exists, Absent

\* A job ended by somebody who does not own it: not one in its transaction.
LEMMA EndedLocks ==
  ASSUME TypeOK, LocksInv, NEW j \in Jobs, NEW to \in Terminal \ {"stale"}, Transition(j, to),
         Exists(j), job[j].status = "committing" => sessLock = NoHolder,
         UNCHANGED <<run, sessLock, rtLock, session, changes, born>>
  PROVE  LockStep
<1>1. to \in Status /\ to \notin Active
  BY DEF Status, Terminal, Active
<1>2. KeepsRow(j) /\ Moves(j, to)
  BY <1>1, TransitionKeepsRow, TransitionMoves
<1>3. ASSUME NEW v \in Workers
      PROVE  /\ ~(sessLock = <<v, j>> /\ job[j].status = "committing")
             /\ ~Mine(v, j)'
  <2>1. <<v, j>> # NoHolder
    BY ConstantsAssumption DEF Runs
  <2> QED BY <1>1, <1>2, <2>1 DEF Moves, Mine
<1>4. /\ \A k \in Jobs : BirthSeen(k)
      /\ changes <= changes'
      /\ \A v \in Workers, k \in Jobs : LockSeen(v, k)
      /\ TurnIsActive'
  <2>1. job'[j].status # "stale"
    BY <1>2 DEF Moves
  <2>2. TurnIsActive
    BY DEF LocksInv
  <2> QED BY <1>2, <1>3, <2>1, <2>2, RowWriteSeen
<1> QED BY <1>4 DEF LockStep, LockKeeps

\* A worker's own transition, with the new state n of its run.
MoveHolds(w, j, n, to) ==
  /\ n.exec \in {"pre", "call", "fin", "barrier", "cas", "mark", "tx"}
       => rtLock[RuntimeOf[j]] = <<w, j>>
  /\ n.exec \in {"barrier", "cas", "mark", "tx"} => sessLock = <<w, j>> /\ Admitted(j)
  /\ n.exec \in {"mark", "tx"} /\ n.abort = "none" => to \in Active
  /\ (n.abort = "stale" \/ n.err = "stale") /\ to \in Active => changes > born[j]
  /\ to = "stale" => changes > born[j]

LEMMA HoldsLocks ==
  ASSUME TypeOK, LocksInv, NEW w \in Workers, NEW j \in Jobs, NEW from \in SUBSET Active,
         NEW to \in Status, NEW n \in RunState,
         Holds(w, j, from, to), Transition(j, to), Set(w, j, n), MoveHolds(w, j, n, to),
         UNCHANGED <<sessLock, rtLock, session, changes, born>>
  PROVE  LockStep
<1>1. /\ run'[w][j] = n
      /\ \A v \in Workers, k \in Jobs : v # w \/ k # j => run'[v][k] = run[v][k]
  BY SetType
<1>2. Mine(w, j) /\ Exists(j)
  BY DEF Holds, Mine, Exists, Active, Absent
<1>3. KeepsRow(j) /\ Moves(j, to)
  BY <1>2, TransitionKeepsRow, TransitionMoves
<1>4. ASSUME NEW v \in Workers \ {w} PROVE ~Mine(v, j) /\ ~Mine(v, j)'
  BY <1>2, <1>3, ConstantsAssumption DEF Mine, Moves, Active
<1>5. /\ \A k \in Jobs : BirthSeen(k)
      /\ changes <= changes'
      /\ \A v \in Workers, k \in Jobs : v # w \/ k # j => LockSeen(v, k)
      /\ TurnIsActive'
  <2>1. job'[j].status = "stale" => changes > born[j]
    BY <1>3 DEF Moves, MoveHolds
  <2>2. TurnIsActive
    BY DEF LocksInv
  <2> QED BY <1>3, <1>4, <2>1, <2>2, RowWriteSeen
<1>6. LockFits(w, j)'
  <2>1. job'[j].status = to /\ (to \in Active => job'[j].owner = w)
    BY <1>2, <1>3 DEF Moves, Mine, Active
  <2>2. Admitted(j) => (Exists(j)' => Admitted(j)')
    BY <1>3 DEF KeepsRow, Admitted
  <2>3. Holding(w, j, run[w][j])'
    BY <1>1, <2>1, <2>2 DEF Holding, MoveHolds, Mine
  <2> QED BY <2>3 DEF LockFits
<1> QED BY <1>1, <1>5, <1>6 DEF LockStep, LockKeeps

-----------------------------------------------------------------------------
(* Every action keeps it, while no lock connection is lost *)

LEMMA StartLocks ==
  ASSUME IInv, RunInv, LocksInv, NEW w \in Workers, NEW j \in Jobs,
         Start(w, j) \/ StartFails(w, j)
  PROVE  LockStep
<1> DEFINE r == run[w][j]
<1>1. TypeOK /\ r \in RunState /\ Shape(r) /\ Holding(w, j, r) /\ r.main = "start"
  BY DEF IInv, TypeInv, TypeOK, RunInv, RunFits, LocksInv, LockFits, Start, StartFails
<1>2. r.exec = "none" /\ r.err = "none" /\ r.abort \in {"none", "closed"}
  BY <1>1 DEF Shape
<1>3. UNCHANGED <<sessLock, rtLock, session, changes, born>>
  BY DEF Start, StartFails, lockVars, sessionVars, histVars
<1>4. "running" \in Status /\ {"claimed"} \in SUBSET Active /\ "running" # "stale"
  BY DEF Status, Active
<1>5. ASSUME NEW n \in RunState, n.exec \in {"none", "admit"}, n.abort # "stale",
             n.err # "stale"
      PROVE  Holding(w, j, n) /\ MoveHolds(w, j, n, "running")
  BY <1>5 DEF Holding, MoveHolds
<1>6. ASSUME NEW n \in RunState, Set(w, j, n), UNCHANGED job, Holding(w, j, n)
      PROVE  LockStep
  BY <1>1, <1>3, <1>6, SetLocks
<1>7. ASSUME NEW n \in RunState, Set(w, j, n), MoveHolds(w, j, n, "running"),
             Holds(w, j, {"claimed"}, "running"), Transition(j, "running")
      PROVE  LockStep
  BY <1>1, <1>3, <1>4, <1>7, HoldsLocks
<1>8. ASSUME NEW x \in Reason \ {"stale"}
      PROVE  LET n == [r EXCEPT !.main = "catch", !.err = x] IN
             n \in RunState /\ n.exec = "none" /\ n.abort # "stale" /\ n.err # "stale"
  BY <1>1, <1>2 DEF RunState
<1>9. CASE Start(w, j)
  <2>1. CASE r.abort # "none"
    <3>1. r.abort \in Reason \ {"stale"}
      BY <1>1, <1>2 DEF RunState
    <3> DEFINE n == [r EXCEPT !.main = "catch", !.err = r.abort]
    <3>2. n \in RunState /\ n.exec = "none" /\ n.abort # "stale" /\ n.err # "stale"
      BY <1>8, <3>1
    <3>3. Set(w, j, n) /\ UNCHANGED job
      BY <1>9, <2>1 DEF Start
    <3> HIDE DEF n
    <3> QED BY <1>5, <1>6, <3>2, <3>3
  <2>2. CASE r.abort = "none" /\ Holds(w, j, {"claimed"}, "running")
    <3> DEFINE d == IF j \in ExecTimed THEN "timer" ELSE "off"
               n == [r EXCEPT !.main = "race", !.exec = "admit", !.cur = "running",
                              !.renew = "timer", !.dl = d]
    <3>1. d \in {"off", "timer", "fired"}
      OBVIOUS
    <3>2. Set(w, j, n) /\ Transition(j, "running")
      BY <1>9, <2>2 DEF Start
    <3> HIDE DEF d
    <3>3. /\ n \in RunState /\ n.exec = "admit" /\ n.abort = "none" /\ n.err = "none"
      BY <1>1, <1>2, <2>2, <3>1 DEF RunState
    <3> HIDE DEF n
    <3> QED BY <1>5, <1>7, <2>2, <3>2, <3>3
  <2>3. CASE r.abort = "none" /\ ~Holds(w, j, {"claimed"}, "running")
    <3>1. Left(r) \in RunState /\ Left(r).exec = "none" /\ Left(r).abort # "stale"
          /\ Left(r).err # "stale"
      BY <1>1, <1>2, LeftShape
    <3>2. Set(w, j, Left(r)) /\ UNCHANGED job
      BY <1>9, <2>3 DEF Start
    <3> QED BY <1>5, <1>6, <3>1, <3>2
  <2> QED BY <2>1, <2>2, <2>3
<1>10. CASE StartFails(w, j)
  <2> DEFINE n == [r EXCEPT !.main = "catch", !.err = "error"]
  <2>1. n \in RunState /\ n.exec = "none" /\ n.abort # "stale" /\ n.err # "stale"
    <3>1. "error" \in Reason \ {"stale"}
      BY DEF Reason
    <3> QED BY <1>8, <3>1
  <2>2. Set(w, j, n)
    BY <1>10 DEF StartFails
  <2> HIDE DEF n
  <2>3. Holding(w, j, n) /\ MoveHolds(w, j, n, "running")
    BY <1>5, <2>1
  <2> QED BY <1>6, <1>7, <1>10, <2>1, <2>2, <2>3 DEF StartFails
<1> QED BY <1>9, <1>10

LEMMA RenewLocks ==
  ASSUME IInv, RunInv, LocksInv, NEW w \in Workers, NEW j \in Jobs,
         RenewRead(w, j) \/ RenewCas(w, j) \/ RenewError(w, j)
  PROVE  LockStep
<1> DEFINE r == run[w][j]
<1>1. /\ TypeOK /\ r \in RunState /\ job[j] \in Row /\ Shape(r) /\ Fits(w, j, r)
      /\ Holding(w, j, r) /\ r.renew \in {"timer", "read"}
  BY DEF IInv, TypeInv, TypeOK, RunInv, RunFits, LocksInv, LockFits,
         RenewRead, RenewCas, RenewError
<1>2. r.exec \notin {"cas", "mark", "tx"}
  BY <1>1 DEF Shape
<1>3. UNCHANGED <<sessLock, rtLock, session, changes, born>>
  BY DEF RenewRead, RenewCas, RenewError, lockVars, sessionVars, histVars
<1>4. "stale" \in Reason /\ "lapsed" \in Reason
  BY DEF Reason
\* The new record: its renewal fields apart, r or r aborted.
<1>5. ASSUME NEW q \in {r, Aborted(r, "stale"), Aborted(r, "lapsed")},
             q = Aborted(r, "stale") => ~Mine(w, j)
      PROVE  /\ q \in RunState /\ q.exec = r.exec
             /\ \A n \in RunState : n.exec = q.exec /\ n.abort = q.abort /\ n.err = q.err
                  => Holding(w, j, n)
  <2>1. /\ q \in RunState /\ q.exec = r.exec
        /\ q.abort = "stale" \/ q.err = "stale" =>
             ~Mine(w, j) \/ r.abort = "stale" \/ r.err = "stale"
    <3>1. CASE q = r
      BY <1>1, <3>1
    <3>2. CASE q = Aborted(r, "stale")
      BY <1>1, <1>4, <1>5, <3>2, AbortedFields
    <3>3. CASE q = Aborted(r, "lapsed")
      BY <1>1, <1>4, <3>3, AbortedFields
    <3> QED BY <3>1, <3>2, <3>3
  <2>2. ASSUME NEW n \in RunState, n.exec = q.exec, n.abort = q.abort, n.err = q.err
        PROVE  Holding(w, j, n)
    BY <1>1, <1>2, <2>1, <2>2 DEF Holding
  <2> QED BY <2>1, <2>2
<1>6. ASSUME NEW q \in {r, Aborted(r, "stale"), Aborted(r, "lapsed")},
             q = Aborted(r, "stale") => ~Mine(w, j),
             NEW n \in RunState, n.exec = q.exec, n.abort = q.abort, n.err = q.err,
             Set(w, j, n), UNCHANGED job
      PROVE  LockStep
  <2>1. Holding(w, j, n)
    BY <1>5, <1>6
  <2> QED BY <1>1, <1>3, <1>6, <2>1, SetLocks
<1>7. ASSUME NEW q \in RunState, NEW x \in Nat, NEW y \in {"off", "timer", "read"},
             NEW s \in BOOLEAN
      PROVE  LET n == [q EXCEPT !.readRev = x, !.renew = y, !.stopRenewing = s]
                 m == [q EXCEPT !.readRev = x, !.renew = y]
                 p == [q EXCEPT !.renew = y, !.readRev = x]
                 o == [q EXCEPT !.renew = y, !.stopRenewing = s]
             IN  /\ n \in RunState /\ n.exec = q.exec /\ n.abort = q.abort /\ n.err = q.err
                 /\ m \in RunState /\ m.exec = q.exec /\ m.abort = q.abort /\ m.err = q.err
                 /\ p \in RunState /\ p.exec = q.exec /\ p.abort = q.abort /\ p.err = q.err
                 /\ o \in RunState /\ o.exec = q.exec /\ o.abort = q.abort /\ o.err = q.err
  BY DEF RunState
<1>8. /\ 0 \in Nat /\ TRUE \in BOOLEAN /\ job[j].rev \in Nat
      /\ "off" \in {"off", "timer", "read"} /\ "read" \in {"off", "timer", "read"}
  BY <1>1 DEF Row
<1>9. r \in {r, Aborted(r, "stale"), Aborted(r, "lapsed")}
      /\ Aborted(r, "stale") \in {r, Aborted(r, "stale"), Aborted(r, "lapsed")}
      /\ Aborted(r, "lapsed") \in {r, Aborted(r, "stale"), Aborted(r, "lapsed")}
      /\ Aborted(r, "stale") \in RunState /\ Aborted(r, "lapsed") \in RunState
  BY <1>1, <1>4, AbortedFields
<1>10. CASE RenewRead(w, j)
  <2>1. CASE Mine(w, j)
    <3> DEFINE n == [r EXCEPT !.renew = "read", !.readRev = job[j].rev]
    <3>1. Set(w, j, n) /\ UNCHANGED job
      BY <1>10, <2>1 DEF RenewRead, Mine, rowVars
    <3>2. n \in RunState /\ n.exec = r.exec /\ n.abort = r.abort /\ n.err = r.err
      BY <1>1, <1>7, <1>8
    <3> HIDE DEF n
    <3>3. Holding(w, j, n)
      BY <1>1, <3>2 DEF Holding
    <3> QED BY <1>1, <1>3, <3>1, <3>2, <3>3, SetLocks
  <2>2. CASE ~Mine(w, j)
    <3> DEFINE q == Aborted(r, "stale")
               n == [q EXCEPT !.renew = "off", !.stopRenewing = TRUE]
    <3>1. Set(w, j, n) /\ UNCHANGED job
      BY <1>10, <2>2 DEF RenewRead, Mine, rowVars
    <3>2. n \in RunState /\ n.exec = q.exec /\ n.abort = q.abort /\ n.err = q.err
      <4> HIDE DEF q
      <4>1. q \in RunState
        BY <1>9 DEF q
      <4> QED BY <1>7, <1>8, <4>1
    <3> HIDE DEF n
    <3> QED BY <1>6, <1>9, <2>2, <3>1, <3>2
  <2> QED BY <2>1, <2>2
<1>11. CASE RenewCas(w, j)
  <2>1. CASE Exists(j) /\ job[j].rev = r.readRev
    <3>1. PICK now \in Clock : job' = [job EXCEPT ![j].rev = NextRevision(@, now)]
      BY <1>11, <2>1 DEF RenewCas
    <3>2. Mine(w, j)
      BY <1>11, <2>1 DEF RenewCas, IInv, RenewalReadIsCurrent, Mine
    <3>3. /\ job'[j].status = job[j].status /\ job'[j].owner = job[j].owner
          /\ job'[j].gen = job[j].gen
          /\ \A k \in Jobs \ {j} : job'[k] = job[k]
      BY <1>1, <3>1 DEF TypeOK, Row
    <3>4. KeepsRow(j) /\ (Exists(j)' <=> Exists(j))
      BY <3>2, <3>3 DEF KeepsRow, Exists, Mine, Active
    <3>5. \A v \in Workers \ {w} : ~Mine(v, j) /\ ~Mine(v, j)'
      BY <3>2, <3>3 DEF Mine
    <3>6. /\ \A k \in Jobs : BirthSeen(k)
          /\ changes <= changes'
          /\ \A v \in Workers, k \in Jobs : v # w \/ k # j => LockSeen(v, k)
          /\ TurnIsActive'
      <4>1. TurnIsActive
        BY DEF LocksInv
      <4> QED BY <1>1, <1>3, <3>3, <3>4, <3>5, <4>1, RowWriteSeen
    <3> DEFINE x == IF r.stopRenewing THEN "off" ELSE "timer"
               n == [r EXCEPT !.readRev = 0, !.renew = x]
    <3>7. Set(w, j, n) /\ x \in {"off", "timer", "read"}
      BY <1>11, <2>1 DEF RenewCas
    <3>8. n \in RunState /\ n.exec = r.exec /\ n.abort = r.abort /\ n.err = r.err
      <4> HIDE DEF x
      <4> QED BY <1>1, <3>7 DEF RunState
    <3> HIDE DEF n
    <3>9. /\ run'[w][j] = n
          /\ \A v \in Workers, k \in Jobs : v # w \/ k # j => run'[v][k] = run[v][k]
      BY <1>1, <3>7, <3>8, SetType
    <3>10. LockFits(w, j)'
      <4>1. (Mine(w, j)' <=> Mine(w, j)) /\ (Admitted(j)' <=> Admitted(j))
        BY <1>3, <3>3 DEF Mine, Admitted
      <4>2. Holding(w, j, run[w][j])'
        BY <1>1, <1>3, <3>4, <3>8, <3>9, <4>1 DEF Holding
      <4> QED BY <4>2 DEF LockFits
    <3> QED BY <3>6, <3>9, <3>10 DEF LockStep, LockKeeps
  <2>2. CASE ~(Exists(j) /\ job[j].rev = r.readRev)
    <3> DEFINE q == IF r.stopRenewing THEN r ELSE Aborted(r, "stale")
               n == [q EXCEPT !.readRev = 0, !.renew = "off", !.stopRenewing = TRUE]
    <3>1. Set(w, j, n) /\ UNCHANGED job
      BY <1>11, <2>2 DEF RenewCas
    <3>2. ~Mine(w, j)
      BY <1>1, <1>11, <2>2 DEF RenewCas, Fits, Mine, Exists, Active, Absent
    <3>3. q \in RunState /\ q \in {r, Aborted(r, "stale"), Aborted(r, "lapsed")}
      BY <1>1, <1>9
    <3>4. n \in RunState /\ n.exec = q.exec /\ n.abort = q.abort /\ n.err = q.err
      <4> HIDE DEF q
      <4> QED BY <3>3 DEF RunState
    <3> HIDE DEF n, q
    <3> QED BY <1>6, <3>1, <3>2, <3>3, <3>4
  <2> QED BY <2>1, <2>2
<1>12. CASE RenewError(w, j)
  <2>1. UNCHANGED job
    BY <1>12 DEF RenewError, rowVars
  <2>2. CASE r.stopRenewing \/ j \notin leaseLate
    <3> DEFINE x == IF r.stopRenewing THEN "off" ELSE "timer"
               n == [r EXCEPT !.readRev = 0, !.renew = x]
    <3>1. Set(w, j, n) /\ x \in {"off", "timer", "read"}
      BY <1>12, <2>2 DEF RenewError
    <3>2. n \in RunState /\ n.exec = r.exec /\ n.abort = r.abort /\ n.err = r.err
      <4> HIDE DEF x
      <4> QED BY <1>1, <3>1 DEF RunState
    <3> HIDE DEF n
    <3>3. Holding(w, j, n)
      BY <1>1, <3>2 DEF Holding
    <3> QED BY <1>1, <1>3, <2>1, <3>1, <3>2, <3>3, SetLocks
  <2>3. CASE ~r.stopRenewing /\ j \in leaseLate
    <3> DEFINE q == Aborted(r, "lapsed")
               n == [q EXCEPT !.readRev = 0, !.renew = "off", !.stopRenewing = TRUE]
    <3>1. Set(w, j, n)
      BY <1>12, <2>3 DEF RenewError
    <3>2. n \in RunState /\ n.exec = q.exec /\ n.abort = q.abort /\ n.err = q.err
      <4>1. q \in RunState
        BY <1>9
      <4> HIDE DEF q
      <4> QED BY <4>1 DEF RunState
    <3>3. q = Aborted(r, "stale") => ~Mine(w, j) \/ q = r
      <4>1. ASSUME q = Aborted(r, "stale"), q # r PROVE FALSE
        <5>1. r.abort = "none"
          BY <4>1 DEF Aborted
        <5>2. Aborted(r, "lapsed").abort = "lapsed" /\ Aborted(r, "stale").abort = "stale"
          BY <1>1, <1>4, <5>1, AbortedFields
        <5> QED BY <4>1, <5>2
      <4> QED BY <4>1
    <3>4. Holding(w, j, n)
      <4>1. CASE q = r
        <5> HIDE DEF n, q
        <5> QED BY <1>1, <3>2, <4>1 DEF Holding
      <4>2. CASE q # r
        <5> HIDE DEF n
        <5> QED BY <1>5, <1>9, <3>2, <3>3, <4>2
      <4> QED BY <4>1, <4>2
    <3> HIDE DEF n, q
    <3> QED BY <1>1, <1>3, <2>1, <3>1, <3>2, <3>4, SetLocks
  <2> QED BY <2>2, <2>3
<1> QED BY <1>10, <1>11, <1>12

LEMMA DeadlineLocks ==
  ASSUME IInv, RunInv, LocksInv, NEW w \in Workers, NEW j \in Jobs,
         DeadlineFires(w, j) \/ \E reported \in BOOLEAN : DeadlineSettles(w, j, reported)
  PROVE  LockStep
<1> DEFINE r == run[w][j]
<1>1. TypeOK /\ r \in RunState /\ Shape(r) /\ Fits(w, j, r) /\ Holding(w, j, r)
  BY DEF IInv, TypeInv, TypeOK, RunInv, RunFits, LocksInv, LockFits
<1>2. UNCHANGED <<sessLock, rtLock, session, changes, born>>
  BY DEF DeadlineFires, DeadlineSettles, lockVars, sessionVars, histVars
<1>3. ASSUME NEW n \in RunState, n.exec = r.exec, n.abort = r.abort, n.err = r.err,
             Set(w, j, n), UNCHANGED job
      PROVE  LockStep
  <2>1. Holding(w, j, n)
    BY <1>1, <1>3 DEF Holding
  <2> QED BY <1>1, <1>2, <1>3, <2>1, SetLocks
<1>4. CASE DeadlineFires(w, j)
  <2> DEFINE q == RenewalStopped(r)
             n == [q EXCEPT !.dl = "fired"]
  <2>1. Set(w, j, n) /\ UNCHANGED job
    BY <1>4 DEF DeadlineFires, rowVars
  <2>2. q \in RunState /\ q.exec = r.exec /\ q.abort = r.abort /\ q.err = r.err
    BY <1>1, StoppedShape
  <2>3. n \in RunState /\ n.exec = r.exec /\ n.abort = r.abort /\ n.err = r.err
    <3> HIDE DEF q
    <3> QED BY <2>2 DEF RunState
  <2> HIDE DEF n
  <2> QED BY <1>3, <2>1, <2>3
<1>5. ASSUME NEW reported \in BOOLEAN, DeadlineSettles(w, j, reported) PROVE LockStep
  <2>1. CASE Holds(w, j, {"running"}, "timed_out")
    <3> DEFINE q == IF reported THEN Aborted(r, "timeout") ELSE r
               n == [q EXCEPT !.dl = "off"]
    <3>1. Transition(j, "timed_out") /\ Set(w, j, n)
      BY <1>5, <2>1 DEF DeadlineSettles
    <3>2. "timed_out" \in Status /\ "timed_out" \notin Active /\ {"running"} \in SUBSET Active
      BY DEF Status, Active, Terminal
    <3>3. Mine(w, j) /\ job[j].status = "running" /\ Exists(j)
      BY <2>1 DEF Holds, Mine, Active, Exists, Absent
    <3>4. r.exec \notin {"mark", "tx"}
      BY <1>1, <3>3 DEF Fits
    <3>5. q \in RunState /\ q.exec = r.exec
      <4>1. "timeout" \in Reason
        BY DEF Reason
      <4> QED BY <1>1, <4>1, AbortedFields
    <3>6. n \in RunState /\ n.exec = r.exec
      <4> HIDE DEF q
      <4> QED BY <3>5 DEF RunState
    <3> HIDE DEF n, q
    <3>7. MoveHolds(w, j, n, "timed_out")
      BY <1>1, <3>2, <3>3, <3>4, <3>6 DEF MoveHolds, Holding
    <3> QED BY <1>1, <1>2, <2>1, <3>1, <3>2, <3>6, <3>7, HoldsLocks
  <2>2. CASE ~Holds(w, j, {"running"}, "timed_out")
    <3> DEFINE n == [r EXCEPT !.dl = "off"]
    <3>1. Set(w, j, n) /\ UNCHANGED job
      BY <1>5, <2>2 DEF DeadlineSettles
    <3>2. n \in RunState /\ n.exec = r.exec /\ n.abort = r.abort /\ n.err = r.err
      BY <1>1 DEF RunState
    <3> HIDE DEF n
    <3> QED BY <1>3, <3>1, <3>2
  <2> QED BY <2>1, <2>2
<1> QED BY <1>4, <1>5

LEMMA SettleLocks ==
  ASSUME IInv, RunInv, LocksInv, NEW w \in Workers, NEW j \in Jobs,
         Check(w, j) \/ Catch(w, j) \/ Settle(w, j) \/ Requeue(w, j) \/ SettleFails(w, j)
  PROVE  LockStep
<1> DEFINE r == run[w][j]
<1>1. TypeOK /\ r \in RunState /\ Shape(r) /\ Fits(w, j, r) /\ Holding(w, j, r)
  BY DEF IInv, TypeInv, TypeOK, RunInv, RunFits, LocksInv, LockFits
<1>2. UNCHANGED <<sessLock, rtLock, session, changes, born>>
  BY DEF Check, Catch, Settle, Requeue, SettleFails, lockVars, sessionVars, histVars
<1>3. /\ Left(r) \in RunState /\ Left(r).exec \in {"none", r.exec}
      /\ Left(r).abort \in {"none", r.abort} /\ Left(r).err \in {"none", r.err}
      /\ Left(r).exec # "none" => Left(r).abort = r.abort
      /\ r.exec \in {"none", "ret"} => Left(r).exec = "none"
  <2>1. r.main # "race"
    BY DEF Check, Catch, Settle, Requeue, SettleFails
  <2> QED BY <1>1, <2>1, LeftShape
<1>4. Holding(w, j, Left(r))
  BY <1>1, <1>3 DEF Holding
<1>5. ASSUME Set(w, j, Left(r)), UNCHANGED job PROVE LockStep
  BY <1>1, <1>2, <1>3, <1>4, <1>5, SetLocks
<1>6. ASSUME NEW n \in RunState, n.exec = r.exec, n.abort = r.abort,
             n.err \in {"error", r.err}, Set(w, j, n), UNCHANGED job
      PROVE  LockStep
  <2>1. Holding(w, j, n)
    BY <1>1, <1>6 DEF Holding
  <2> QED BY <1>1, <1>2, <1>6, <2>1, SetLocks
<1>7. CASE Check(w, j)
  <2> DEFINE n == [r EXCEPT !.main = "catch", !.err = "error"]
  <2>1. UNCHANGED job /\ (Set(w, j, Left(r)) \/ Set(w, j, n))
    BY <1>7 DEF Check, rowVars
  <2>2. n \in RunState /\ n.exec = r.exec /\ n.abort = r.abort /\ n.err = "error"
    <3>1. "error" \in Reason
      BY DEF Reason
    <3> QED BY <1>1, <3>1 DEF RunState
  <2> HIDE DEF n
  <2> QED BY <1>5, <1>6, <2>1, <2>2
<1>8. CASE Catch(w, j)
  <2> DEFINE q == RenewalStopped(r)
             n(m) == [q EXCEPT !.dl = "off", !.main = m]
  <2>1. UNCHANGED job /\ (Set(w, j, Left(r)) \/ \E m \in {"settle", "requeue"} : Set(w, j, n(m)))
    BY <1>8 DEF Catch, rowVars
  <2>2. ASSUME NEW m \in {"settle", "requeue"}
        PROVE  n(m) \in RunState /\ n(m).exec = r.exec /\ n(m).abort = r.abort /\ n(m).err = r.err
    <3>1. q \in RunState /\ q.exec = r.exec /\ q.abort = r.abort /\ q.err = r.err
      BY <1>1, StoppedShape
    <3> HIDE DEF q
    <3> QED BY <3>1 DEF RunState
  <2> HIDE DEF n
  <2> QED BY <1>5, <1>6, <2>1, <2>2
\* The end runOne writes: stale only for a run that was told so.
<1>9. ASSUME NEW to \in Status \ Active, to = "stale" => r.err = "stale",
             Holds(w, j, Active, to), Transition(j, to), Set(w, j, Left(r))
      PROVE  LockStep
  <2>1. Mine(w, j) /\ Exists(j) /\ r.main # "race"
    BY <1>9 DEF Holds, Mine, Active, Exists, Absent, Check, Catch, Settle, Requeue, SettleFails
  <2>2. r.exec \in {"mark", "tx"} => r.abort # "none"
    BY <1>1, <2>1 DEF Shape
  <2>3. MoveHolds(w, j, Left(r), to)
    BY <1>1, <1>3, <1>9, <2>1, <2>2 DEF MoveHolds, Holding
  <2>4. Active \in SUBSET Active
    OBVIOUS
  <2> QED BY <1>1, <1>2, <1>3, <1>9, <2>3, <2>4, HoldsLocks
<1>10. CASE Settle(w, j)
  <2>1. /\ Outcome(r.err) \in Status \ Active
        /\ Outcome(r.err) = "stale" => r.err = "stale"
    BY DEF Outcome, Status, Terminal, Active
  <2>2. CASE Holds(w, j, Active, Outcome(r.err))
    BY <1>9, <1>10, <2>1, <2>2 DEF Settle
  <2>3. CASE ~Holds(w, j, Active, Outcome(r.err))
    BY <1>5, <1>10, <2>3 DEF Settle
  <2> QED BY <2>2, <2>3
<1>11. CASE Requeue(w, j)
  <2>1. "queued" \in Status \ Active
    BY DEF Status, Active
  <2>2. CASE Holds(w, j, Active, "queued")
    BY <1>9, <1>11, <2>1, <2>2 DEF Requeue
  <2>3. CASE ~Holds(w, j, Active, "queued")
    BY <1>5, <1>11, <2>3 DEF Requeue
  <2> QED BY <2>2, <2>3
<1>12. CASE SettleFails(w, j)
  BY <1>5, <1>12 DEF SettleFails, rowVars
<1> QED BY <1>7, <1>8, <1>10, <1>11, <1>12

\* A run that finds its session no longer admitting the job it owns.
LEMMA NotAdmittedChanged ==
  ASSUME TypeOK, LocksInv, NEW w \in Workers, NEW j \in Jobs, ~Admitted(j), Mine(w, j)
  PROVE  changes > born[j]
<1>1. Exists(j) /\ job[j].status # "absent" /\ BirthFits(j)
  BY DEF LocksInv, Mine, Active, Exists, Absent
<1>2. born[j] \in Nat /\ changes \in Nat
  BY DEF TypeOK
<1> QED BY <1>1, <1>2 DEF BirthFits

\* An execution takes a lock that is free: nobody else's hold is touched.
LEMMA AcquireLocks ==
  ASSUME TypeOK, LocksInv, NEW w \in Workers, NEW j \in Jobs, NEW n \in RunState, Set(w, j, n),
         UNCHANGED <<job, session, changes, born>>,
         (n.abort = "stale" \/ n.err = "stale") /\ Mine(w, j) => changes > born[j],
         \/ /\ n.exec = "pre" /\ sessLock' = sessLock
            /\ RuntimeLockFree(j) /\ rtLock' = [rtLock EXCEPT ![RuntimeOf[j]] = <<w, j>>]
         \/ /\ n.exec = "barrier" /\ rtLock' = rtLock
            /\ NestedAcquire(w, j) /\ sessLock' = <<w, j>> /\ Admitted(j)
  PROVE  LockStep
<1>1. /\ run'[w][j] = n
      /\ \A v \in Workers, k \in Jobs : v # w \/ k # j => run'[v][k] = run[v][k]
  BY SetType
<1>2. \A v \in Workers, k \in Jobs : <<v, k>> # NoHolder /\ <<v, k>> # Turn
  BY ConstantsAssumption DEF Runs
<1>3. \A k \in Jobs : RuntimeOf[k] \in Runtimes
  BY ConstantsAssumption
<1>4. /\ \A v \in Workers, k \in Jobs :
           /\ rtLock[RuntimeOf[k]] = <<v, k>> => rtLock'[RuntimeOf[k]] = <<v, k>>
           /\ sessLock = <<v, k>> => sessLock' = <<v, k>>
      /\ sessLock' = Turn => sessLock = Turn
  BY <1>2, <1>3 DEF RuntimeLockFree, NestedAcquire, TypeOK
<1>5. /\ \A k \in Jobs : BirthSeen(k)
      /\ changes <= changes'
      /\ \A v \in Workers, k \in Jobs : LockSeen(v, k)
  BY <1>4, SameSeen
<1>6. LockFits(w, j)'
  <2>1. rtLock'[RuntimeOf[j]] = <<w, j>>
    BY <1>3 DEF NestedAcquire, TypeOK
  <2>2. Holding(w, j, run[w][j])'
    BY <1>1, <2>1 DEF Holding, Mine, Exists, Admitted
  <2> QED BY <2>2 DEF LockFits
<1>7. TurnIsActive'
  BY <1>4 DEF LocksInv, TurnIsActive
<1> QED BY <1>1, <1>5, <1>6, <1>7 DEF LockStep, LockKeeps

\* The execution up to the commit barrier, and the steps that end it.
LEMMA ExecLocks ==
  ASSUME IInv, RunInv, LocksInv, NEW w \in Workers, NEW j \in Jobs,
         \/ ExecAdmit(w, j) \/ ExecLock(w, j) \/ ExecLockTimeout(w, j)
         \/ ExecAuthorize(w, j) \/ ExecFinish(w, j) \/ ExecFail(w, j)
         \/ ExecGiveUp(w, j) \/ ExecConnectionGone(w, j) \/ ExecCommitLock(w, j)
         \/ ExecBarrierRead(w, j) \/ ExecMark(w, j) \/ ExecMarkFails(w, j)
         \/ ExecRollback(w, j)
  PROVE  LockStep
<1> DEFINE r == run[w][j]
<1>1. TypeOK /\ r \in RunState /\ Shape(r) /\ Fits(w, j, r) /\ Holding(w, j, r)
  BY DEF IInv, TypeInv, TypeOK, RunInv, RunFits, LocksInv, LockFits
<1>2. r.exec \notin {"none", "ret"} /\ UNCHANGED <<job, session, changes, born>>
  BY DEF ExecAdmit, ExecLock, ExecLockTimeout, ExecAuthorize, ExecFinish, ExecFail,
         ExecGiveUp, ExecConnectionGone, ExecCommitLock, ExecBarrierRead, ExecMark,
         ExecMarkFails, ExecRollback, rowVars, sessionVars, histVars
<1>3. r.abort \in Reason /\ "stale" \in Reason /\ "error" \in Reason
  BY <1>1 DEF RunState, Reason
<1>4. ASSUME NEW e \in {r.abort, "error"}, Return(w, j, e) PROVE LockStep
  <2>1. /\ e \in Reason /\ (e = "lapsed" => r.abort = "lapsed")
        /\ e = "stale" /\ Mine(w, j) => changes > born[j]
    BY <1>1, <1>3, <1>4 DEF Holding
  <2> QED BY <1>1, <1>2, <1>4, <2>1, ReturnLocks
\* Told that the job is stale: the session changed, or the row was taken.
<1>5. ASSUME Return(w, j, "stale"), ~Admitted(j) \/ ~Mine(w, j) PROVE LockStep
  <2>1. Mine(w, j) => changes > born[j]
    BY <1>1, <1>5, NotAdmittedChanged
  <2> QED BY <1>1, <1>2, <1>3, <1>5, <2>1, ReturnLocks
<1>6. ASSUME NEW n \in RunState, Set(w, j, n), Holding(w, j, n), UNCHANGED lockVars
      PROVE  LockStep
  BY <1>1, <1>2, <1>6, SetLocks DEF lockVars
<1>7. ASSUME Mine(w, j), r.exec \in {"pre", "barrier"} PROVE job[j].status = "running"
  BY <1>1, <1>7 DEF Fits
<1>8. CASE ExecAdmit(w, j)
  <2>1. CASE Admitted(j)
    <3> DEFINE n == [r EXCEPT !.exec = "lock"]
    <3>1. Set(w, j, n) /\ UNCHANGED lockVars
      BY <1>8, <2>1 DEF ExecAdmit
    <3>2. n \in RunState /\ n.exec = "lock" /\ n.abort = r.abort /\ n.err = r.err
      BY <1>1 DEF RunState
    <3> HIDE DEF n
    <3>3. Holding(w, j, n)
      BY <1>1, <3>2 DEF Holding
    <3> QED BY <1>6, <3>1, <3>2, <3>3
  <2>2. CASE ~Admitted(j)
    BY <1>5, <1>8, <2>2 DEF ExecAdmit
  <2> QED BY <2>1, <2>2
<1>9. CASE ExecLock(w, j)
  <2>1. CASE r.abort # "none"
    BY <1>4, <1>9, <2>1 DEF ExecLock
  <2>2. CASE r.abort = "none"
    <3> DEFINE n == [r EXCEPT !.exec = "pre"]
    <3>1. /\ Set(w, j, n) /\ RuntimeLockFree(j) /\ sessLock' = sessLock
          /\ rtLock' = [rtLock EXCEPT ![RuntimeOf[j]] = <<w, j>>]
      BY <1>9, <2>2 DEF ExecLock
    <3>2. n \in RunState /\ n.exec = "pre" /\ n.abort = r.abort /\ n.err = r.err
      BY <1>1 DEF RunState
    <3> HIDE DEF n
    <3>3. (n.abort = "stale" \/ n.err = "stale") /\ Mine(w, j) => changes > born[j]
      BY <1>1, <3>2 DEF Holding
    <3> QED BY <1>1, <1>2, <3>1, <3>2, <3>3, AcquireLocks
  <2> QED BY <2>1, <2>2
<1>10. CASE ExecLockTimeout(w, j) \/ ExecFail(w, j) \/ ExecConnectionGone(w, j)
             \/ ExecMarkFails(w, j) \/ ExecRollback(w, j)
  BY <1>4, <1>10
     DEF ExecLockTimeout, ExecFail, ExecConnectionGone, ExecMarkFails, ExecRollback
<1>11. CASE ExecGiveUp(w, j)
  BY <1>4, <1>11 DEF ExecGiveUp
<1>12. CASE ExecAuthorize(w, j)
  <2>1. r.exec = "pre"
    BY <1>12 DEF ExecAuthorize
  <2>2. CASE r.abort # "none"
    BY <1>4, <1>12, <2>2 DEF ExecAuthorize
  <2>3. CASE r.abort = "none" /\ Admitted(j) /\ Mine(w, j)
    <3> DEFINE n == [r EXCEPT !.exec = "call"]
    <3>1. Set(w, j, n) /\ UNCHANGED lockVars
      BY <1>7, <1>12, <2>1, <2>3 DEF ExecAuthorize, Mine
    <3>2. n \in RunState /\ n.exec = "call" /\ n.abort = r.abort /\ n.err = r.err
      BY <1>1 DEF RunState
    <3> HIDE DEF n
    <3>3. Holding(w, j, n)
      BY <1>1, <2>1, <3>2 DEF Holding
    <3> QED BY <1>6, <3>1, <3>2, <3>3
  <2>4. CASE r.abort = "none" /\ ~(Admitted(j) /\ Mine(w, j))
    <3>1. Return(w, j, "stale")
      BY <1>12, <2>4 DEF ExecAuthorize, Mine, Active
    <3> QED BY <1>5, <2>4, <3>1
  <2> QED BY <2>2, <2>3, <2>4
<1>13. CASE ExecFinish(w, j)
  <2> DEFINE d == IF r.dl = "timer" THEN "off" ELSE r.dl
             n == [r EXCEPT !.exec = "fin", !.dl = d]
  <2>1. /\ Set(w, j, n) /\ r.exec = "call" /\ d \in {"off", "timer", "fired"}
        /\ UNCHANGED lockVars
    BY <1>1, <1>13 DEF ExecFinish, RunState
  <2> HIDE DEF d
  <2>2. n \in RunState /\ n.exec = "fin" /\ n.abort = r.abort /\ n.err = r.err
    BY <1>1, <2>1 DEF RunState
  <2> HIDE DEF n
  <2>3. Holding(w, j, n)
    BY <1>1, <2>1, <2>2 DEF Holding
  <2> QED BY <1>6, <2>1, <2>2, <2>3
<1>14. CASE ExecCommitLock(w, j)
  <2>1. CASE r.abort # "none"
    BY <1>4, <1>14, <2>1 DEF ExecCommitLock
  <2>2. CASE r.abort = "none" /\ ~StillAdmitted(j)
    BY <1>5, <1>14, <2>2 DEF ExecCommitLock, StillAdmitted
  <2>3. CASE r.abort = "none" /\ StillAdmitted(j)
    <3> DEFINE q == RenewalStopped(r)
               n == [q EXCEPT !.exec = "barrier"]
    <3>1. /\ Set(w, j, n) /\ NestedAcquire(w, j) /\ sessLock' = <<w, j>> /\ rtLock' = rtLock
          /\ Admitted(j)
      BY <1>14, <2>3 DEF ExecCommitLock, StillAdmitted
    <3>2. q \in RunState /\ q.abort = r.abort /\ q.err = r.err
      BY <1>1, StoppedShape
    <3>3. n \in RunState /\ n.exec = "barrier" /\ n.abort = r.abort /\ n.err = r.err
      <4> HIDE DEF q
      <4> QED BY <3>2 DEF RunState
    <3> HIDE DEF n
    <3>4. (n.abort = "stale" \/ n.err = "stale") /\ Mine(w, j) => changes > born[j]
      BY <1>1, <3>3 DEF Holding
    <3> QED BY <1>1, <1>2, <3>1, <3>3, <3>4, AcquireLocks
  <2> QED BY <2>1, <2>2, <2>3
<1>15. CASE ExecBarrierRead(w, j)
  <2>1. r.exec = "barrier"
    BY <1>15 DEF ExecBarrierRead
  <2>2. CASE r.abort # "none"
    BY <1>4, <1>15, <2>2 DEF ExecBarrierRead
  <2>3. CASE r.abort = "none" /\ Holds(w, j, {"running"}, "committing")
    <3> DEFINE n == [r EXCEPT !.exec = "cas", !.casRev = job[j].rev]
    <3>1. Set(w, j, n) /\ UNCHANGED lockVars
      BY <1>15, <2>3 DEF ExecBarrierRead
    <3>2. n \in RunState /\ n.exec = "cas" /\ n.abort = r.abort /\ n.err = r.err
      BY <1>1 DEF RunState, TypeOK, Row
    <3> HIDE DEF n
    <3>3. Holding(w, j, n)
      BY <1>1, <2>1, <3>2 DEF Holding
    <3> QED BY <1>6, <3>1, <3>2, <3>3
  <2>4. CASE r.abort = "none" /\ ~Holds(w, j, {"running"}, "committing")
    <3>1. Return(w, j, "stale")
      BY <1>15, <2>4 DEF ExecBarrierRead
    <3>2. ~Mine(w, j)
      BY <1>7, <2>1, <2>4 DEF Holds, Legal, Mine
    <3> QED BY <1>5, <3>1, <3>2
  <2> QED BY <2>2, <2>3, <2>4
<1>16. CASE ExecMark(w, j)
  <2>1. r.exec = "mark"
    BY <1>16 DEF ExecMark
  <2>2. CASE r.abort # "none"
    BY <1>4, <1>16, <2>2 DEF ExecMark
  <2>3. CASE r.abort = "none"
    <3> DEFINE n == [r EXCEPT !.exec = "tx", !.cur = "committing"]
    <3>1. Set(w, j, n) /\ UNCHANGED lockVars
      BY <1>16, <2>3 DEF ExecMark
    <3>2. n \in RunState /\ n.exec = "tx" /\ n.abort = r.abort /\ n.err = r.err
      BY <1>1 DEF RunState
    <3> HIDE DEF n
    <3>3. Holding(w, j, n)
      BY <1>1, <2>1, <3>2 DEF Holding
    <3> QED BY <1>6, <3>1, <3>2, <3>3
  <2> QED BY <2>2, <2>3
<1> QED BY <1>8, <1>9, <1>10, <1>11, <1>12, <1>13, <1>14, <1>15, <1>16

LEMMA BarrierCasLocks ==
  ASSUME IInv, RunInv, LocksInv, NEW w \in Workers, NEW j \in Jobs, ExecBarrierCas(w, j)
  PROVE  LockStep
<1> DEFINE r == run[w][j]
<1>1. TypeOK /\ r \in RunState /\ Shape(r) /\ Fits(w, j, r) /\ Holding(w, j, r) /\ r.exec = "cas"
  BY DEF IInv, TypeInv, TypeOK, RunInv, RunFits, LocksInv, LockFits, ExecBarrierCas
<1>2. UNCHANGED <<session, changes, born>>
  BY DEF ExecBarrierCas, sessionVars, histVars
<1>3. CASE Exists(j) /\ job[j].rev = r.casRev
  <2> DEFINE n == [r EXCEPT !.exec = "mark", !.casRev = 0]
  <2>1. Transition(j, "committing") /\ Set(w, j, n) /\ UNCHANGED <<sessLock, rtLock>>
    BY <1>3 DEF ExecBarrierCas, lockVars
  <2>2. Holds(w, j, {"running"}, "committing")
    BY <1>1, <1>3 DEF IInv, BarrierReadIsCurrent, Holds, Legal
  <2>3. n \in RunState /\ n.exec = "mark" /\ n.abort = r.abort /\ n.err = r.err
    BY <1>1 DEF RunState
  <2>4. "committing" \in Status /\ "committing" \in Active /\ {"running"} \in SUBSET Active
    BY DEF Status, Active
  <2>5. Mine(w, j)
    BY <2>2 DEF Holds, Mine, Active
  <2> HIDE DEF n
  <2>6. MoveHolds(w, j, n, "committing")
    BY <1>1, <1>3, <2>3, <2>4, <2>5 DEF MoveHolds, Holding
  <2> QED BY <1>1, <1>2, <2>1, <2>2, <2>3, <2>4, <2>6, HoldsLocks
<1>4. CASE ~(Exists(j) /\ job[j].rev = r.casRev)
  <2>1. Return(w, j, "stale") /\ UNCHANGED job
    BY <1>4 DEF ExecBarrierCas
  <2>2. ~Mine(w, j)
    BY <1>1, <1>4 DEF Fits, Mine, Exists, Active, Absent
  <2>3. "stale" \in Reason
    BY DEF Reason
  <2> QED BY <1>1, <1>2, <2>1, <2>2, <2>3, ReturnLocks
<1> QED BY <1>3, <1>4

\* A created row is born in the session as it is.
LEMMA CreateBirth ==
  ASSUME NEW rows \in [Jobs -> Row], NEW j \in Jobs, NEW source \in Nat,
         born \in [Jobs -> Nat], Create(rows, j, source)
  PROVE  /\ job'[j].gen = session.gen
         /\ born'[j] = changes
         /\ \A k \in Jobs \ {j} : born'[k] = born[k]
BY DEF Create

LEMMA CommitLocks ==
  ASSUME IInv, RunInv, LocksInv, NEW w \in Workers, NEW j \in Jobs,
         NEW to \in {"succeeded", "failed"},
         NEW f \in Jobs \cup {NoJob}, NEW e \in {"none", "error"},
         ExecCommit(w, j, to, f, e)
  PROVE  LockStep
<1> DEFINE r == run[w][j]
           rows(now) == [job EXCEPT ![j] = Moved(job[j], to, now)]
<1>1. /\ TypeOK /\ TypeInv /\ r \in RunState /\ Shape(r) /\ Holding(w, j, r)
      /\ r.exec = "tx" /\ job[j] \in Row
  BY DEF IInv, TypeInv, TypeOK, RunInv, RunFits, LocksInv, LockFits, ExecCommit
<1>2. CommitRows(j, f) /\ Mine(w, j) /\ f # j
  BY CommitRowsHold
<1>3. Exists(j) /\ job[j].status # "absent"
  BY <1>2 DEF Mine, Active, Exists, Absent
<1>4. sessLock = <<w, j>> /\ Admitted(j)
  BY <1>1, <1>3 DEF Holding
<1>5. Return(w, j, e) /\ UNCHANGED <<session, changes>> /\ e \in Reason
  BY DEF ExecCommit, sessionVars, Reason
<1>6. PICK now \in Clock :
        IF f = NoJob
        THEN job' = rows(now) /\ UNCHANGED <<counter, born, origin>>
        ELSE CanCreate(f) /\ Create(rows(now), f, NextSeq)
  BY DEF ExecCommit
<1>7. rows(now) \in [Jobs -> Row] /\ rows(now)[j].gen = job[j].gen
  <2>1. NextRevision(job[j].rev, now) \in Nat
    BY <1>1, RevisionGrows DEF Row
  <2>2. Moved(job[j], to, now) \in Row /\ Moved(job[j], to, now).gen = job[j].gen
    BY <1>1, <2>1 DEF Moved, Row, Status, Terminal
  <2> QED BY <1>1, <2>2 DEF TypeOK
<1>8. /\ job'[j].gen = job[j].gen
      /\ \A k \in Jobs \ {f} : born'[k] = born[k]
      /\ f \in Jobs => born'[f] = changes /\ job'[f].gen = session.gen
  <2> HIDE DEF rows
  <2>1. CASE f = NoJob
    BY <1>6, <1>7, <2>1, ConstantsAssumption
  <2>2. CASE f # NoJob
    <3>1. CanCreate(f) /\ Create(rows(now), f, NextSeq) /\ f \in Jobs /\ job[f].status = "absent"
      BY <1>6, <2>2 DEF CanCreate
    <3>2. NextSeq \in Nat /\ born \in [Jobs -> Nat]
      BY <1>1, SequenceIsNew DEF TypeOK
    <3>3. /\ \A k \in Jobs \ {f} : job'[k] = rows(now)[k] /\ born'[k] = born[k]
          /\ job'[f].gen = session.gen /\ born'[f] = changes
      BY <1>1, <1>7, <3>1, <3>2, CreateMoves, CreateBirth
    <3> QED BY <1>2, <1>7, <3>3
  <2> QED BY <2>1, <2>2
<1>9. /\ run'[w][j] = Returned(r, e) /\ Returned(r, e).exec \in {"none", "ret"}
      /\ \A v \in Workers, k \in Jobs : v # w \/ k # j =>
              /\ run'[v][k] = run[v][k]
              /\ rtLock[RuntimeOf[k]] = <<v, k>> => rtLock'[RuntimeOf[k]] = <<v, k>>
              /\ sessLock = <<v, k>> => sessLock' = <<v, k>>
      /\ sessLock' = Turn => sessLock = Turn
  <2>1. run'[w][j] = Returned(r, e)
    BY <1>1, <1>5, ReturnType
  <2>2. Returned(r, e).exec \in {"none", "ret"}
    BY <1>1, <1>5, ReturnedShape
  <2> QED BY <1>1, <1>5, <2>1, <2>2, ReturnFrees
<1>10. job'[j].status \notin Active /\ Exists(j)' /\ job'[j].status # "stale"
  BY <1>2 DEF CommitRows, Active, Exists, Absent
<1>11. ASSUME NEW k \in Jobs PROVE BirthSeen(k)
  <2>1. CASE k = j
    BY <1>2, <1>3, <1>5, <1>8, <1>10, <2>1 DEF BirthSeen
  <2>2. CASE k = f
    <3>1. Admitted(k)' /\ job'[k].status = "queued"
      BY <1>2, <1>4, <1>5, <1>8, <2>2 DEF Admitted, CommitRows
    <3> QED BY <1>5, <1>8, <2>2, <3>1 DEF BirthSeen
  <2>3. CASE k # j /\ k # f
    <3>1. job'[k] = job[k] /\ born'[k] = born[k]
      BY <1>2, <1>8, <2>3 DEF CommitRows
    <3> QED BY <1>5, <3>1 DEF BirthSeen, Exists
  <2> QED BY <2>1, <2>2, <2>3
<1>12. ASSUME NEW v \in Workers, NEW k \in Jobs, v # w \/ k # j PROVE LockSeen(v, k)
  <2>1. sessLock # <<v, k>>
    BY <1>4, <1>12
  <2>2. CASE k = j
    BY <1>3, <1>8, <1>9, <1>10, <1>12, <2>1, <2>2 DEF LockSeen, Mine
  <2>3. CASE k = f
    <3>1. job[k].status = "absent" /\ job'[k].status = "queued" /\ run[v][k] = NoRun
      BY <1>2, <2>3 DEF CommitRows, IInv, AbsentIsIdle
    <3> QED BY <1>9, <1>12, <2>1, <3>1 DEF LockSeen, Mine, Active
  <2>4. CASE k # j /\ k # f
    <3>1. job'[k] = job[k] /\ born'[k] = born[k]
      BY <1>2, <1>8, <2>4 DEF CommitRows
    <3> QED BY <1>9, <1>12, <2>1, <3>1 DEF LockSeen, Mine, Exists
  <2> QED BY <2>2, <2>3, <2>4
<1>13. LockFits(w, j)'
  <2>1. Holding(w, j, run[w][j])'
    BY <1>9, <1>10 DEF Holding, Mine
  <2> QED BY <2>1 DEF LockFits
<1>14. TurnIsActive' /\ changes <= changes'
  BY <1>1, <1>4, <1>5, <1>9, ConstantsAssumption DEF TurnIsActive, TypeOK, Runs
<1> QED BY <1>9, <1>11, <1>12, <1>13, <1>14 DEF LockStep, LockKeeps

\* A job is enqueued by a request: no run holds the session lock.
LEMMA CreateLocks ==
  ASSUME IInv, LocksInv, NEW j \in Jobs, NEW source \in Nat,
         CanCreate(j), Create(job, j, source), session.active, sessLock \notin Runs,
         UNCHANGED <<run, sessLock, rtLock, session, changes>>
  PROVE  LockStep
<1>1. TypeInv /\ TypeOK /\ job \in [Jobs -> Row] /\ born \in [Jobs -> Nat]
      /\ job[j].status = "absent"
  BY DEF IInv, TypeInv, TypeOK, CanCreate
<1>2. /\ \A k \in Jobs \ {j} : job'[k] = job[k] /\ born'[k] = born[k]
      /\ job'[j].status = "queued" /\ job'[j].gen = session.gen /\ born'[j] = changes
  BY <1>1, CreateMoves, CreateBirth DEF Creates
<1>3. ASSUME NEW k \in Jobs PROVE BirthSeen(k)
  <2>1. CASE k = j
    <3>1. Admitted(k)'
      BY <1>2, <2>1 DEF Admitted
    <3> QED BY <1>2, <2>1, <3>1 DEF BirthSeen
  <2>2. CASE k # j
    BY <1>2, <2>2 DEF BirthSeen, Exists
  <2> QED BY <2>1, <2>2
<1>4. ASSUME NEW v \in Workers, NEW k \in Jobs PROVE LockSeen(v, k)
  <2>1. sessLock # <<v, k>>
    BY DEF Runs
  <2>2. CASE k = j
    <3>1. run[v][k] = NoRun
      BY <1>1, <2>2 DEF IInv, AbsentIsIdle
    <3> QED BY <1>2, <2>1, <2>2, <3>1 DEF LockSeen, Mine, Active
  <2>3. CASE k # j
    BY <1>2, <2>1, <2>3 DEF LockSeen, Mine, Exists
  <2> QED BY <2>2, <2>3
<1>5. TurnIsActive' /\ changes <= changes'
  BY <1>1 DEF TurnIsActive, TypeOK
<1> QED BY <1>3, <1>4, <1>5 DEF LockStep, LockKeeps

\* Steps that move no run.
LEMMA SameLocks ==
  ASSUME TypeOK, UNCHANGED <<job, run, rtLock, session, changes, born>>,
         sessLock' = sessLock \/ sessLock \notin Runs, TurnIsActive'
  PROVE  LockStep
<1>1. \A v \in Workers, k \in Jobs : sessLock = <<v, k>> => sessLock' = <<v, k>>
  BY DEF Runs
<1> QED BY <1>1, SameSeen DEF LockStep, LockKeeps

LEMMA RequestLocks ==
  ASSUME IInv, RunInv, LocksInv, RequestStep
  PROVE  LockStep
<1>1. TypeOK /\ TypeInv /\ TurnIsActive
  BY DEF IInv, TypeInv, LocksInv
<1>2. Turn \notin Runs /\ NoHolder \notin Runs /\ Turn # NoHolder
  BY ConstantsAssumption
<1>3. CASE TurnBegin
  <2>1. /\ UNCHANGED <<job, run, rtLock, session, changes, born>>
        /\ sessLock \notin Runs /\ TurnIsActive'
    BY <1>2, <1>3 DEF TurnBegin, rowVars, sessionVars, histVars, TurnIsActive
  <2> QED BY <1>1, <2>1, SameLocks
<1>4. CASE TurnEnd
  <2>1. /\ UNCHANGED <<job, run, rtLock, session, changes, born>>
        /\ sessLock \notin Runs /\ TurnIsActive'
    BY <1>2, <1>4 DEF TurnEnd, rowVars, sessionVars, histVars, TurnIsActive
  <2> QED BY <1>1, <2>1, SameLocks
<1>5. ASSUME NEW j \in Jobs, TurnEnqueue(j) PROVE LockStep
  <2>1. NextSeq \in Nat
    BY <1>1, SequenceIsNew DEF TypeOK
  <2>2. /\ CanCreate(j) /\ Create(job, j, NextSeq) /\ session.active /\ sessLock \notin Runs
        /\ UNCHANGED <<run, sessLock, rtLock, session, changes>>
    BY <1>1, <1>2, <1>5 DEF TurnEnqueue, TurnIsActive, lockVars, sessionVars
  <2> QED BY <2>1, <2>2, CreateLocks
<1>6. ASSUME NEW j \in Jobs, NEW k \in Jobs, Retry(j, k) PROVE LockStep
  <2>1. origin[j] \in Nat
    BY <1>1 DEF TypeOK
  <2>2. /\ CanCreate(k) /\ Create(job, k, origin[j]) /\ session.active /\ sessLock \notin Runs
        /\ UNCHANGED <<run, sessLock, rtLock, session, changes>>
    BY <1>2, <1>6 DEF Retry, lockVars, sessionVars
  <2> QED BY <2>1, <2>2, CreateLocks
<1>7. ASSUME NEW j \in Jobs, Cancel(j) PROVE LockStep
  <2>1. "cancelled" \in Terminal \ {"stale"}
    BY DEF Terminal
  <2>2. /\ Transition(j, "cancelled") /\ Exists(j) /\ job[j].status # "committing"
        /\ UNCHANGED <<run, sessLock, rtLock, session, changes, born>>
    BY <1>7 DEF Cancel, Exists, Absent, lockVars, sessionVars, histVars
  <2> QED BY <1>1, <2>1, <2>2, EndedLocks
\* A session change: nobody holds the session, and it counts as a change.
<1>8. CASE ChangeStatus \/ ChangeScope
  <2>1. /\ UNCHANGED <<job, run, sessLock, rtLock, born>> /\ sessLock = NoHolder
        /\ changes \in Nat /\ changes' = changes + 1
    BY <1>1, <1>8 DEF ChangeStatus, ChangeScope, rowVars, lockVars, histVars, TypeOK
  <2>2. changes' # changes /\ changes <= changes'
    BY <2>1
  <2>3. \A k \in Jobs : BirthSeen(k)
    BY <2>1, <2>2 DEF BirthSeen, Exists
  <2>4. \A v \in Workers, k \in Jobs : LockSeen(v, k)
    BY <1>2, <2>1 DEF LockSeen, Mine, Exists, Runs
  <2>5. TurnIsActive'
    BY <1>2, <2>1 DEF TurnIsActive
  <2> QED BY <2>1, <2>2, <2>3, <2>4, <2>5 DEF LockStep, LockKeeps
<1> QED BY <1>3, <1>4, <1>5, <1>6, <1>7, <1>8 DEF RequestStep

LEMMA TimeLocks ==
  ASSUME IInv, RunInv, LocksInv, TimeStep
  PROVE  LockStep
<1>1. TypeOK
  BY DEF IInv, TypeInv
<1>2. /\ UNCHANGED <<job, run, sessLock, rtLock, session, changes, born>>
  BY DEF TimeStep, QueueDeadlinePasses, LeasePasses, lockVars, sessionVars, histVars
<1>3. TurnIsActive'
  BY <1>2 DEF LocksInv, TurnIsActive
<1> QED BY <1>1, <1>2, <1>3, SameLocks

LEMMA DrainLocks ==
  ASSUME IInv, RunInv, LocksInv, NEW w \in Workers, NEW j \in Jobs, DrainStep(w, j)
  PROVE  LockStep
<1>1. TypeOK /\ job[j] \in Row /\ TurnIsActive
  BY DEF IInv, TypeInv, TypeOK, LocksInv
<1>2. UNCHANGED <<sessLock, rtLock, session, changes, born>>
  BY DEF DrainStep, Claim, QueueTimeout, RecoverScan, Recover, Prune,
         lockVars, sessionVars, histVars
<1>3. CASE Claim(w, j)
  <2>1. PICK now \in Clock : job' = [job EXCEPT ![j] = Claimed(job[j], w, now)]
    BY <1>3 DEF Claim
  <2>2. /\ job'[j].status = "claimed" /\ job'[j].owner = w /\ job'[j].gen = job[j].gen
        /\ \A k \in Jobs \ {j} : job'[k] = job[k]
    BY <1>1, <2>1 DEF Claimed, TypeOK, Row
  <2>3. /\ job[j].status = "queued" /\ run[w][j] = NoRun
        /\ run' = [run EXCEPT ![w][j].main = "start"]
    BY <1>3 DEF Claim
  <2>4. KeepsRow(j) /\ \A v \in Workers : ~Mine(v, j) /\ (v # w => ~Mine(v, j)')
    BY <2>2, <2>3 DEF KeepsRow, Exists, Absent, Mine, Active
  <2>5. /\ \A k \in Jobs : BirthSeen(k)
        /\ changes <= changes'
        /\ \A v \in Workers, k \in Jobs : v # w \/ k # j => LockSeen(v, k)
        /\ TurnIsActive'
    BY <1>1, <1>2, <2>2, <2>4, RowWriteSeen
  <2> DEFINE n == [NoRun EXCEPT !.main = "start"]
  <2>6. n \in RunState /\ n.exec = "none" /\ n.abort = "none" /\ n.err = "none"
    BY DEF NoRun, RunState, Reason
  <2>7. Set(w, j, n)
    BY <1>1, <2>3 DEF Set, TypeOK
  <2> HIDE DEF n
  <2>8. /\ run'[w][j] = n
        /\ \A v \in Workers, k \in Jobs : v # w \/ k # j => run'[v][k] = run[v][k]
    BY <1>1, <2>6, <2>7, SetType
  <2>9. LockFits(w, j)'
    <3>1. Holding(w, j, run[w][j])'
      BY <2>6, <2>8 DEF Holding
    <3> QED BY <3>1 DEF LockFits
  <2> QED BY <2>5, <2>8, <2>9 DEF LockStep, LockKeeps
<1>4. CASE QueueTimeout(w, j)
  <2>1. "timed_out" \in Terminal \ {"stale"}
    BY DEF Terminal
  <2>2. Transition(j, "timed_out") /\ Exists(j) /\ job[j].status # "committing" /\ run' = run
    BY <1>4 DEF QueueTimeout, Exists, Absent
  <2> QED BY <1>1, <1>2, <2>1, <2>2, EndedLocks
<1>5. CASE RecoverScan(w, j)
  <2>1. UNCHANGED <<job, run>>
    BY <1>5 DEF RecoverScan
  <2>2. TurnIsActive'
    BY <1>1, <1>2 DEF TurnIsActive
  <2> QED BY <1>1, <1>2, <2>1, <2>2, SameLocks
<1>6. CASE Recover(w, j)
  <2>1. "orphaned" \in Terminal \ {"stale"}
    BY DEF Terminal
  <2>2. /\ Transition(j, "orphaned") /\ Exists(j) /\ run' = run
        /\ job[j].status = "committing" => sessLock = NoHolder
    BY <1>6 DEF Recover, CommitLockFree, Exists, Absent, Active
  <2> QED BY <1>1, <1>2, <2>1, <2>2, EndedLocks
<1>7. CASE Prune(w, j)
  <2>1. /\ job[j].status \in Terminal /\ run' = run
        /\ job' = [job EXCEPT ![j] = [NoRow EXCEPT !.status = "pruned"]]
    BY <1>7 DEF Prune
  <2>2. job'[j].status = "pruned" /\ \A k \in Jobs \ {j} : job'[k] = job[k]
    BY <1>1, <2>1 DEF TypeOK, NoRow
  <2>3. KeepsRow(j) /\ \A v \in Workers : ~Mine(v, j) /\ ~Mine(v, j)'
    BY <2>1, <2>2 DEF KeepsRow, Exists, Absent, Mine, Active, Terminal
  <2> QED BY <1>1, <1>2, <2>1, <2>2, <2>3, RowWriteSeen DEF LockStep, LockKeeps
<1> QED BY <1>3, <1>4, <1>5, <1>6, <1>7 DEF DrainStep

\* A process that dies frees its own locks, and no others.
LEMMA CrashLocks ==
  ASSUME IInv, RunInv, LocksInv, NEW w \in Workers, Crash(w)
  PROVE  LockStep
<1>1. TypeOK /\ TurnIsActive
  BY DEF IInv, TypeInv, LocksInv
<1>2. /\ UNCHANGED <<job, session, changes, born>>
      /\ run' = [run EXCEPT ![w] = [j \in Jobs |-> NoRun]]
      /\ sessLock' = IF \E j \in Jobs : sessLock = <<w, j>> THEN NoHolder ELSE sessLock
      /\ rtLock' = [r \in Runtimes |->
                      IF \E j \in Jobs : rtLock[r] = <<w, j>> THEN NoHolder ELSE rtLock[r]]
  BY DEF Crash, rowVars, sessionVars, histVars
<1>3. \A k \in Jobs : RuntimeOf[k] \in Runtimes
  BY ConstantsAssumption
<1>4. \A v \in Workers \ {w}, k \in Jobs :
        /\ run'[v][k] = run[v][k]
        /\ rtLock[RuntimeOf[k]] = <<v, k>> => rtLock'[RuntimeOf[k]] = <<v, k>>
        /\ sessLock = <<v, k>> => sessLock' = <<v, k>>
  BY <1>1, <1>2, <1>3 DEF TypeOK
<1>5. \A k \in Jobs : LockFits(w, k)'
  <2>1. \A k \in Jobs : run'[w][k] = NoRun
    BY <1>1, <1>2 DEF TypeOK
  <2> QED BY <2>1, NoRunHolds
<1>6. TurnIsActive'
  BY <1>1, <1>2, ConstantsAssumption DEF TurnIsActive
<1> QED BY <1>1, <1>2, <1>4, <1>5, <1>6, SameSeen DEF LockStep, LockKeeps

LEMMA ProcessLocks ==
  ASSUME ~LockLoss, IInv, RunInv, LocksInv, NEW w \in Workers, ProcessStep(w)
  PROVE  LockStep
<1>1. TypeOK /\ TurnIsActive
  BY DEF IInv, TypeInv, LocksInv
<1>2. CASE Close(w)
  <2>1. /\ UNCHANGED <<job, sessLock, rtLock, session, changes, born>>
        /\ run' = [run EXCEPT ![w] = [j \in Jobs |-> Stopped(run[w][j])]]
    BY <1>2 DEF Close, rowVars, lockVars, sessionVars, histVars
  <2>2. ASSUME NEW k \in Jobs PROVE LockFits(w, k)'
    <3> DEFINE r == run[w][k]
               n == Stopped(r)
    <3>1. r \in RunState /\ Holding(w, k, r)
      BY <1>1 DEF TypeOK, LocksInv, LockFits
    <3>2. run'[w][k] = n
      BY <1>1, <2>1 DEF TypeOK
    <3>3. /\ n.exec = r.exec
          /\ n.abort = r.abort \/ (r.abort = "none" /\ n.abort = "closed")
          /\ n.err \in {r.err, "closed"}
      <4>1. "closed" \in Reason
        BY DEF Reason
      <4>2. CASE r.main \in {"idle", "done"} \/ r.cur = "committing"
        BY <4>2 DEF Stopped
      <4>3. CASE ~(r.main \in {"idle", "done"} \/ r.cur = "committing")
        <5>1. n = Aborted(r, "closed")
          BY <4>3 DEF Stopped
        <5> HIDE DEF n
        <5> QED BY <3>1, <4>1, <5>1, AbortedFields
      <4> QED BY <4>2, <4>3
    <3> HIDE DEF n
    <3>4. Holding(w, k, run[w][k])'
      BY <2>1, <3>1, <3>2, <3>3 DEF Holding, Mine, Exists, Admitted
    <3> QED BY <3>4 DEF LockFits
  <2>3. \A v \in Workers \ {w}, k \in Jobs : run'[v][k] = run[v][k]
    BY <1>1, <2>1 DEF TypeOK
  <2>4. TurnIsActive'
    BY <1>1, <2>1 DEF TurnIsActive
  <2> QED BY <1>1, <2>1, <2>2, <2>3, <2>4, SameSeen DEF LockStep, LockKeeps
<1>3. CASE Exit(w)
  <2>1. /\ UNCHANGED <<job, run, sessLock, rtLock, session, changes, born>>
    BY <1>3 DEF Exit, rowVars, lockVars, sessionVars, histVars
  <2>2. TurnIsActive'
    BY <1>1, <2>1 DEF TurnIsActive
  <2> QED BY <1>1, <2>1, <2>2, SameLocks
<1>4. CASE Crash(w)
  BY <1>4, CrashLocks
<1> QED BY <1>2, <1>3, <1>4 DEF ProcessStep, LoseLocks

LEMMA NextLocks ==
  ASSUME ~LockLoss, IInv, RunInv, LocksInv, [Next]_vars
  PROVE  LockStep
<1>1. CASE UNCHANGED vars
  <2>1. TypeOK /\ UNCHANGED <<job, run, sessLock, rtLock, session, changes, born>>
    BY <1>1 DEF vars, IInv, TypeInv
  <2>2. TurnIsActive'
    BY <2>1 DEF LocksInv, TurnIsActive
  <2> QED BY <2>1, <2>2, SameLocks
<1>2. ASSUME NEW w \in Workers, NEW j \in Jobs, RunStep(w, j) PROVE LockStep
  BY <1>2, StartLocks, RenewLocks, DeadlineLocks, SettleLocks DEF RunStep
<1>3. ASSUME NEW w \in Workers, NEW j \in Jobs, ExecStep(w, j) PROVE LockStep
  BY <1>3, ExecLocks, BarrierCasLocks, CommitLocks DEF ExecStep
<1> QED BY <1>1, <1>2, <1>3, RequestLocks, TimeLocks, ProcessLocks, DrainLocks DEF Next

LEMMA InitLocks == Init => LocksInv
<1> SUFFICES ASSUME Init PROVE LocksInv
  OBVIOUS
<1>1. \A w \in Workers, j \in Jobs : LockFits(w, j)
  BY NoRunHolds DEF Init, LockFits
<1>2. \A j \in Jobs : job[j].status = "absent"
  BY DEF Init, NoRow
<1>3. TurnIsActive
  BY DEF Init, TurnIsActive
<1> QED BY <1>1, <1>2, <1>3 DEF LocksInv, BirthFits, StaleOnlyAfterChange

LEMMA LocksInvariance ==
  ASSUME ~LockLoss
  PROVE  Spec => [](IInv /\ RunInv /\ LocksInv)
<1>1. Init => IInv /\ RunInv /\ LocksInv
  BY InitInvariant, InitFits, InitLocks
<1>2. IInv /\ RunInv /\ LocksInv /\ [Next]_vars => (IInv /\ RunInv /\ LocksInv)'
  <2> SUFFICES ASSUME IInv, RunInv, LocksInv, [Next]_vars
               PROVE  IInv' /\ RunInv' /\ LocksInv'
    OBVIOUS
  <2>1. IInv' /\ TypeOK /\ TypeOK'
    BY StepInvariant DEF IInv, TypeInv
  <2> QED BY <2>1, NextFits, FitStepKeeps, NextLocks, LockStepKeeps
<1> QED BY <1>1, <1>2, PTL DEF Spec

-----------------------------------------------------------------------------
(* What the third invariant says, while no lock connection is lost *)

\* Two executions of a runtime are never past its lock together: runDetached
\* takes the background-runtime lock before the provider call and every way out
\* of it releases that lock and no other's. (Without the hypothesis a dropped
\* PostgreSQL connection frees the lock under a running execution.)
THEOREM SerializedProvider ==
  ASSUME ~LockLoss
  PROVE  Spec => []OneExecutionPerRuntime
<1>1. LocksInv => OneExecutionPerRuntime
  <2> SUFFICES ASSUME LocksInv, NEW x \in Runs, NEW y \in Runs,
                      RuntimeOf[x[2]] = RuntimeOf[y[2]],
                      InProvider(x[1], x[2]), InProvider(y[1], y[2])
               PROVE  x = y
    BY DEF OneExecutionPerRuntime
  <2>1. /\ x[1] \in Workers /\ x[2] \in Jobs /\ x = <<x[1], x[2]>>
        /\ y[1] \in Workers /\ y[2] \in Jobs /\ y = <<y[1], y[2]>>
    BY DEF Runs
  <2>2. \A w \in Workers, j \in Jobs : InProvider(w, j) => rtLock[RuntimeOf[j]] = <<w, j>>
    BY DEF LocksInv, LockFits, Holding, InProvider
  <2> QED BY <2>1, <2>2
<1>2. Spec => [](IInv /\ RunInv /\ LocksInv)
  BY LocksInvariance
<1> QED BY <1>1, <1>2, PTL

\* The worker in its commit transaction owns a committing row although it no
\* longer renews the lease: recovery needs the session lock it holds
\* (tryWithCommitLock).
THEOREM CommitterProtected ==
  ASSUME ~LockLoss
  PROVE  Spec => []CommitterKeepsRow
<1>1. RunInv /\ LocksInv => CommitterKeepsRow
  <2> SUFFICES ASSUME RunInv, LocksInv, NEW w \in Workers, NEW j \in Jobs,
                      run[w][j].exec = "tx"
               PROVE  job[j].status = "committing" /\ job[j].owner = w
    BY DEF CommitterKeepsRow
  <2>1. /\ Shape(run[w][j]) /\ Fits(w, j, run[w][j]) /\ Holding(w, j, run[w][j])
    BY DEF RunInv, RunFits, LocksInv, LockFits
  <2>2. Mine(w, j)
    BY <2>1 DEF Shape, Holding
  <2> QED BY <2>1, <2>2 DEF Fits, Mine
<1>2. Spec => [](IInv /\ RunInv /\ LocksInv)
  BY LocksInvariance
<1> QED BY <1>1, <1>2, PTL

\* A job ends stale only if its session changed after it was enqueued: a
\* renewal and a commit barrier of the same worker never tell each other that
\* the row was taken (stopLeaseRenewal awaits the renewal in flight).
THEOREM StaleIsEarned ==
  ASSUME ~LockLoss
  PROVE  Spec => []StaleOnlyAfterChange
<1>1. LocksInv => StaleOnlyAfterChange
  BY DEF LocksInv
<1>2. Spec => [](IInv /\ RunInv /\ LocksInv)
  BY LocksInvariance
<1> QED BY <1>1, <1>2, PTL

\* Only the commit transaction writes a job's domain rows.
LEMMA CommitsInTransaction ==
  ASSUME TypeOK, [Next]_vars, NEW j \in Jobs, commits'[j] # commits[j]
  PROVE  \E w \in Workers, to \in {"succeeded", "failed"}, f \in Jobs \cup {NoJob},
            e \in {"none", "error"} : ExecCommit(w, j, to, f, e)
<1>1. commits' # commits
  OBVIOUS
<1>2. ~UNCHANGED vars
  BY <1>1 DEF vars
<1>3. ~RequestStep /\ ~TimeStep
  BY <1>1 DEF RequestStep, TimeStep, TurnBegin, TurnEnd, TurnEnqueue, Cancel, Retry,
              ChangeStatus, ChangeScope, QueueDeadlinePasses, LeasePasses, histVars
<1>4. \A w \in Workers : ~ProcessStep(w)
  BY <1>1 DEF ProcessStep, Close, Exit, Crash, LoseLocks, histVars
<1>5. \A w \in Workers, k \in Jobs : ~DrainStep(w, k)
  BY <1>1 DEF DrainStep, Claim, QueueTimeout, RecoverScan, Recover, Prune, histVars
<1>6. \A w \in Workers, k \in Jobs : ~RunStep(w, k)
  <2>1. \A w \in Workers, k \in Jobs :
          /\ ~Start(w, k) /\ ~StartFails(w, k)
          /\ ~RenewRead(w, k) /\ ~RenewCas(w, k) /\ ~RenewError(w, k)
    BY <1>1 DEF Start, StartFails, RenewRead, RenewCas, RenewError, histVars
  <2>2. \A w \in Workers, k \in Jobs :
          ~DeadlineFires(w, k) /\ \A reported \in BOOLEAN : ~DeadlineSettles(w, k, reported)
    BY <1>1 DEF DeadlineFires, DeadlineSettles, histVars
  <2>3. \A w \in Workers, k \in Jobs :
          /\ ~Check(w, k) /\ ~Catch(w, k) /\ ~Settle(w, k)
          /\ ~Requeue(w, k) /\ ~SettleFails(w, k)
    BY <1>1 DEF Check, Catch, Settle, Requeue, SettleFails, histVars
  <2> QED BY <2>1, <2>2, <2>3 DEF RunStep
<1>7. PICK w \in Workers, k \in Jobs : ExecStep(w, k)
  BY <1>2, <1>3, <1>4, <1>5, <1>6 DEF Next
<1>8. ~(\/ ExecAdmit(w, k) \/ ExecLock(w, k) \/ ExecLockTimeout(w, k)
        \/ ExecAuthorize(w, k) \/ ExecFinish(w, k) \/ ExecFail(w, k)
        \/ ExecGiveUp(w, k) \/ ExecConnectionGone(w, k) \/ ExecCommitLock(w, k)
        \/ ExecBarrierRead(w, k) \/ ExecBarrierCas(w, k)
        \/ ExecMark(w, k) \/ ExecMarkFails(w, k) \/ ExecRollback(w, k))
  BY <1>1 DEF ExecAdmit, ExecLock, ExecLockTimeout, ExecAuthorize, ExecFinish, ExecFail,
              ExecGiveUp, ExecConnectionGone, ExecCommitLock, ExecBarrierRead,
              ExecBarrierCas, ExecMark, ExecMarkFails, ExecRollback, histVars
<1>9. PICK to \in {"succeeded", "failed"}, f \in Jobs \cup {NoJob}, e \in {"none", "error"} :
        ExecCommit(w, k, to, f, e)
  BY <1>7, <1>8 DEF ExecStep
<1>10. k = j
  <2>1. commits' = [commits EXCEPT ![k] = @ + 1] /\ commits \in [Jobs -> Nat]
    BY <1>9 DEF ExecCommit, TypeOK
  <2> QED BY <2>1
<1> QED BY <1>9, <1>10

\* Domain writes commit only into a session that is active and still the one
\* the job was admitted under, from a committing row: the session is re-read
\* under the lock (ExecCommitLock) that the execution then keeps to the end of
\* its transaction, and every session change waits for that lock.
THEOREM AuthorisedCommit ==
  ASSUME ~LockLoss
  PROVE  Spec => CommitIsAuthorised
<1> DEFINE Authorised ==
      \A j \in Jobs : commits'[j] # commits[j] => Admitted(j) /\ job[j].status = "committing"
<1>1. IInv /\ RunInv /\ LocksInv /\ [Next]_vars => [Authorised]_vars
  <2> SUFFICES ASSUME IInv, RunInv, LocksInv, [Next]_vars, NEW j \in Jobs,
                      commits'[j] # commits[j]
               PROVE  Admitted(j) /\ job[j].status = "committing"
    OBVIOUS
  <2>1. PICK w \in Workers, to \in {"succeeded", "failed"}, f \in Jobs \cup {NoJob},
             e \in {"none", "error"} : ExecCommit(w, j, to, f, e)
    BY CommitsInTransaction DEF IInv, TypeInv
  <2>2. job[j].status = "committing" /\ run[w][j].exec = "tx"
    BY <2>1 DEF ExecCommit, Holds
  <2>3. Holding(w, j, run[w][j]) /\ Exists(j)
    BY <2>2 DEF LocksInv, LockFits, Exists, Absent
  <2> QED BY <2>2, <2>3 DEF Holding
<1>2. Spec => [](IInv /\ RunInv /\ LocksInv)
  BY LocksInvariance
<1> QED BY <1>1, <1>2, PTL DEF Spec, CommitIsAuthorised

-----------------------------------------------------------------------------
(* The fourth invariant: the order of the executions settling jobs come from *)

\* Jobs of one runtime that settles before the next execution.
Peers(j, k) == RuntimeOf[j] = RuntimeOf[k] /\ RuntimeOf[j] \in Settling

Newest(m) == Exists(m) /\ \A i \in Group(m) : job[i].seq <= job[m].seq

\* Source executions are numbered by the counter; the retained jobs are queued
\* in the order of their sources; the newest one comes from the latest source
\* of all, pruned jobs included; and a job still to be done is not behind one
\* whose writes committed.
OrderInv ==
  /\ \A j \in Jobs : origin[j] <= counter
  /\ \A j, k \in Jobs :
       Peers(j, k) /\ Exists(j) /\ Exists(k) /\ job[j].seq < job[k].seq => origin[j] <= origin[k]
  /\ \A j, m \in Jobs :
       Peers(j, m) /\ job[j].status # "absent" /\ Newest(m) => origin[j] <= origin[m]
  /\ \A j, k \in Jobs :
       Peers(j, k) /\ Exists(j) /\ job[j].status \notin Terminal /\ commits[k] > 0
         => origin[k] <= origin[j]

\* Where a new job k takes its source from: a new execution, or the job it
\* retries, which for a settling runtime is the newest one.
Source(k) ==
  \/ origin'[k] = counter + 1
  \/ \E m \in Jobs : /\ Exists(m) /\ RuntimeOf[m] = RuntimeOf[k]
                     /\ RuntimeOf[k] \in Settling => Newest(m)
                     /\ origin'[k] = origin[m]

BornNow(k) ==
  /\ job[k].status = "absent" /\ job'[k].status = "queued"
  /\ job'[k].seq = counter + 1 /\ counter' = counter + 1
  /\ Source(k)

\* What a step means to the order.
OrderStep(k) ==
  /\ job[k].status = "absent" /\ job'[k].status # "absent" => BornNow(k)
  /\ ~BornNow(k) => origin'[k] = origin[k]
  /\ job[k].status # "absent" =>
       /\ job'[k].status # "absent"
       /\ Exists(k)' => /\ Exists(k) /\ job'[k].seq = job[k].seq
                        /\ job[k].status \in Terminal => job'[k].status \in Terminal
       /\ Exists(k) /\ ~Exists(k)' =>
            \E i \in Group(k) : Exists(i)' /\ job[i].seq > job[k].seq
  /\ commits'[k] > 0 => commits[k] > 0 \/ job[k].status = "committing"

SourceStep ==
  \/ UNCHANGED <<counter, origin>>
  \/ \E j \in Jobs : /\ Creates(j) /\ Source(j)
                     /\ \A k \in Jobs \ {j} : /\ origin'[k] = origin[k]
                                              /\ job[k].status = "absent" => job'[k] = job[k]

\* Where the new rows and sources of a step come from.
LEMMA CreateSource ==
  ASSUME TypeInv, NEW rows \in [Jobs -> Row], NEW j \in Jobs, NEW source \in Nat,
         job[j].status = "absent", Create(rows, j, source),
         \A k \in Jobs : job[k].status = "absent" => rows[k] = job[k],
         \/ source = counter + 1
         \/ \E m \in Jobs : /\ Exists(m) /\ RuntimeOf[m] = RuntimeOf[j]
                            /\ RuntimeOf[j] \in Settling => Newest(m)
                            /\ source = origin[m]
  PROVE  SourceStep
<1>1. (\A k \in Jobs \ {j} : job'[k] = rows[k]) /\ Creates(j)
  BY CreateMoves
<1>2. origin \in [Jobs -> Nat] /\ origin' = [origin EXCEPT ![j] = source]
  BY DEF TypeInv, TypeOK, Create
<1>3. origin'[j] = source /\ \A k \in Jobs \ {j} : origin'[k] = origin[k]
  BY <1>2
<1>4. Source(j)
  BY <1>3 DEF Source
<1> QED BY <1>1, <1>3, <1>4 DEF SourceStep

LEMMA NextSource ==
  ASSUME IInv, [Next]_vars
  PROVE  SourceStep
<1>1. TypeInv /\ job \in [Jobs -> Row] /\ NextSeq = counter + 1 /\ NextSeq \in Nat
  BY SequenceIsNew DEF IInv, TypeInv, TypeOK
<1>2. CASE UNCHANGED <<counter, origin>>
  BY <1>2 DEF SourceStep
<1>3. ASSUME NEW j \in Jobs, TurnEnqueue(j) PROVE SourceStep
  BY <1>1, <1>3, CreateSource DEF TurnEnqueue, CanCreate
<1>4. ASSUME NEW j \in Jobs, NEW k \in Jobs, Retry(j, k) PROVE SourceStep
  <2>1. /\ CanCreate(k) /\ Create(job, k, origin[j]) /\ RuntimeOf[k] = RuntimeOf[j]
        /\ Exists(j) /\ (RuntimeOf[k] \in Settling => Newest(j))
    BY <1>4 DEF Retry, NotSuperseded, Newest, Exists, Terminal, Absent
  <2>2. origin[j] \in Nat
    BY <1>1 DEF TypeInv, TypeOK
  <2> QED BY <1>1, <2>1, <2>2, CreateSource DEF CanCreate
<1>5. ASSUME NEW w \in Workers, NEW j \in Jobs, NEW to \in {"succeeded", "failed"},
             NEW f \in Jobs \cup {NoJob}, NEW e \in {"none", "error"},
             ExecCommit(w, j, to, f, e)
      PROVE  SourceStep
  <2> DEFINE rows(now) == [job EXCEPT ![j] = Moved(job[j], to, now)]
  <2>1. PICK now \in Clock :
          IF f = NoJob
          THEN job' = rows(now) /\ UNCHANGED <<counter, born, origin>>
          ELSE CanCreate(f) /\ Create(rows(now), f, NextSeq)
    BY <1>5 DEF ExecCommit
  <2>2. /\ rows(now) \in [Jobs -> Row]
        /\ \A k \in Jobs : job[k].status = "absent" => rows(now)[k] = job[k]
    <3>1. job[j] \in Row /\ job[j].status = "committing"
      BY <1>1, <1>5 DEF ExecCommit, Holds
    <3>2. NextRevision(job[j].rev, now) \in Nat
      BY <3>1, RevisionGrows DEF Row
    <3>3. Moved(job[j], to, now) \in Row
      BY <3>1, <3>2 DEF Moved, Row, Status, Terminal
    <3> QED BY <1>1, <3>1, <3>3
  <2> HIDE DEF rows
  <2>3. CASE f = NoJob
    BY <1>2, <2>1, <2>3
  <2>4. CASE f # NoJob
    <3>1. f \in Jobs /\ CanCreate(f) /\ Create(rows(now), f, NextSeq)
      BY <2>1, <2>4
    <3> QED BY <1>1, <2>2, <3>1, CreateSource DEF CanCreate
  <2> QED BY <2>3, <2>4
<1>6. CASE UNCHANGED vars
  BY <1>2, <1>6 DEF vars
<1>7. CASE TurnBegin \/ TurnEnd \/ ChangeStatus \/ ChangeScope
  BY <1>2, <1>7 DEF TurnBegin, TurnEnd, ChangeStatus, ChangeScope, rowVars, histVars
<1>8. ASSUME NEW j \in Jobs, Cancel(j) PROVE SourceStep
  BY <1>2, <1>8 DEF Cancel, histVars
<1>9. CASE TimeStep
  BY <1>2, <1>9 DEF TimeStep, QueueDeadlinePasses, LeasePasses, histVars
<1>10. ASSUME NEW w \in Workers, ProcessStep(w) PROVE SourceStep
  BY <1>2, <1>10 DEF ProcessStep, Close, Exit, Crash, LoseLocks, rowVars, histVars
<1>11. ASSUME NEW w \in Workers, NEW j \in Jobs, DrainStep(w, j) PROVE SourceStep
  BY <1>2, <1>11 DEF DrainStep, Claim, QueueTimeout, RecoverScan, Recover, Prune, histVars
<1>12. ASSUME NEW w \in Workers, NEW j \in Jobs, RunStep(w, j) PROVE SourceStep
  <2>1. CASE \/ Start(w, j) \/ StartFails(w, j)
             \/ RenewRead(w, j) \/ RenewCas(w, j) \/ RenewError(w, j)
    BY <1>2, <2>1 DEF Start, StartFails, RenewRead, RenewCas, RenewError, rowVars, histVars
  <2>2. CASE DeadlineFires(w, j) \/ \E reported \in BOOLEAN : DeadlineSettles(w, j, reported)
    BY <1>2, <2>2 DEF DeadlineFires, DeadlineSettles, rowVars, histVars
  <2>3. CASE \/ Check(w, j) \/ Catch(w, j) \/ Settle(w, j) \/ Requeue(w, j)
             \/ SettleFails(w, j)
    BY <1>2, <2>3 DEF Check, Catch, Settle, Requeue, SettleFails, rowVars, histVars
  <2> QED BY <1>12, <2>1, <2>2, <2>3 DEF RunStep
<1>13. ASSUME NEW w \in Workers, NEW j \in Jobs, ExecStep(w, j) PROVE SourceStep
  <2>1. CASE \/ ExecAdmit(w, j) \/ ExecLock(w, j) \/ ExecLockTimeout(w, j)
             \/ ExecAuthorize(w, j) \/ ExecFinish(w, j) \/ ExecFail(w, j)
             \/ ExecGiveUp(w, j) \/ ExecConnectionGone(w, j) \/ ExecCommitLock(w, j)
             \/ ExecBarrierRead(w, j) \/ ExecBarrierCas(w, j)
             \/ ExecMark(w, j) \/ ExecMarkFails(w, j) \/ ExecRollback(w, j)
    BY <1>2, <2>1
       DEF ExecAdmit, ExecLock, ExecLockTimeout, ExecAuthorize, ExecFinish, ExecFail,
           ExecGiveUp, ExecConnectionGone, ExecCommitLock, ExecBarrierRead,
           ExecBarrierCas, ExecMark, ExecMarkFails, ExecRollback, rowVars, histVars
  <2> QED BY <1>5, <1>13, <2>1 DEF ExecStep
<1> QED BY <1>3, <1>4, <1>6, <1>7, <1>8, <1>9, <1>10, <1>11, <1>12, <1>13 DEF Next, RequestStep

LEMMA NextOrder ==
  ASSUME Keep > 0, IInv, [Next]_vars, NEW k \in Jobs
  PROVE  OrderStep(k)
<1>1. /\ TypeOK /\ TypeOK' /\ RowStep /\ SourceStep
  BY NextShape, NextSource DEF IInv, TypeInv, StepShape
<1>2. /\ job[k] \in Row /\ job'[k] \in Row /\ counter \in Nat
      /\ commits \in [Jobs -> Nat] /\ commits' \in [Jobs -> Nat]
  BY <1>1 DEF TypeOK
<1>3. job[k].status = "absent" /\ job'[k].status # "absent" => BornNow(k)
  <2>1. ASSUME counter' = counter, job[k].status = "absent" PROVE job'[k].status = "absent"
    BY <1>1, <1>2, <2>1, ConstantsAssumption
       DEF RowStep, RowsSame, RowRenewed, RowMoved, RowCreated, RowPruned, RowCommitted,
           OthersSame, Creates, Exists, Active, Absent, Terminal
  <2>2. ASSUME NEW j \in Jobs, Creates(j), Source(j),
               \A i \in Jobs \ {j} : job[i].status = "absent" => job'[i] = job[i]
        PROVE  job[k].status = "absent" /\ job'[k].status # "absent" => BornNow(k)
    BY <2>2 DEF Creates, BornNow
  <2> QED BY <1>1, <2>1, <2>2 DEF SourceStep
<1>4. ~BornNow(k) => origin'[k] = origin[k]
  <2>1. ASSUME NEW j \in Jobs, Creates(j), Source(j),
               \A i \in Jobs \ {j} : origin'[i] = origin[i]
        PROVE  ~BornNow(k) => origin'[k] = origin[k]
    BY <2>1 DEF Creates, BornNow
  <2> QED BY <1>1, <2>1 DEF SourceStep
<1>5. ASSUME job[k].status # "absent"
      PROVE  /\ job'[k].status # "absent"
             /\ Exists(k)' => /\ Exists(k) /\ job'[k].seq = job[k].seq
                              /\ job[k].status \in Terminal => job'[k].status \in Terminal
             /\ Exists(k) /\ ~Exists(k)' =>
                  \E i \in Group(k) : Exists(i)' /\ job[i].seq > job[k].seq
  <2>1. CASE RowsSame
    BY <1>5, <2>1 DEF RowsSame, Exists
  <2>2. ASSUME NEW j \in Jobs, RowRenewed(j) \/ RowMoved(j) \/ RowCreated(j),
               ~(job'[k] = job[k])
        PROVE  /\ job[k].status \notin Terminal \cup Absent
               /\ job'[k].status \notin Absent /\ job'[k].seq = job[k].seq
    BY <1>5, <2>2 DEF RowRenewed, RowMoved, RowCreated, OthersSame, Creates, Exists,
                      Active, Absent, Terminal
  <2>3. ASSUME NEW j \in Jobs, RowRenewed(j) \/ RowMoved(j) \/ RowCreated(j)
        PROVE  /\ job'[k].status # "absent"
               /\ Exists(k)' => /\ Exists(k) /\ job'[k].seq = job[k].seq
                                /\ job[k].status \in Terminal => job'[k].status \in Terminal
               /\ Exists(k) => Exists(k)'
    BY <1>5, <2>2, <2>3 DEF Exists, Absent
  <2>4. ASSUME NEW j \in Jobs, NEW to \in {"succeeded", "failed"},
               NEW f \in Jobs \cup {NoJob}, RowCommitted(j, to, f)
        PROVE  /\ job'[k].status # "absent"
               /\ Exists(k)' => /\ Exists(k) /\ job'[k].seq = job[k].seq
                                /\ job[k].status \in Terminal => job'[k].status \in Terminal
               /\ Exists(k) => Exists(k)'
    <3>1. k # f
      BY <1>5, <2>4, ConstantsAssumption DEF RowCommitted, Creates
    <3> QED BY <1>5, <2>4, <3>1 DEF RowCommitted, OthersSame, Exists, Absent, Terminal
  <2>5. ASSUME NEW j \in Jobs, RowPruned(j)
        PROVE  /\ job'[k].status # "absent"
               /\ Exists(k)' => /\ Exists(k) /\ job'[k].seq = job[k].seq
                                /\ job[k].status \in Terminal => job'[k].status \in Terminal
               /\ Exists(k) /\ ~Exists(k)' =>
                    \E i \in Group(k) : Exists(i)' /\ job[i].seq > job[k].seq
    <3>1. CASE k = j
      <4>1. PICK i \in Group(j) \ {j} : job[i].seq > job[j].seq
        BY <2>5 DEF RowPruned
      <4>2. Exists(i)'
        BY <2>5, <4>1 DEF RowPruned, OthersSame, Group, Exists
      <4>3. job'[k].status = "pruned" /\ ~Exists(k)'
        BY <2>5, <3>1 DEF RowPruned, Exists, Absent
      <4> QED BY <3>1, <4>1, <4>2, <4>3
    <3>2. CASE k # j
      BY <1>5, <2>5, <3>2 DEF RowPruned, OthersSame, Exists
    <3> QED BY <3>1, <3>2
  <2> QED BY <1>1, <2>1, <2>3, <2>4, <2>5 DEF RowStep
<1>6. commits'[k] > 0 => commits[k] > 0 \/ job[k].status = "committing"
  BY <1>1, <1>2 DEF RowStep, RowsSame, RowRenewed, RowMoved, RowCreated, RowPruned,
                    RowCommitted, SameHistory
<1> QED BY <1>3, <1>4, <1>5, <1>6 DEF OrderStep

\* A new job comes last.
LEMMA BornLast ==
  ASSUME IInv, OrderInv, NEW j \in Jobs, NEW k \in Jobs, BornNow(k), Peers(j, k),
         job[j].status # "absent"
  PROVE  origin[j] <= origin'[k]
<1>1. origin[j] <= counter /\ counter \in Nat /\ origin[j] \in Nat
  BY DEF IInv, TypeInv, TypeOK, OrderInv
<1>2. CASE origin'[k] = counter + 1
  BY <1>1, <1>2
<1>3. ASSUME NEW m \in Jobs, Exists(m), RuntimeOf[m] = RuntimeOf[k], Newest(m),
             origin'[k] = origin[m]
      PROVE  origin[j] <= origin'[k]
  BY <1>3 DEF OrderInv, Peers
<1> QED BY <1>2, <1>3 DEF BornNow, Source, Peers

LEMMA OrderKept ==
  ASSUME IInv, IInv', OrderInv, \A k \in Jobs : OrderStep(k), counter <= counter'
  PROVE  OrderInv'
<1>1. /\ counter \in Nat /\ counter' \in Nat
      /\ \A k \in Jobs : /\ job[k].seq \in Nat /\ job'[k].seq \in Nat
                         /\ origin[k] \in Nat /\ origin'[k] \in Nat
  BY DEF IInv, TypeInv, TypeOK, Row
<1>2. \A k \in Jobs : Exists(k) => job[k].seq <= counter
  BY DEF IInv, TypeInv, SeqBound
<1>3. ASSUME NEW k \in Jobs
      PROVE  /\ BornNow(k) => Exists(k)' /\ job[k].status = "absent" /\ ~Exists(k)
             /\ Exists(k)' => Exists(k) \/ BornNow(k)
             /\ job'[k].status # "absent" => job[k].status # "absent" \/ BornNow(k)
             /\ ~BornNow(k) => origin'[k] = origin[k]
             /\ Exists(k) => ~BornNow(k)
  <2>1. OrderStep(k)
    OBVIOUS
  <2>2. BornNow(k) => Exists(k)' /\ job[k].status = "absent" /\ ~Exists(k)
    BY DEF BornNow, Exists, Absent
  <2>3. Exists(k)' => job'[k].status # "absent"
    BY DEF Exists, Absent
  <2> QED BY <2>1, <2>2, <2>3 DEF OrderStep
<1>4. ASSUME NEW j \in Jobs PROVE origin'[j] <= counter'
  <2>1. CASE BornNow(j)
    <3>1. \A m \in Jobs : origin[m] <= counter
      BY DEF OrderInv
    <3> QED BY <1>1, <2>1, <3>1 DEF BornNow, Source
  <2>2. CASE ~BornNow(j)
    BY <1>1, <1>3, <2>2 DEF OrderInv
  <2> QED BY <2>1, <2>2
\* A job born in this step is the only one of its runtime, and the newest.
<1>5. ASSUME NEW j \in Jobs, NEW k \in Jobs, RuntimeOf[j] = RuntimeOf[k], BornNow(k),
             Exists(j)', j # k
      PROVE  job'[j].seq < job'[k].seq
  <2>1. ~BornNow(j)
    <3>1. job'[j].seq # job'[k].seq
      BY <1>3, <1>5 DEF IInv, SerialPerRuntime
    <3> QED BY <1>5, <3>1 DEF BornNow
  <2>2. Exists(j) /\ job'[j].seq = job[j].seq
    BY <1>3, <1>5, <2>1 DEF OrderStep, Exists, Absent
  <2> QED BY <1>1, <1>2, <1>5, <2>2 DEF BornNow
<1>6. ASSUME NEW j \in Jobs, NEW k \in Jobs, Peers(j, k), Exists(j)', Exists(k)',
             job'[j].seq < job'[k].seq
      PROVE  origin'[j] <= origin'[k]
  <2>1. ~BornNow(j)
    BY <1>1, <1>5, <1>6 DEF Peers
  <2>2. /\ Exists(j) /\ job'[j].seq = job[j].seq /\ origin'[j] = origin[j]
        /\ job[j].status # "absent"
    BY <1>3, <1>6, <2>1 DEF OrderStep, Exists, Absent
  <2>3. CASE BornNow(k)
    BY <1>6, <2>2, <2>3, BornLast
  <2>4. CASE ~BornNow(k)
    <3>1. Exists(k) /\ job'[k].seq = job[k].seq /\ origin'[k] = origin[k]
      BY <1>3, <1>6, <2>4 DEF OrderStep, Exists, Absent
    <3> QED BY <1>6, <2>2, <3>1 DEF OrderInv
  <2> QED BY <2>3, <2>4
<1>7. ASSUME NEW j \in Jobs, NEW m \in Jobs, Peers(j, m), job'[j].status # "absent", Newest(m)'
      PROVE  origin'[j] <= origin'[m]
  <2>1. /\ Exists(m)'
        /\ \A i \in Jobs : Exists(i)' /\ RuntimeOf[i] = RuntimeOf[m] => job'[i].seq <= job'[m].seq
    BY <1>7 DEF Newest, Group, Exists
  <2>2. CASE j = m
    BY <1>1, <2>2
  <2>3. CASE j # m
    <3>1. ~BornNow(j)
      BY <1>1, <1>3, <1>5, <1>7, <2>1, <2>3 DEF Peers
    <3>2. job[j].status # "absent" /\ origin'[j] = origin[j]
      BY <1>3, <1>7, <3>1
    <3>3. CASE BornNow(m)
      BY <1>7, <3>2, <3>3, BornLast
    <3>4. CASE ~BornNow(m)
      <4>1. Exists(m) /\ job'[m].seq = job[m].seq /\ origin'[m] = origin[m]
        BY <1>3, <2>1, <3>4 DEF OrderStep, Exists, Absent
      <4>2. ASSUME NEW i \in Group(m) PROVE job[i].seq <= job[m].seq
        <5>1. i \in Jobs /\ Exists(i) /\ RuntimeOf[i] = RuntimeOf[m] /\ job[i].status # "absent"
          BY DEF Group, Exists, Absent
        <5>2. CASE Exists(i)'
          <6>1. job'[i].seq = job[i].seq
            BY <5>1, <5>2 DEF OrderStep
          <6> QED BY <2>1, <4>1, <5>1, <5>2, <6>1
        <5>3. CASE ~Exists(i)'
          <6>1. PICK l \in Group(i) : Exists(l)' /\ job[l].seq > job[i].seq
            BY <5>1, <5>3 DEF OrderStep
          <6>2. /\ l \in Jobs /\ Exists(l) /\ RuntimeOf[l] = RuntimeOf[m]
                /\ job[l].status # "absent"
            BY <5>1, <6>1 DEF Group, Exists, Absent
          <6>3. job'[l].seq = job[l].seq
            BY <6>1, <6>2 DEF OrderStep
          <6>4. job[l].seq <= job[m].seq
            BY <2>1, <4>1, <6>1, <6>2, <6>3
          <6> QED BY <1>1, <5>1, <6>1, <6>2, <6>4
        <5> QED BY <5>2, <5>3
      <4>3. Newest(m)
        BY <4>1, <4>2 DEF Newest
      <4> QED BY <1>7, <3>2, <4>1, <4>3 DEF OrderInv
    <3> QED BY <3>3, <3>4
  <2> QED BY <2>2, <2>3
<1>8. ASSUME NEW j \in Jobs, NEW k \in Jobs, Peers(j, k), Exists(j)',
             job'[j].status \notin Terminal, commits'[k] > 0
      PROVE  origin'[k] <= origin'[j]
  <2>1. commits[k] > 0 \/ job[k].status = "committing"
    BY <1>8 DEF OrderStep
  <2>2. job[k].status # "absent" /\ commits[k] \in Nat
    BY <2>1 DEF IInv, TypeInv, TypeOK, OutcomeMatchesCommit
  <2>3. origin'[k] = origin[k]
    BY <1>3, <2>2
  <2>4. CASE BornNow(j)
    BY <1>8, <2>2, <2>3, <2>4, BornLast DEF Peers
  <2>5. CASE ~BornNow(j)
    <3>1. /\ Exists(j) /\ job[j].status \notin Terminal /\ origin'[j] = origin[j]
      BY <1>3, <1>8, <2>5 DEF OrderStep, Exists, Absent
    <3>2. CASE commits[k] > 0
      BY <1>8, <2>3, <3>1, <3>2 DEF OrderInv
    <3>3. CASE job[k].status = "committing" /\ k # j
      <4>1. /\ Exists(k) /\ job[k].seq # job[j].seq
            /\ ~(job[j].seq < job[k].seq)
        BY <1>8, <3>1, <3>3 DEF IInv, SerialPerRuntime, Peers, Exists, Active, Absent
      <4>2. job[k].seq < job[j].seq
        BY <1>1, <4>1
      <4> QED BY <1>8, <2>3, <3>1, <4>1, <4>2 DEF OrderInv, Peers
    <3>4. CASE k = j
      BY <1>1, <3>4
    <3> QED BY <2>1, <3>2, <3>3, <3>4
  <2> QED BY <2>4, <2>5
<1>9. \A j \in Jobs : origin'[j] <= counter'
  BY <1>4
<1> QED BY <1>6, <1>7, <1>8, <1>9 DEF OrderInv, Peers

LEMMA OrderInvariance ==
  ASSUME Keep > 0
  PROVE  Spec => [](IInv /\ OrderInv)
<1>1. Init => IInv /\ OrderInv
  <2> SUFFICES ASSUME Init PROVE OrderInv
    BY InitInvariant
  <2>1. /\ counter = 0 /\ \A j \in Jobs : origin[j] = 0 /\ ~Exists(j) /\ job[j].status = "absent"
    BY DEF Init, NoRow, Exists, Absent
  <2> QED BY <2>1 DEF OrderInv
<1>2. IInv /\ OrderInv /\ [Next]_vars => (IInv /\ OrderInv)'
  <2> SUFFICES ASSUME IInv, OrderInv, [Next]_vars PROVE IInv' /\ OrderInv'
    OBVIOUS
  <2>1. IInv' /\ StepShape
    BY StepInvariant, NextShape
  <2>2. counter <= counter'
    <3>1. counter \in Nat /\ SourceStep
      BY NextSource DEF IInv, TypeInv, TypeOK
    <3> QED BY <3>1 DEF SourceStep, Creates
  <2> QED BY <2>1, <2>2, NextOrder, OrderKept
<1> QED BY <1>1, <1>2, PTL DEF Spec

\* The writes of jobs that settle before the next execution commit in the order
\* of the executions they came from: a retry is refused when a later job of the
\* runtime exists (RuntimeJobSupersededError), and pruning keeps the latest one
\* (RETAINED_TERMINAL_RUNTIME_JOBS is positive), so the refusal cannot be missed.
THEOREM SettlingOrder ==
  ASSUME Keep > 0
  PROVE  Spec => SettlingCommitsInSourceOrder
<1> DEFINE Ordered ==
      \A j, k \in Jobs :
        /\ RuntimeOf[j] = RuntimeOf[k] /\ RuntimeOf[j] \in Settling
        /\ commits'[j] # commits[j] /\ commits[k] > 0
        => origin[k] <= origin[j]
<1>1. IInv /\ OrderInv /\ [Next]_vars => [Ordered]_vars
  <2> SUFFICES ASSUME IInv, OrderInv, [Next]_vars, NEW j \in Jobs, NEW k \in Jobs,
                      Peers(j, k), commits'[j] # commits[j], commits[k] > 0
               PROVE  origin[k] <= origin[j]
    BY DEF Peers
  <2>1. PICK w \in Workers, to \in {"succeeded", "failed"}, f \in Jobs \cup {NoJob},
             e \in {"none", "error"} : ExecCommit(w, j, to, f, e)
    BY CommitsInTransaction DEF IInv, TypeInv
  <2>2. job[j].status = "committing"
    BY <2>1 DEF ExecCommit, Holds
  <2>3. Exists(j) /\ job[j].status \notin Terminal
    BY <2>2 DEF Exists, Absent, Terminal
  <2> QED BY <2>3 DEF OrderInv
<1>2. Spec => [](IInv /\ OrderInv)
  BY OrderInvariance
<1> QED BY <1>1, <1>2, PTL DEF Spec, SettlingCommitsInSourceOrder
=============================================================================
