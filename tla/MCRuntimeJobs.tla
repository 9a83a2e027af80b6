--------------------------- MODULE MCRuntimeJobs ---------------------------
(***************************************************************************)
(* Instances of RuntimeJobs for TLC. All jobs are of one runtime, where    *)
(* they compete for its lock and wait for each other; job ids and workers  *)
(* are interchangeable, which the symmetry sets use in the runs that check *)
(* no liveness.                                                            *)
(***************************************************************************)
EXTENDS RuntimeJobs, TLC

CONSTANTS w1, w2, j1, j2, j3, r1

MCRuntimeOf == [j \in Jobs |-> r1]

WorkerSymmetry == Permutations(Workers)
JobSymmetry == Permutations(Jobs)

-----------------------------------------------------------------------------
(* Liveness of a queue and of a job whose worker fails, in one run: either *)
(* w2 is already down and w1 has two jobs to do, or j2 is a job of the     *)
(* past and w2 may still fail.                                             *)

LiveInit ==
  /\ \E gone \in {w2, j2} :
       /\ job = [j \in Jobs |-> IF j = gone THEN [NoRow EXCEPT !.status = "pruned"] ELSE NoRow]
       /\ up = [w \in Workers |-> IF w = gone THEN "down" ELSE "up"]
  /\ counter = 0 /\ queueLate = {} /\ leaseLate = {}
  /\ scan = [j \in Jobs |-> NoRev]
  /\ run = [w \in Workers |-> [j \in Jobs |-> NoRun]]
  /\ sessLock = NoHolder
  /\ rtLock = [r \in Runtimes |-> NoHolder]
  /\ session = [active |-> TRUE, gen |-> 0] /\ changes = 0
  /\ commits = [j \in Jobs |-> 0]
  /\ verdict = [j \in Jobs |-> "none"]
  /\ born = [j \in Jobs |-> 0] /\ origin = born

LiveSpec == LiveInit /\ [][Next]_vars /\ Fairness
=============================================================================
