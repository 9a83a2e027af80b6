--------------------------- MODULE MCWorkerDrain ---------------------------
(***************************************************************************)
(* Jobs 1 and 2 are of one runtime, 3 of a runtime of another session.     *)
(* Alone, only wake-ups bring the worker to claim. In the other            *)
(* environments maintenance goes on, and other processes queue and claim   *)
(* jobs, or a job has a queue deadline.                                    *)
(***************************************************************************)
EXTENDS WorkerDrain

CONSTANTS s1, s2, a, b

MCSessionOf == [j \in Jobs |-> IF j = 3 THEN s2 ELSE s1]
MCRuntimeOf == [j \in Jobs |-> IF j = 3 THEN b ELSE a]

Alone == [foreign |-> {}, timed |-> {}, cancellable |-> {}, others |-> FALSE,
          maintenance |-> FALSE, mortal |-> TRUE, maxFails |-> 1]
Shared == [foreign |-> {3}, timed |-> {}, cancellable |-> {1}, others |-> TRUE,
           maintenance |-> TRUE, mortal |-> FALSE, maxFails |-> 0]
Hurried == [foreign |-> {3}, timed |-> {1}, cancellable |-> {1}, others |-> FALSE,
            maintenance |-> TRUE, mortal |-> FALSE, maxFails |-> 0]
MCEnvironments == {Alone, Shared, Hurried}
=============================================================================
