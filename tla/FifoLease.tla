----------------------------- MODULE FifoLease -----------------------------
(***************************************************************************)
(* What the in-process session lock promises: each key is held by one call *)
(* at a time, and calls get it in the order in which they asked for it.    *)
(* Keys are independent; one step may serve several of them.               *)
(***************************************************************************)
EXTENDS Sequences

CONSTANTS Calls, Keys

VARIABLES
  line,     \* per key, the calls that wait for it or hold it, in order
  holders   \* per key, the calls that hold it

vars == <<line, holders>>

Init ==
  /\ line = [k \in Keys |-> <<>>]
  /\ holders = [k \in Keys |-> {}]

Idle(k) == line'[k] = line[k] /\ holders'[k] = holders[k]

Ask(k) ==
  /\ \E c \in Calls : line'[k] = Append(line[k], c)
  /\ holders'[k] = holders[k]

Grant(k) ==
  /\ holders[k] = {} /\ line[k] # <<>>
  /\ holders'[k] = {Head(line[k])}
  /\ line'[k] = line[k]

Give(k) ==
  /\ line[k] # <<>> /\ holders[k] = {Head(line[k])}
  /\ holders'[k] = {}
  /\ line'[k] = Tail(line[k])

Next == \A k \in Keys : Idle(k) \/ Ask(k) \/ Grant(k) \/ Give(k)

Spec == Init /\ [][Next]_vars
=============================================================================
