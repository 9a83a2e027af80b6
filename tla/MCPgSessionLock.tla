-------------------------- MODULE MCPgSessionLock --------------------------
(***************************************************************************)
(* A call on pod p takes key 1 (outer). Inside it key 2 is taken by an     *)
(* awaited call (nested), by a branch that also lists key 1 and may come   *)
(* after outer is over (branch), and by a probe (check); inside nested,    *)
(* key 1 is asked for again (inner, peek). On pod q a call of both keys,   *)
(* listed the other way round (other), and a probe of key 2 compete for    *)
(* the only connection. A branch of nested may outlive it (again).         *)
(***************************************************************************)
EXTENDS PgSessionLock, TLC

CONSTANTS p, q, outer, nested, inner, peek, branch, check, other, probe, again

MCList ==
  LET both == {branch, other}
      one == {outer, inner, peek}
  IN  [c \in Calls |-> CASE c \in both -> <<2, 1>>
                         [] c \in one -> <<1>>
                         [] OTHER -> <<2>>]

MCParent ==
  [c \in Calls |-> CASE c \in {nested, branch, check} -> outer
                     [] c \in {inner, peek, again} -> nested
                     [] OTHER -> NoCall]

MCWhen ==
  [c \in Calls |-> IF c \in {branch, again} THEN {"run", "done"} ELSE {"run"}]

MCPodOf == [c \in Calls |-> IF c \in {other, probe} THEN q ELSE p]
=============================================================================
