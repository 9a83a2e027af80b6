-------------------------- MODULE MCSessionLifecycle -----------------------
(***************************************************************************)
(* An instance of SessionLifecycle for TLC: one PATCH ends the session and *)
(* one activates it.                                                       *)
(***************************************************************************)
EXTENDS SessionLifecycle, TLC

CONSTANTS toEnd, toActive

MCPatchTo == toEnd :> "ended" @@ toActive :> "active"
=============================================================================
