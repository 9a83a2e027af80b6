--------------------------- MODULE MCSessionLock ---------------------------
(***************************************************************************)
(* Two calls of keys 1 and 2 that list them in opposite orders, a plain    *)
(* call and a probe compete; the first has a nested call that needs a      *)
(* further key, and a branch it does not await which asks for a key of     *)
(* the first and has itself a nested probe.                                *)
(***************************************************************************)
EXTENDS SessionLock, TLC

CONSTANTS a, b, plain, probe, nested, loose, inner

MCCalls == {a, b, plain, probe, nested, loose, inner}
MCList == a :> <<2, 1>> @@ b :> <<1, 2>> @@ plain :> <<1>> @@ probe :> <<2>>
          @@ nested :> <<2, 3>> @@ loose :> <<1>> @@ inner :> <<2>>
MCParent == nested :> a @@ loose :> a @@ inner :> loose
            @@ [c \in {a, b, plain, probe} |-> NoCall]
=============================================================================
