------------------------------ MODULE MCRemote ------------------------------
(***************************************************************************)
(* A request whose work dispatches back to the JIT, whose handler calls    *)
(* the executor again, and another request that runs beside them.          *)
(***************************************************************************)
EXTENDS OrcRemote

CONSTANTS setup, outer, back, inner, aside

MCMaker == [r \in Req |-> IF r = back THEN "exec" ELSE "jit"]
MCParent == [r \in Req |-> CASE r = back -> outer [] r = inner -> back [] OTHER -> r]
=============================================================================
