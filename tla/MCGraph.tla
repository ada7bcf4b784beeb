------------------------------ MODULE MCGraph ------------------------------
(***************************************************************************)
(* Three symbols that are compiled separately and may depend on one        *)
(* another in any way, cycles included, while two queries wait for them.   *)
(***************************************************************************)
EXTENDS OrcProps, TLC

CONSTANTS a, b, c, ua, ub, uc, q1, q2, dt, none

MCUnitSyms == (ua :> {a}) @@ (ub :> {b}) @@ (uc :> {c})
MCUnitWeak == [u \in Unit |-> {}]
MCUnitTracker == [u \in Unit |-> dt]
MCQuerySyms == (q1 :> {a, b, c}) @@ (q2 :> {a, b})
MCQueryWeak == [q \in Query |-> {}]
MCQueryState == (q1 :> Ready) @@ (q2 :> Resolved)
MCLinkQuery == [u \in Unit |-> none]
MCDeclarable == {{x} : x \in Sym} \cup {Sym}
=============================================================================
