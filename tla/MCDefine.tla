------------------------------ MODULE MCDefine ------------------------------
(***************************************************************************)
(* Strong and weak definitions of the same symbols are added while lookups *)
(* for them are under way; two of the units refer to each other's symbols  *)
(* and are linked in the way RTDyldObjectLinkingLayer links an object: the *)
(* materializer looks the other's symbol up, which registers dependences.  *)
(***************************************************************************)
EXTENDS OrcProps, TLC

CONSTANTS a, b, c, u1, u2, u3, u4, q1, q2, l1, l3, dt, none

MCUnitSyms == (u1 :> {a, b}) @@ (u2 :> {a}) @@ (u3 :> {a, c}) @@ (u4 :> {b})
MCUnitWeak == (u1 :> {a, b}) @@ (u2 :> {}) @@ (u3 :> {a}) @@ (u4 :> {})
MCUnitTracker == [u \in Unit |-> dt]
MCQuerySyms == (q1 :> {b, c}) @@ (q2 :> {c}) @@ (l1 :> {c}) @@ (l3 :> {a})
MCQueryWeak == [q \in Query |-> IF q = q1 THEN {c} ELSE {}]
MCQueryState == (q1 :> Resolved) @@ (q2 :> Ready) @@ (l1 :> Resolved) @@ (l3 :> Resolved)
MCLinkQuery == [u \in Unit |-> CASE u = u1 -> l1 [] u = u3 -> l3 [] OTHER -> none]
=============================================================================
