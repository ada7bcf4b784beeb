------------------------------- MODULE MCLink -------------------------------
(***************************************************************************)
(* Two units whose code refers to each other's symbols.  Each is linked in *)
(* the way RTDyldObjectLinkingLayer links an object: its materializer      *)
(* looks the other's symbol up, and the lookup registers the dependences.  *)
(***************************************************************************)
EXTENDS OrcProps, TLC

CONSTANTS a, b, c, u1, u2, q1, q2, l1, l2, dt, none

MCUnitSyms == (u1 :> {a, b}) @@ (u2 :> {c})
MCUnitWeak == [u \in Unit |-> {}]
MCUnitTracker == [u \in Unit |-> dt]
MCQuerySyms == (q1 :> {a}) @@ (q2 :> {b, c}) @@ (l1 :> {c}) @@ (l2 :> {a})
MCQueryWeak == [q \in Query |-> {}]
MCQueryState == (q1 :> Ready) @@ (q2 :> Resolved) @@ (l1 :> Resolved) @@ (l2 :> Resolved)
MCLinkQuery == (u1 :> l1) @@ (u2 :> l2)
=============================================================================
