----------------------------- MODULE MCTracker -----------------------------
(***************************************************************************)
(* A symbol is removed with its tracker, at any time, while another unit   *)
(* links against it; a third unit may define it anew.                      *)
(***************************************************************************)
EXTENDS OrcFull, TLC

CONSTANTS a, b, u1, u2, u3, q1, q2, l2, dt, t1, t2, none

MCUnitSyms == (u1 :> {a}) @@ (u2 :> {b}) @@ (u3 :> {a})
MCUnitWeak == [u \in Unit |-> {}]
MCUnitTracker == (u1 :> t1) @@ (u2 :> dt) @@ (u3 :> dt)
MCQuerySyms == (q1 :> {b}) @@ (q2 :> {a}) @@ (l2 :> {a})
MCQueryWeak == [q \in Query |-> {}]
MCQueryState == (q1 :> Ready) @@ (q2 :> Resolved) @@ (l2 :> Resolved)
MCLinkQuery == (u1 :> none) @@ (u2 :> l2) @@ (u3 :> none)
MCNoSyms == [u \in Unit |-> {}]
MCTransferable == {<<t1, t2>>, <<t2, dt>>}
=============================================================================
