------------------------------- MODULE MCRemove -------------------------------
(***************************************************************************)
(* Trackers are removed while lookups that matched their symbols are       *)
(* between their two phases, and after strong definitions under the same   *)
(* or another tracker have overridden the weak ones.  Lookups of b ask for *)
(* each of the three states that may be asked for.                         *)
(***************************************************************************)
EXTENDS OrcProps, OrcPending, TLC

CONSTANTS a, b, u1, u2, u3, u4, q1, q2, l1, dt, t1, t2, none

MCUnitSyms == [u \in Unit |-> IF u = u2 THEN {b} ELSE IF u = u3 THEN {a, b} ELSE {a}]
MCUnitWeak == [u \in Unit |-> IF u \in {u1, u2} THEN {a, b} ELSE {}]
MCUnitTracker == [u \in Unit |-> IF u = u2 THEN dt ELSE IF u = u3 THEN t2 ELSE t1]
MCQuerySyms == (q1 :> {a, b}) @@ (q2 :> {b}) @@ (l1 :> {b})
MCQueryWeak == [q \in Query |-> {}]
MCQueryState == (q1 :> Ready) @@ (q2 :> Emitted) @@ (l1 :> Resolved)
MCLinkQuery == [u \in Unit |-> IF u = u1 THEN l1 ELSE none]
=============================================================================
