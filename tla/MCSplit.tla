------------------------------ MODULE MCSplit ------------------------------
(***************************************************************************)
(* A unit that splits its two symbols while both are looked up; it claims  *)
(* a third one, and weakly one that exists.  The unit of the third symbol  *)
(* may be defined before or after, and links against the first.            *)
(***************************************************************************)
EXTENDS OrcFull, TLC

CONSTANTS a, b, c, u1, u2, v1, q1, q2, l2, dt, t1, none

MCUnitSyms == [u \in Unit |-> CASE u = u1 -> {a, b} [] u = u2 -> {c} [] OTHER -> {}]
MCUnitWeak == [u \in Unit |-> {}]
MCUnitTracker == [u \in Unit |-> IF u = u1 THEN t1 ELSE dt]
MCClaimSyms == [u \in Unit |-> IF u = u1 THEN {b, c} ELSE {}]
MCClaimWeak == [u \in Unit |-> {b}]
MCQuerySyms == [q \in Query |-> CASE q = q1 -> {a} [] q = q2 -> {c} [] q = l2 -> {b}]
MCQueryWeak == [q \in Query |-> {}]
MCQueryState == [q \in Query |-> IF q = l2 THEN Resolved ELSE Ready]
MCLinkQuery == [u \in Unit |-> IF u = u2 /\ l2 \in Query THEN l2 ELSE none]
=============================================================================
