------------------------------- MODULE MCGen -------------------------------
(***************************************************************************)
(* Three lookups over two JITDylibs, each with a generator; a symbol of    *)
(* the first one is hidden, and the second one's generator may err and be  *)
(* removed.  What the first one's generator makes may fail to materialize: *)
(* the symbol one lookup wants (z), or one that two lookups want (x).      *)
(***************************************************************************)
EXTENDS OrcGenerators

CONSTANTS x, y, z, d1, d2, g1, g2, l1, l2, l3

MCSearchOrder == [l \in Lookup |-> IF l = l2 THEN <<d2, d1>> ELSE <<d1, d2>>]
MCLookupSet == [l \in Lookup |-> IF l = l3 THEN {y, z} ELSE {x, y}]
MCWeaklyRef == [l \in Lookup |-> IF l = l2 THEN {x} ELSE {}]
MCDefGenerators == [d \in Dylib |-> IF d = d1 THEN <<g1>> ELSE <<g2>>]
MCMakes == [g \in Gen |-> IF g = g1 THEN {x, z} ELSE {y}]
MCHidden == {<<d1, y>>}
MCOwnFallible == {<<d1, z>>}
MCSharedFallible == {<<d1, x>>}
=============================================================================
