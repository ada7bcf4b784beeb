----------------------------- MODULE OrcGenLock -----------------------------
(***************************************************************************)
(* What the flag InUse and the queue PendingLookups of a definition        *)
(* generator are for: one lookup at a time is in the generator, those that *)
(* arrive meanwhile wait, and whoever leaves lets one of them in.          *)
(***************************************************************************)
EXTENDS FiniteSets

CONSTANTS Gen, Lookup

VARIABLES holder, waiting

lockVars == <<holder, waiting>>

Init ==
  /\ holder  = [g \in Gen |-> {}]
  /\ waiting = [g \in Gen |-> {}]

\* A lookup finds the generator free.
Enter(g, l) ==
  /\ holder[g] = {} /\ waiting[g] = {}
  /\ holder' = [holder EXCEPT ![g] = {l}]
  /\ UNCHANGED waiting

\* A lookup finds the generator in use.
Wait(g, l) ==
  /\ holder[g] # {} /\ l \notin holder[g] \cup waiting[g]
  /\ waiting' = [waiting EXCEPT ![g] = @ \cup {l}]
  /\ UNCHANGED holder

\* The lookup in the generator leaves, and lets one in if any wait.
HandOver(g, l) ==
  /\ holder[g] # {} /\ l \in waiting[g]
  /\ holder' = [holder EXCEPT ![g] = {l}]
  /\ waiting' = [waiting EXCEPT ![g] = @ \ {l}]

Leave(g) ==
  /\ holder[g] # {} /\ waiting[g] = {}
  /\ holder' = [holder EXCEPT ![g] = {}]
  /\ UNCHANGED waiting

\* The generator is destroyed: whoever waits is turned away.
Destroy(g) ==
  /\ waiting' = [waiting EXCEPT ![g] = {}]
  /\ UNCHANGED holder

Next ==
  \E g \in Gen :
    \/ \E l \in Lookup : Enter(g, l) \/ Wait(g, l) \/ HandOver(g, l)
    \/ Leave(g)
    \/ Destroy(g)

Spec == Init /\ [][Next]_lockVars
=============================================================================
