---------------------------- MODULE OrcReadiness ----------------------------
(***************************************************************************)
(* What SymbolState promises, without the machinery: a symbol is emitted   *)
(* once, and it is ready exactly when everything it depends on, directly   *)
(* or through other symbols, has been emitted and has not failed.          *)
(*                                                                         *)
(* The session keeps no transitive closure.  It propagates the set of      *)
(* not yet emitted dependences from symbol to symbol, one emission at a    *)
(* time; OrcProps states that it thereby implements this specification.    *)
(***************************************************************************)
CONSTANT Sym

VARIABLES
  emitted,  \* symbols whose code has been emitted
  ready,    \* symbols that are safe for clients to access
  failed,   \* symbols that will not become ready
  deps      \* what each symbol is known to depend on

vars == <<emitted, ready, failed, deps>>

\* The largest set of symbols of E that depend on symbols of the set only.
Closed(E) == UNION {S \in SUBSET E : \A s \in S : deps[s] \subseteq S}

Init ==
  /\ emitted = {} /\ ready = {} /\ failed = {}
  /\ deps = [s \in Sym |-> {}]

\* A dependence becomes known before the dependant is emitted; it may be one
\* that has failed, and then the dependant fails.
Depend(s, D) ==
  /\ s \notin emitted \cup failed
  /\ deps' = [deps EXCEPT ![s] = @ \cup D]
  /\ failed' = IF D \cap (failed \ ready) = {} THEN failed ELSE failed \cup {s}
  /\ UNCHANGED <<emitted, ready>>

Emit(s) ==
  /\ s \notin emitted \cup failed
  /\ emitted' = emitted \cup {s}
  /\ ready' = Closed(emitted' \ failed)
  /\ UNCHANGED <<failed, deps>>

\* Failure never reaches what is ready.
Fail(S) ==
  /\ S \cap ready = {}
  /\ failed' = failed \cup S
  /\ UNCHANGED <<emitted, ready, deps>>

\* Definitions are taken out of the table, and may be replaced later.
Remove(S) ==
  /\ emitted' = emitted \ S
  /\ ready' = ready \ S
  /\ failed' = failed \ S
  /\ deps' = [s \in Sym |-> IF s \in S THEN {} ELSE deps[s] \ S]

Next ==
  \/ \E s \in Sym, D \in SUBSET Sym : Depend(s, D)
  \/ \E s \in Sym : Emit(s)
  \/ \E S \in SUBSET Sym : Fail(S)
  \/ \E S \in SUBSET Sym : Remove(S)

Spec == Init /\ [][Next]_vars
=============================================================================
