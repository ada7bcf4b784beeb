--------------------------- MODULE OrcGraphProofs ---------------------------
(***************************************************************************)
(* The two records of the dependence graph agree, for every workload.      *)
(***************************************************************************)
EXTENDS OrcProofs

USE DEF Absent, NeverSearched, Materializing, Resolved, Emitted, Ready, SymbolState

\* A step that leaves the edges alone and emits no symbol of the graph.
LEMMA EdgesKept ==
  ASSUME TypeOK, GraphInv, UNCHANGED <<dependants, unemitted>>,
         mi \subseteq mi', mi' \subseteq Sym,
         \A s \in mi : symState[s] < Emitted => symState'[s] < Emitted
  PROVE  GraphInv'
<1>1. \A x \in Sym : \A d \in unemitted[x] : d \in mi
  BY DEF TypeOK, GraphType, GraphInv, DepsMirrored, InfoOfNodes
<1>2. WaitsForUnemitted'
  BY <1>1 DEF GraphInv, WaitsForUnemitted
<1> QED
  BY <1>2 DEF GraphInv, DepsMirrored, NoSelfWait, InfoOfNodes

\* addDependencies records each new edge in both maps.
LEMMA AddDependenciesGraph ==
  ASSUME TypeOK, GraphInv, NEW n \in Sym, AddDependencies(n)
  PROVE  GraphInv'
<1> USE DEF TypeOK, GraphType, TableType, LockType, AddDependencies
<1>1. NewEdges(n) \subseteq Sym /\ n \notin NewEdges(n)
  BY DEF NewEdges, InFlight
<1>2. \A d \in NewEdges(n) : symState[d] < Emitted /\ d \in mi'
  <2> SUFFICES ASSUME NEW d \in NewEdges(n) PROVE symState[d] < Emitted /\ d \in mi'
    OBVIOUS
  <2>1. CASE d \in InFlight(newDeps) /\ symState[d] # Emitted
    BY <2>1 DEF InFlight
  <2>2. CASE \E e \in InFlight(newDeps) : d \in unemitted[e]
    <3>1. PICK e \in Sym : d \in unemitted[e]
      BY <2>2 DEF InFlight
    <3> QED
      BY <3>1, <1>1 DEF GraphInv, WaitsForUnemitted, DepsMirrored, InfoOfNodes
  <2> QED
    BY <2>1, <2>2 DEF NewEdges
<1>3. DepsMirrored'
  BY <1>1 DEF GraphInv, DepsMirrored
<1>4. NoSelfWait'
  BY <1>1 DEF GraphInv, NoSelfWait
<1>5. WaitsForUnemitted'
  BY <1>1, <1>2 DEF GraphInv, WaitsForUnemitted
<1>6. InfoOfNodes'
  BY <1>1, <1>2 DEF GraphInv, InfoOfNodes
<1> QED
  BY <1>3, <1>4, <1>5, <1>6 DEF GraphInv

\* emit hands what the emitted symbol waits for over to its dependants.
LEMMA EmitSymbolGraph ==
  ASSUME TypeOK, GraphInv, NEW s \in Sym, EmitSymbol(s)
  PROVE  GraphInv'
<1> USE DEF TypeOK, GraphType, TableType, EmitSymbol
<1>1. s \notin unemitted[s] /\ s \notin dependants[s]
  BY DEF GraphInv, NoSelfWait, DepsMirrored
<1>2. \A x \in Sym : unemitted'[x] = IF s \in unemitted[x] THEN Inherited(s, x) ELSE unemitted[x]
  BY DEF UnemittedAfter, GraphInv, DepsMirrored
<1>3. \A y \in ReadyAfter(s) : y # s => dependants[y] = {} /\ y \notin unemitted[s]
  BY DEF ReadyAfter, GraphInv, WaitsForUnemitted, DepsMirrored
<1>4. \A y \in Sym : dependants'[y] =
         IF y = s THEN {}
         ELSE IF y \in unemitted[s] THEN dependants[y] \cup (dependants[s] \ {y})
         ELSE dependants[y]
  BY <1>3 DEF DependantsAfter
<1>5. DepsMirrored'
  <2> SUFFICES ASSUME NEW x \in Sym, NEW y \in Sym
               PROVE  x \in unemitted'[y] <=> y \in dependants'[x]
    BY DEF DepsMirrored
  <2>1. CASE x = s
    BY <2>1, <1>1, <1>2, <1>4 DEF Inherited
  <2>2. CASE x # s
    BY <2>2, <1>2, <1>4 DEF Inherited, GraphInv, DepsMirrored
  <2> QED
    BY <2>1, <2>2
<1>6. NoSelfWait'
  BY <1>2 DEF Inherited, GraphInv, NoSelfWait
<1>7. WaitsForUnemitted'
  <2> SUFFICES ASSUME NEW x \in Sym, NEW d \in unemitted'[x] PROVE symState'[d] < Emitted
    BY DEF WaitsForUnemitted
  <2>1. d \in Sym /\ d # s /\ symState[d] < Emitted
    BY <1>1, <1>2 DEF Inherited, GraphInv, WaitsForUnemitted
  <2>2. d \notin ReadyAfter(s)
    BY <2>1 DEF ReadyAfter
  <2> QED
    BY <2>1, <2>2
<1>8. InfoOfNodes'
  <2> SUFFICES ASSUME NEW x \in Sym \ mi' PROVE unemitted'[x] = {} /\ dependants'[x] = {}
    BY DEF InfoOfNodes
  <2>1. CASE x \notin mi
    BY <2>1, <1>1, <1>2, <1>4 DEF GraphInv, InfoOfNodes, DepsMirrored
  <2>2. CASE x \in ReadyAfter(s)
    BY <2>2, <1>1, <1>2, <1>3, <1>4 DEF ReadyAfter, GraphInv, DepsMirrored
  <2> QED
    BY <2>1, <2>2
<1> QED
  BY <1>5, <1>6, <1>7, <1>8 DEF GraphInv

\* failSymbols takes the symbol out of both maps.
LEMMA FailSymbolGraph ==
  ASSUME TypeOK, GraphInv, NEW s \in Sym, FailSymbol(s)
  PROVE  GraphInv'
<1> USE DEF TypeOK, GraphType, TableType, FailSymbol, UnemittedWithout, DependantsWithout
<1>1. DepsMirrored'
  BY DEF GraphInv, DepsMirrored
<1>2. NoSelfWait' /\ WaitsForUnemitted'
  BY DEF GraphInv, NoSelfWait, WaitsForUnemitted
<1>3. InfoOfNodes'
  BY DEF GraphInv, InfoOfNodes
<1> QED
  BY <1>1, <1>2, <1>3 DEF GraphInv

\* A lookup may give symbols a MaterializingInfo and start them.
LEMMA LookUpGraph ==
  ASSUME TypeOK, GraphInv, NEW q \in Query, LookUp(q)
  PROVE  GraphInv'
<1> USE DEF TypeOK, GraphType
<1>1. CASE LookupMatched(q) \/ LookupFails(q) \/ MatchAssertFails(q) \/ UnwindLookup(q)
  BY <1>1, EdgesKept
  DEF LookupMatched, LookupFails, MatchAssertFails, UnwindLookup, graphVars, tableVars
<1>2. ASSUME NEW S \in SUBSET Sym, LodgeFails(q, S) PROVE GraphInv'
  <2>1. PICK W \in SUBSET Sym, C \in SUBSET Unit : symState' = Started(C) /\ mi' = mi \cup W
    BY <1>2, PutBackParts
  <2> QED
    BY <1>2, <2>1, EdgesKept DEF LodgeFails, Started, TableType
<1>3. ASSUME LodgeNotFound(q) \/ LodgeQuery(q) PROVE GraphInv'
  <2>1. PICK W \in SUBSET Sym, C \in SUBSET Unit : symState' = Started(C) /\ mi' = mi \cup W
    BY <1>3, Lodged DEF Lodge
  <2>2. UNCHANGED <<dependants, unemitted>>
    BY <1>3 DEF LodgeNotFound, LodgeQuery
  <2> QED
    BY <2>1, <2>2, EdgesKept DEF Started, TableType
<1> QED
  BY <1>1, <1>2, <1>3 DEF LookUp

LEMMA LockedStepGraph ==
  ASSUME TypeOK, GraphInv, LockedStep
  PROVE  GraphInv'
<1> USE DEF TypeOK, GraphType
<1>1. ASSUME NEW s \in Sym,
             SkipDependencies(s) \/ DependenciesAssertFails(s) \/ FailTrivially(s)
      PROVE  GraphInv'
  BY <1>1, EdgesKept
  DEF SkipDependencies, DependenciesAssertFails, FailTrivially, graphVars, tableVars
<1>2. ASSUME NEW s \in Sym, EmitTrivially(s) PROVE GraphInv'
  BY <1>2, EdgesKept DEF EmitTrivially, graphVars, TableType
<1>3. CASE EraseDoomed
  BY <1>3, EdgesKept DEF EraseDoomed, graphVars, TableType
<1> QED
  BY <1>1, <1>2, <1>3, AddDependenciesGraph, EmitSymbolGraph, FailSymbolGraph DEF LockedStep

LEMMA MaterializeGraph ==
  ASSUME TypeOK, GraphInv, NEW u \in Unit, Materialize(u)
  PROVE  GraphInv'
<1> USE DEF TypeOK, GraphType
<1>1. ASSUME NEW R \in SUBSET Sym, NotifyResolved(u, R) PROVE GraphInv'
  BY <1>1, EdgesKept DEF NotifyResolved, graphVars, TableType
<1>2. CASE UNCHANGED <<tableVars, graphVars>>
  BY <1>2, EdgesKept DEF tableVars, graphVars
<1> QED
  BY <1>1, <1>2
  DEF Materialize, NotifyRefused, OL_AddDependencies, NotifyEmitted, NotifyAssertFails,
      FailMaterialization, DestroyResponsibility

\* Each step keeps the graph consistent.
LEMMA GraphStep ==
  ASSUME TypeOK, GraphInv, [Next]_vars
  PROVE  GraphInv'
<1>1. CASE UNCHANGED <<tableVars, graphVars>>
  BY <1>1, EdgesKept DEF tableVars, graphVars, TypeOK, GraphType
<1>2. ASSUME NEW u \in Unit, Define(u) PROVE GraphInv'
  BY <1>2, EdgesKept DEF Define, graphVars, TypeOK, GraphType, TableType
<1> QED
  BY <1>1, <1>2, LockedStepGraph, MaterializeGraph, LookUpGraph
  DEF Next, AtRest, vars, DispatchUnit, NotifyComplete, RemoveTracker, RemoveAssertFails

\* Dependants and UnemittedDependencies record the same edges at every step, the
\* steps of the loops included: the assertions of emit and failSymbols that look
\* an edge up from its other end hold.
THEOREM GraphCorrect == Spec => []GraphInv
<1>1. Init => GraphInv
  BY DEF Init, GraphInv, DepsMirrored, NoSelfWait, WaitsForUnemitted, InfoOfNodes
<1>2. TypeOK /\ GraphInv /\ [Next]_vars => GraphInv'
  BY GraphStep
<1> QED
  BY <1>1, <1>2, TypeCorrect, PTL DEF Spec

\* The part of it that the runs check.
COROLLARY RecordsMirrored == Spec => []DepsMirrored
  BY GraphCorrect, PTL DEF GraphInv

-----------------------------------------------------------------------------
(* The session with splitting, transfer and removal by name. *)

\* What is split, moved to another tracker or removed by name leaves the graph alone,
\* and no symbol of it is emitted: what defineMaterializing adds is materializing,
\* and what is removed by name is Absent.
LEMMA AddedGraph ==
  ASSUME TypeOK, GraphInv, AddedStep
  PROVE  GraphInv'
<1> USE DEF TypeOK, GraphType, TableType
<1>1. UNCHANGED graphVars
  BY AddedKeeps
<1>2. \A s \in Sym : symState'[s] \in {symState[s], Materializing, Absent}
  BY AddedStates DEF DefineMaterializing, RemoveSymbols
<1> QED
  BY <1>1, <1>2, EdgesKept DEF graphVars

\* The two records of the graph stay mirrored whatever materializers give back,
\* delegate or claim, and whatever clients transfer or remove.
THEOREM FullGraphCorrect == FullSpec => []GraphInv
<1>1. FullInit => GraphInv
  BY DEF FullInit, Init, GraphInv, DepsMirrored, NoSelfWait, WaitsForUnemitted, InfoOfNodes
<1>2. FullTypeOK /\ GraphInv /\ [FullNext]_fullVars => GraphInv'
  BY GraphStep, AddedGraph, FullSteps DEF FullTypeOK
<1> QED
  BY <1>1, <1>2, FullTypeCorrect, PTL DEF FullSpec
=============================================================================
