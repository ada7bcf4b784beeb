--------------------------- MODULE OrcTableProofs ---------------------------
(***************************************************************************)
(* The symbol table, the unmaterialized infos and the trackers' lists of   *)
(* responsibilities agree, for every workload.                             *)
(***************************************************************************)
EXTENDS OrcProofs

USE DEF Absent, NeverSearched, Materializing, Resolved, Emitted, Ready, SymbolState

\* A step that leaves the table and the units alone and is not in a loop, or
\* leaves the loop with a smaller worklist.
LEMMA TableKept ==
  ASSUME TypeOK, TableInv, UNCHANGED <<symState, attached, umi, phase>>,
         \A u \in Unit : phase[u] = "defined" => usyms'[u] = usyms[u],
         \/ section' \notin {"emit", "deps"}
         \/ section' = section /\ todo' \subseteq todo /\ newDeps' \subseteq newDeps
  PROVE  TableInv'
<1> USE DEF TableInv, TypeOK, TableType
<1>1. AttachedHasUnit'
  BY NoneAssumption DEF AttachedHasUnit
<1>2. NeverSearchedAttached'
  BY DEF NeverSearchedAttached
<1>3. EmitsResolved' /\ DependsOnMoving'
  BY DEF EmitsResolved, DependsOnMoving
<1> QED
  BY <1>1, <1>2, <1>3

\* One iteration of emit: the symbol is not attached, for it is resolved, and
\* nor are the emitted symbols that become ready with it.
LEMMA EmitTable ==
  ASSUME TypeOK, TableInv, NEW s \in Sym, EmitSymbol(s) \/ EmitTrivially(s)
  PROVE  TableInv'
<1> USE DEF TableInv, TypeOK, TableType
<1>1. symState[s] = Resolved /\ section = "emit" /\ s \in todo
  BY DEF EmitSymbol, EmitTrivially, EmitsResolved
<1>2. \A x \in Sym : symState'[x] = symState[x] \/ (x \in {s} \cup ReadyAfter(s) /\ symState'[x] >= Emitted)
  BY DEF EmitSymbol, EmitTrivially
<1>3. \A x \in {s} \cup ReadyAfter(s) : x \in Sym => symState[x] >= Resolved
  BY <1>1 DEF ReadyAfter
<1>4. \A x \in Sym : symState'[x] # symState[x] => symState[x] >= Resolved /\ symState'[x] >= Emitted
  BY <1>2, <1>3
<1>5. UNCHANGED <<attached, umi, phase, usyms>>
  BY DEF EmitSymbol, EmitTrivially, unitVars
<1>6. AttachedHasUnit'
  BY <1>4, <1>5 DEF AttachedHasUnit
<1>7. NeverSearchedAttached'
  BY <1>4, <1>5 DEF NeverSearchedAttached
<1>8. EmitsResolved'
  <2>1. todo' = todo \ {s}
    BY DEF EmitSymbol, EmitTrivially, Continue
  <2>2. \A x \in todo \ {s} : x \notin {s} \cup ReadyAfter(s)
    BY <1>1 DEF EmitsResolved, ReadyAfter
  <2> QED
    BY <1>1, <1>2, <2>1, <2>2 DEF EmitsResolved, LockType
<1>9. DependsOnMoving'
  BY <1>1 DEF EmitSymbol, EmitTrivially, Continue, DependsOnMoving
<1> QED
  BY <1>6, <1>7, <1>8, <1>9

\* removeTracker takes the symbol, its flag and its info out together.
LEMMA EraseTable ==
  ASSUME TypeOK, TableInv, EraseDoomed
  PROVE  TableInv'
<1> USE DEF TableInv, TypeOK, TableType, EraseDoomed
<1>1. AttachedHasUnit'
  BY NoneAssumption DEF AttachedHasUnit, Orphaned
<1>2. NeverSearchedAttached'
  BY DEF NeverSearchedAttached
<1>3. EmitsResolved' /\ DependsOnMoving'
  BY DEF EmitsResolved, DependsOnMoving
<1> QED
  BY <1>1, <1>2, <1>3

LEMMA LockedStepTable ==
  ASSUME TypeOK, TableInv, LockedStep
  PROVE  TableInv'
<1>1. ASSUME NEW s \in Sym, AddDependencies(s) \/ SkipDependencies(s) PROVE TableInv'
  BY <1>1, TableKept DEF AddDependencies, SkipDependencies, Continue, unitVars, tableVars
<1>2. ASSUME NEW s \in Sym, DependenciesAssertFails(s) PROVE TableInv'
  BY <1>2, TableKept DEF DependenciesAssertFails, unitVars, tableVars
<1>3. ASSUME NEW s \in Sym, FailSymbol(s) \/ FailTrivially(s) PROVE TableInv'
  BY <1>3, TableKept DEF FailSymbol, FailTrivially, Continue, unitVars, tableVars
<1> QED
  BY <1>1, <1>2, <1>3, EmitTable, EraseTable DEF LockedStep

\* Units that are running are attached nowhere.
LEMMA MaterializeTable ==
  ASSUME TypeOK, TableInv, NEW u \in Unit, Materialize(u)
  PROVE  TableInv'
<1> USE DEF TypeOK, TableInv, UnitType
<1>1. ASSUME NEW R \in SUBSET Sym, NotifyResolved(u, R) PROVE TableInv'
  <2> USE <1>1 DEF NotifyResolved, unitVars, lockVars, Unlocked
  <2>1. AttachedHasUnit'
    BY DEF AttachedHasUnit, TableType
  <2>2. NeverSearchedAttached'
    BY DEF NeverSearchedAttached, TableType
  <2>3. EmitsResolved' /\ DependsOnMoving'
    BY DEF EmitsResolved, DependsOnMoving
  <2> QED
    BY <2>1, <2>2, <2>3
<1>2. ASSUME NEW R \in SUBSET Sym, NotifyRefused(u, R) PROVE TableInv'
  BY <1>2, TableKept DEF NotifyRefused, tableVars, lockVars, Unlocked
<1>3. ASSUME NEW n \in Sym, NEW D \in Declarable, OL_AddDependencies(u, n, D) PROVE TableInv'
  <2> USE <1>3 DEF OL_AddDependencies, unitVars, tableVars, Unlocked
  <2>1. AttachedHasUnit' /\ NeverSearchedAttached'
    BY DEF AttachedHasUnit, NeverSearchedAttached
  <2>2. EmitsResolved' /\ DependsOnMoving'
    BY DEF EmitsResolved, DependsOnMoving, InMotion
  <2> QED
    BY <2>1, <2>2
<1>4. CASE NotifyEmitted(u)
  <2> USE <1>4 DEF NotifyEmitted, tableVars, Unlocked, Active
  <2>1. AttachedHasUnit' /\ NeverSearchedAttached'
    BY DEF AttachedHasUnit, NeverSearchedAttached
  <2>2. EmitsResolved' /\ DependsOnMoving'
    BY DEF EmitsResolved, DependsOnMoving
  <2> QED
    BY <2>1, <2>2
<1>5. CASE NotifyAssertFails(u)
  BY <1>5, TableKept DEF NotifyAssertFails, tableVars, unitVars
<1>6. CASE FailMaterialization(u)
  BY <1>6, TableKept DEF FailMaterialization, tableVars, Unlocked
<1>7. CASE DestroyResponsibility(u)
  <2> USE <1>7 DEF DestroyResponsibility, tableVars, lockVars, Unlocked
  <2>1. AttachedHasUnit' /\ NeverSearchedAttached'
    BY DEF AttachedHasUnit, NeverSearchedAttached
  <2>2. EmitsResolved' /\ DependsOnMoving'
    BY DEF EmitsResolved, DependsOnMoving
  <2> QED
    BY <2>1, <2>2
<1> QED
  BY <1>1, <1>2, <1>3, <1>4, <1>5, <1>6, <1>7 DEF Materialize

\* A lookup takes the units it collects off every symbol they cover.
LEMMA StillAttached ==
  ASSUME TypeOK, TableInv, NEW C \in SUBSET Unit, NEW s \in attached, s \notin Covered(C)
  PROVE  umi[s] \in Unit /\ umi[s] \notin C /\ umi[s] \notin Orphaned(Covered(C))
<1>1. umi[s] \in Unit /\ umi[s] \notin C
  BY DEF TableInv, TypeOK, TableType, AttachedHasUnit, Covered
<1>2. umi[s] \notin Orphaned(Covered(C))
  BY DEF Orphaned
<1> QED
  BY <1>1, <1>2

LEMMA LodgeTable ==
  ASSUME TypeOK, TableInv, NEW q \in Query, NEW W \in SUBSET Sym, NEW C \in SUBSET Unit,
         NEW p \in {"outstanding", "lost"}, Lodge(q, W, C, p),
         usyms' = usyms
  PROVE  AttachedHasUnit' /\ NeverSearchedAttached'
<1> USE DEF TableInv, TypeOK, TableType, UnitType, Lodge
<1>1. ASSUME NEW s \in attached, s \notin Covered(C)
      PROVE  /\ umi'[s] = umi[s] /\ umi[s] \in Unit /\ symState'[s] = symState[s]
             /\ phase'[umi[s]] = "defined" /\ s \in usyms'[umi[s]]
  BY <1>1, StillAttached DEF AttachedHasUnit, Started
<1>2. AttachedHasUnit'
  BY <1>1, NoneAssumption DEF AttachedHasUnit
<1>3. NeverSearchedAttached'
  BY DEF NeverSearchedAttached, Started
<1> QED
  BY <1>2, <1>3

\* A failing phase 2 attaches what it has detached to units that list it.
LEMMA PutBackTable ==
  ASSUME TypeOK, TableInv, NEW q \in Query, NEW S \in SUBSET Sym, LodgeFails(q, S)
  PROVE  AttachedHasUnit' /\ NeverSearchedAttached'
<1> USE DEF TableInv, TypeOK, TableType, UnitType
<1>1. PICK W \in SUBSET Sym, C \in SUBSET Unit :
        /\ C \subseteq Collected(S)
        /\ symState' = Started(C)
        /\ attached' = (attached \ Covered(C)) \cup PutBack(W, C)
        /\ umi' = [s \in Sym |->
             IF s \in PutBack(W, C) THEN CHOOSE u \in C : s \in usyms[u]
             ELSE IF s \in Covered(C) THEN None ELSE umi[s]]
        /\ phase' = [u \in Unit |-> IF u \in Orphaned(Covered(C)) \ C THEN "lost"
                                    ELSE phase[u]]
  BY PutBackParts
<1>2. usyms' = usyms /\ PutBack(W, C) = Covered(C)
  BY DEF LodgeFails, PutBack, Covered
<1>3. ASSUME NEW s \in Covered(C)
      PROVE  /\ s \in attached' /\ umi'[s] \in C /\ symState'[s] = Materializing
             /\ phase'[umi'[s]] = "defined" /\ s \in usyms'[umi'[s]]
  <2>1. s \in Sym /\ s \in PutBack(W, C) /\ umi'[s] = CHOOSE u \in C : s \in usyms[u]
    BY <1>1, <1>2, <1>3 DEF PutBack
  <2>2. umi'[s] \in C /\ s \in usyms[umi'[s]]
    BY <2>1, PutBackUnit
  <2>3. phase[umi'[s]] = "defined"
    BY <1>1, <2>2 DEF Collected, AttachedHasUnit
  <2> QED
    BY <1>1, <1>2, <2>1, <2>2, <2>3 DEF Started
<1>4. ASSUME NEW s \in attached, s \notin Covered(C)
      PROVE  /\ s \in attached' /\ umi'[s] = umi[s] /\ umi[s] \in Unit
             /\ symState'[s] = symState[s]
             /\ phase'[umi[s]] = "defined" /\ s \in usyms'[umi[s]]
  BY <1>1, <1>2, <1>4, StillAttached DEF AttachedHasUnit, Started
<1>5. ASSUME NEW s \in Sym, s \notin attached, s \notin Covered(C)
      PROVE  s \notin attached' /\ umi'[s] = None /\ symState'[s] = symState[s]
  BY <1>1, <1>2, <1>5 DEF AttachedHasUnit, Started
<1>6. AttachedHasUnit'
  BY <1>3, <1>4, <1>5, NoneAssumption DEF AttachedHasUnit
<1>7. NeverSearchedAttached'
  BY <1>3, <1>4, <1>5 DEF NeverSearchedAttached
<1> QED
  BY <1>6, <1>7

LEMMA LookUpTable ==
  ASSUME TypeOK, TableInv, NEW q \in Query, LookUp(q)
  PROVE  TableInv'
<1> USE DEF TypeOK, TableInv
<1>1. CASE \/ LookupMatched(q) \/ LookupFails(q) \/ MatchAssertFails(q) \/ UnwindLookup(q)
  BY <1>1, TableKept
  DEF LookupMatched, LookupFails, MatchAssertFails, UnwindLookup, tableVars, unitVars,
      lockVars, Unlocked
<1>2. ASSUME NEW S \in SUBSET Sym, LodgeFails(q, S) PROVE TableInv'
  <2> USE <1>2 DEF LodgeFails, lockVars, Unlocked
  <2>1. AttachedHasUnit' /\ NeverSearchedAttached'
    BY PutBackTable
  <2>2. EmitsResolved' /\ DependsOnMoving'
    BY DEF EmitsResolved, DependsOnMoving
  <2> QED
    BY <2>1, <2>2
<1>l. ASSUME LodgeNotFound(q) \/ LodgeQuery(q)
      PROVE  AttachedHasUnit' /\ NeverSearchedAttached'
  <2>1. PICK W \in SUBSET Sym, C \in SUBSET Unit, p \in {"lost", "outstanding"} :
          Lodge(q, W, C, p)
    BY <1>l, Lodged
  <2>2. usyms' = usyms
    BY <1>l DEF LodgeNotFound, LodgeQuery
  <2> QED
    BY <2>1, <2>2, LodgeTable
<1>3. CASE LodgeNotFound(q)
  <2> USE <1>3 DEF LodgeNotFound, lockVars, Unlocked
  <2>1. AttachedHasUnit' /\ NeverSearchedAttached'
    BY <1>l
  <2>2. EmitsResolved' /\ DependsOnMoving'
    BY DEF EmitsResolved, DependsOnMoving
  <2> QED
    BY <2>1, <2>2
<1>4. CASE LodgeQuery(q)
  <2>0. PICK W \in SUBSET Found(q), C \in SUBSET Collected(Found(q)) :
          /\ Matching(q, Found(q), W, C)
          /\ Lodge(q, W, C, "outstanding")
          /\ IF Linked(q) # {} /\ W # {}
             THEN section' = "deps" /\ todo' = Linked(q) /\ newDeps' = W
             ELSE UNCHANGED <<section, todo, newDeps>>
    BY <1>4 DEF LodgeQuery
  <2> USE <1>4 DEF LodgeQuery, Unlocked
  <2>1. AttachedHasUnit' /\ NeverSearchedAttached'
    BY <1>l
  <2>2. \A d \in W : symState'[d] >= Materializing
    <3> SUFFICES ASSUME NEW d \in W PROVE symState'[d] >= Materializing
      OBVIOUS
    <3>1. d \in Sym /\ symState[d] # Absent
      BY WorkloadAssumption DEF Found, Present
    <3>2. CASE symState[d] = NeverSearched
      <4>1. d \in Found(q) \cap attached
        BY <3>1, <3>2 DEF NeverSearchedAttached
      <4>2. d \in Covered(C)
        BY <2>0, <4>1 DEF Matching
      <4> QED
        BY <2>0, <3>1, <4>2 DEF Lodge, Started
    <3>3. CASE symState[d] # NeverSearched
      BY <2>0, <3>1, <3>3 DEF Lodge, Started, TableType
    <3> QED
      BY <3>2, <3>3
  <2>3. EmitsResolved' /\ DependsOnMoving'
    BY <2>0, <2>2 DEF EmitsResolved, DependsOnMoving
  <2> QED
    BY <2>1, <2>3
<1> QED
  BY <1>1, <1>2, <1>3, <1>4 DEF LookUp

\* define sets flag, info and state of the same symbols, and takes them from the
\* units that defined them weakly.
LEMMA DefineTable ==
  ASSUME TypeOK, TableInv, NEW u \in Unit, Define(u)
  PROVE  TableInv'
<1> USE DEF TableInv, TypeOK, TableType, UnitType, Define, Unlocked, lockVars
<1>1. Defined(u) \in SUBSET Sym
  BY DEF Defined
<1>2. ASSUME NEW s \in Defined(u)
      PROVE  /\ s \in attached' /\ umi'[s] = u /\ symState'[s] = NeverSearched
             /\ phase'[u] = "defined" /\ s \in usyms'[u]
  BY <1>1
<1>3. ASSUME NEW s \in attached, s \notin Defined(u)
      PROVE  /\ umi'[s] = umi[s] /\ umi[s] \in Unit /\ symState'[s] = symState[s]
             /\ phase'[umi[s]] = "defined" /\ s \in usyms'[umi[s]]
  BY <1>3 DEF AttachedHasUnit, Emptied, Orphaned, Discarded
<1>4. AttachedHasUnit'
  BY <1>1, <1>2, <1>3, NoneAssumption DEF AttachedHasUnit
<1>5. NeverSearchedAttached'
  BY <1>1 DEF NeverSearchedAttached
<1>6. EmitsResolved' /\ DependsOnMoving'
  BY DEF EmitsResolved, DependsOnMoving
<1> QED
  BY <1>4, <1>5, <1>6

\* Each step keeps the table and the infos consistent.
LEMMA TableStep ==
  ASSUME TypeOK, TableInv, [Next]_vars
  PROVE  TableInv'
<1>1. CASE UNCHANGED vars
  BY <1>1, TableKept DEF vars, tableVars, unitVars, lockVars
<1>2. ASSUME NEW u \in Unit, DispatchUnit(u) PROVE TableInv'
  <2> USE <1>2 DEF DispatchUnit, tableVars, lockVars, TableInv, TypeOK, UnitType
  <2>1. AttachedHasUnit' /\ NeverSearchedAttached'
    BY DEF AttachedHasUnit, NeverSearchedAttached
  <2>2. EmitsResolved' /\ DependsOnMoving'
    BY DEF EmitsResolved, DependsOnMoving
  <2> QED
    BY <2>1, <2>2
<1>3. ASSUME NEW q \in Query, NEW o \in Outcomes, NotifyComplete(q, o) PROVE TableInv'
  BY <1>3, TableKept DEF NotifyComplete, tableVars, unitVars, lockVars
<1>4. ASSUME NEW t \in Tracker, RemoveTracker(t) \/ RemoveAssertFails(t) PROVE TableInv'
  BY <1>4, TableKept DEF RemoveTracker, RemoveAssertFails, tableVars, unitVars
<1> QED
  BY <1>1, <1>2, <1>3, <1>4, LockedStepTable, MaterializeTable, LookUpTable, DefineTable
  DEF Next, AtRest

\* A loaded unit is the info of all its symbols.
LEMMA InitTable ==
  ASSUME Init
  PROVE  TableInv
<1>1. \A s \in Sym : LoaderOf(s) # None => LoaderOf(s) \in Loaded /\ s \in UnitSyms[LoaderOf(s)]
  BY DEF LoaderOf
<1>2. \A s \in Sym : s \in attached <=> LoaderOf(s) # None
  BY NoneAssumption, WorkloadAssumption DEF Init, LoaderOf
<1>3. AttachedHasUnit /\ NeverSearchedAttached
  BY <1>1, <1>2, WorkloadAssumption DEF Init, AttachedHasUnit, NeverSearchedAttached
<1>4. EmitsResolved /\ DependsOnMoving
  BY DEF Init, EmitsResolved, DependsOnMoving
<1> QED
  BY <1>3, <1>4 DEF TableInv

\* A symbol has its materializer attached exactly as long as its unit is in the
\* table, covers it and has not been dispatched: looking it up finds the unit.
THEOREM TableCorrect == Spec => []TableInv
<1>1. Init => TableInv
  BY InitTable
<1>2. TypeOK /\ TableInv /\ [Next]_vars => TableInv'
  BY TableStep
<1> QED
  BY <1>1, <1>2, TypeCorrect, PTL DEF Spec

\* The part of it that the runs check.
COROLLARY MaterializerAttached == Spec => []AttachedHasUnit
  BY TableCorrect, PTL DEF TableInv

-----------------------------------------------------------------------------
\* Units that are neither started nor stopped stay where they are listed.
LEMMA ListsKept ==
  ASSUME TypeOK, ResponsibilitiesTracked, UNCHANGED <<trackerMRs, urt>>,
         \A u \in Unit : \/ phase'[u] = phase[u]
                         \/ {phase[u], phase'[u]} \subseteq {"outstanding", "running"}
                         \/ /\ phase[u] \notin {"outstanding", "running"}
                            /\ phase'[u] \notin {"outstanding", "running"}
  PROVE  ResponsibilitiesTracked'
  BY DEF ResponsibilitiesTracked, TypeOK, TrackerType, UnitType

\* Each step keeps the lists of responsibilities.
LEMMA ResponsibilitiesStep ==
  ASSUME TypeOK, TableInv, ResponsibilitiesTracked, [Next]_vars
  PROVE  ResponsibilitiesTracked'
<1> USE DEF TypeOK, UnitType, TrackerType
<1>1. \A W \in SUBSET Sym, u \in Unit : u \in Collected(W) \cup Orphaned(W) => phase[u] = "defined"
  BY DEF Collected, Orphaned, TableInv, AttachedHasUnit
<1>2. CASE UNCHANGED <<trackerMRs, urt, phase>>
  BY <1>2, ListsKept
<1>3. ASSUME NEW u \in Unit, DestroyResponsibility(u) PROVE ResponsibilitiesTracked'
  BY <1>3 DEF DestroyResponsibility, UnlinkMR, ResponsibilitiesTracked
<1>4. ASSUME NEW q \in Query, LodgeNotFound(q) PROVE ResponsibilitiesTracked'
  <2>1. Found(q) \in SUBSET Sym
    BY WorkloadAssumption DEF Found
  <2>2. PICK C \in SUBSET Collected(Found(q)) :
          phase' = [u \in Unit |-> IF u \in C THEN "lost"
                                  ELSE IF u \in Orphaned(Covered(C)) THEN "lost" ELSE phase[u]]
    BY <1>4 DEF LodgeNotFound, Lodge
  <2>3. C \subseteq Unit /\ Covered(C) \in SUBSET Sym
    BY DEF Collected, Covered
  <2>4. \A u \in Unit : \/ phase'[u] = phase[u]
                        \/ phase[u] = "defined" /\ phase'[u] = "lost"
    BY <1>1, <2>1, <2>2, <2>3
  <2> QED
    BY <1>4, <2>4, ListsKept DEF LodgeNotFound, trackerVars
<1>5. ASSUME NEW q \in Query, LodgeQuery(q) PROVE ResponsibilitiesTracked'
  <2>1. Found(q) \in SUBSET Sym
    BY WorkloadAssumption DEF Found
  <2>2. PICK C \in SUBSET Collected(Found(q)) :
          /\ phase' = [u \in Unit |-> IF u \in C THEN "outstanding"
                                     ELSE IF u \in Orphaned(Covered(C)) THEN "lost" ELSE phase[u]]
          /\ trackerMRs' = [t \in Tracker |-> trackerMRs[t] \cup {u \in C : urt[u] = t}]
    BY <1>5 DEF LodgeQuery, Lodge
  <2>3. C \subseteq Unit /\ Covered(C) \in SUBSET Sym
    BY DEF Collected, Covered
  <2>4. /\ urt' = urt /\ \A u \in C : phase[u] = "defined"
        /\ \A u \in Unit \ C : \/ phase'[u] = phase[u]
                               \/ phase[u] = "defined" /\ phase'[u] = "lost"
    BY <1>1, <1>5, <2>1, <2>2, <2>3 DEF LodgeQuery
  <2> QED
    BY <2>2, <2>3, <2>4 DEF ResponsibilitiesTracked
<1>6. ASSUME NEW u \in Unit, DispatchUnit(u) PROVE ResponsibilitiesTracked'
  BY <1>6, ListsKept DEF DispatchUnit, trackerVars
<1>7. ASSUME NEW u \in Unit, Define(u) PROVE ResponsibilitiesTracked'
  <2>1. Defined(u) \in SUBSET Sym
    BY DEF Defined
  <2> QED
    BY <1>1, <1>7, <2>1, ListsKept DEF Define, Emptied
<1>8. CASE EraseDoomed
  BY <1>1, <1>8, ListsKept DEF EraseDoomed, LockType, trackerVars
<1>9. ASSUME NEW u \in Unit, Materialize(u) PROVE ResponsibilitiesTracked'
  BY <1>2, <1>3, <1>9
  DEF Materialize, NotifyResolved, NotifyRefused, OL_AddDependencies, NotifyEmitted,
      NotifyAssertFails, FailMaterialization, unitVars, trackerVars
<1>f. ASSUME NEW q \in Query, NEW S \in SUBSET Sym, LodgeFails(q, S)
      PROVE  ResponsibilitiesTracked'
  <2>2. PICK C \in SUBSET Collected(S) :
          phase' = [u \in Unit |-> IF u \in Orphaned(Covered(C)) \ C THEN "lost"
                                  ELSE phase[u]]
    BY <1>f DEF LodgeFails
  <2>3. Covered(C) \in SUBSET Sym
    BY DEF Collected, Covered
  <2>4. \A u \in Unit : \/ phase'[u] = phase[u]
                        \/ phase[u] = "defined" /\ phase'[u] = "lost"
    BY <1>1, <2>2, <2>3
  <2> QED
    BY <1>f, <2>4, ListsKept DEF LodgeFails, trackerVars
<1>10. ASSUME NEW q \in Query, LookUp(q) PROVE ResponsibilitiesTracked'
  BY <1>2, <1>4, <1>5, <1>10, <1>f
  DEF LookUp, LookupMatched, LookupFails, MatchAssertFails, UnwindLookup,
      unitVars, trackerVars
<1>11. CASE LockedStep
  BY <1>2, <1>8, <1>11
  DEF LockedStep, AddDependencies, SkipDependencies, DependenciesAssertFails, EmitSymbol,
      EmitTrivially, FailSymbol, FailTrivially, unitVars, trackerVars
<1> QED
  BY <1>2, <1>6, <1>7, <1>9, <1>10, <1>11
  DEF Next, AtRest, vars, NotifyComplete, RemoveTracker, RemoveAssertFails, unitVars, trackerVars

\* Every live responsibility, and nothing else, is on the list of its tracker, so
\* that transferring or destroying a tracker finds the responsibilities it has.
THEOREM ResponsibilitiesCorrect == Spec => []ResponsibilitiesTracked
<1>1. Init => ResponsibilitiesTracked
  BY DEF Init, ResponsibilitiesTracked
<1>2. TypeOK /\ TableInv /\ ResponsibilitiesTracked /\ [Next]_vars => ResponsibilitiesTracked'
  BY ResponsibilitiesStep
<1> QED
  BY <1>1, <1>2, TypeCorrect, TableCorrect, PTL DEF Spec

-----------------------------------------------------------------------------
(* The session with splitting, transfer and removal by name. *)

\* What is given back lazily gets flag, info and unit together; what is claimed was
\* not in the table.
LEMMA SplitTable ==
  ASSUME TypeOK, TableInv, NEW u \in Unit, Split(u)
  PROVE  TableInv'
<1> USE DEF TableInv, TypeOK, TableType, UnitType, Unlocked, Splits, Active
<1>1. CASE GetRequestedSymbols(u)
  BY <1>1, TableKept DEF GetRequestedSymbols, vars, tableVars, unitVars, lockVars
<1>2. CASE RequestedAssertFails(u) \/ AdriftAborts(u)
  BY <1>2, TableKept DEF RequestedAssertFails, AdriftAborts, tableVars, unitVars
<1>3. ASSUME NEW v \in Spare, NEW S \in SUBSET usyms[u], ReplaceRunning(u, v, S) \/ Delegate(u, v, S)
      PROVE  TableInv'
  <2>1. /\ UNCHANGED <<symState, attached, umi, section>> /\ v \in Unit
        /\ section = "free" /\ phase[u] # "defined" /\ phase[v] = "new"
        /\ usyms' = [usyms EXCEPT ![u] = LeftWith(u, S), ![v] = S]
        /\ \/ phase' = [phase EXCEPT ![v] = "outstanding"]
           \/ phase' = [phase EXCEPT ![v] = "running"]
    BY <1>3, SplitAssumption DEF ReplaceRunning, Delegate, tableVars, lockVars
  <2>2. AttachedHasUnit' /\ NeverSearchedAttached'
    BY <2>1 DEF AttachedHasUnit, NeverSearchedAttached
  <2>3. EmitsResolved' /\ DependsOnMoving'
    BY <2>1 DEF EmitsResolved, DependsOnMoving
  <2> QED
    BY <2>2, <2>3
<1>4. ASSUME NEW v \in Spare, NEW S \in SUBSET usyms[u], ReplaceLazily(u, v, S) PROVE TableInv'
  <2>1. /\ UNCHANGED <<symState, section>> /\ v \in Unit /\ S \subseteq Sym
        /\ section = "free" /\ phase[u] # "defined" /\ phase[v] = "new"
        /\ \A s \in S : symState[s] = Materializing
        /\ usyms' = [usyms EXCEPT ![u] = LeftWith(u, S), ![v] = S]
        /\ phase' = [phase EXCEPT ![v] = "defined"]
        /\ attached' = attached \cup S
        /\ umi' = [s \in Sym |-> IF s \in S THEN v ELSE umi[s]]
    BY <1>4, SplitAssumption DEF ReplaceLazily, lockVars
  <2>2. AttachedHasUnit' /\ NeverSearchedAttached'
    BY <2>1, NoneAssumption DEF AttachedHasUnit, NeverSearchedAttached
  <2>3. EmitsResolved' /\ DependsOnMoving'
    BY <2>1 DEF EmitsResolved, DependsOnMoving
  <2> QED
    BY <2>2, <2>3
<1>5. ASSUME NEW S \in SUBSET usyms[u], SplitRefused(u, S) PROVE TableInv'
  BY <1>5, TableKept DEF SplitRefused, tableVars, lockVars
<1>6. ASSUME NEW K \in SUBSET ClaimSyms[u], DefineMaterializing(u, K) PROVE TableInv'
  <2>1. \A s \in Accepted(u, K) : s \in Sym => symState[s] = Absent
    BY <1>6 DEF DefineMaterializing, Accepted, Present
  <2>2. AttachedHasUnit' /\ NeverSearchedAttached'
    BY <1>6, <2>1 DEF DefineMaterializing, AttachedHasUnit, NeverSearchedAttached
  <2>3. EmitsResolved' /\ DependsOnMoving'
    BY <1>6 DEF DefineMaterializing, lockVars, EmitsResolved, DependsOnMoving
  <2> QED
    BY <2>2, <2>3
<1>7. ASSUME NEW K \in SUBSET ClaimSyms[u], DefineMaterializingFails(u, K) PROVE TableInv'
  BY <1>7, TableKept DEF DefineMaterializingFails, tableVars, lockVars
<1> QED
  BY <1>1, <1>2, <1>3, <1>4, <1>5, <1>6, <1>7 DEF Split

\* JITDylib::remove takes entry and info out together, and the symbols out of the
\* units that would define them.
LEMMA RemoveSymbolsTable ==
  ASSUME TypeOK, TableInv, NEW S \in SUBSET Sym, RemoveSymbols(S)
  PROVE  TableInv'
<1> USE DEF TableInv, TypeOK, TableType, UnitType, RemoveSymbols, Unlocked, lockVars
<1>1. ASSUME NEW s \in attached, s \notin S
      PROVE  umi[s] \in Unit /\ phase'[umi[s]] = "defined" /\ s \in usyms'[umi[s]]
  BY <1>1 DEF AttachedHasUnit, Orphaned, Discarded
<1>2. AttachedHasUnit'
  BY <1>1, NoneAssumption DEF AttachedHasUnit
<1>3. NeverSearchedAttached'
  BY DEF NeverSearchedAttached
<1>4. EmitsResolved' /\ DependsOnMoving'
  BY DEF EmitsResolved, DependsOnMoving
<1> QED
  BY <1>2, <1>3, <1>4

\* The table and the unmaterialized infos agree also when a materializer gives
\* symbols back or claims others, and when symbols are removed by name.
THEOREM FullTableCorrect == FullSpec => []TableInv
<1>1. FullInit => TableInv
  BY InitTable DEF FullInit
<1>2. FullTypeOK /\ TableInv /\ [FullNext]_fullVars => TableInv'
  <2> SUFFICES ASSUME TypeOK, TableInv, AddedStep PROVE TableInv'
    BY TableStep, FullSteps DEF FullTypeOK
  <2>1. ASSUME NEW src \in Tracker, NEW dst \in Tracker, TransferTracker(src, dst) PROVE TableInv'
    BY <2>1, TableKept DEF TransferTracker, tableVars, lockVars
  <2>2. CASE RemoveDefaultTracker
    BY <2>2, TableKept DEF RemoveDefaultTracker, tableVars, unitVars
  <2> QED
    BY <2>1, <2>2, SplitTable, RemoveSymbolsTable DEF AddedStep
<1> QED
  BY <1>1, <1>2, FullTypeCorrect, PTL DEF FullSpec

\* The lists of responsibilities follow what is split and what is transferred: a
\* new responsibility is linked under the tracker of the old one, and a transfer
\* moves the whole list.
THEOREM FullResponsibilitiesCorrect == FullSpec => []ResponsibilitiesTracked
<1>1. FullInit => ResponsibilitiesTracked
  BY DEF FullInit, Init, ResponsibilitiesTracked
<1>2. FullTypeOK /\ TableInv /\ ResponsibilitiesTracked /\ [FullNext]_fullVars
      => ResponsibilitiesTracked'
  <2> SUFFICES ASSUME TypeOK, TableInv, ResponsibilitiesTracked, AddedStep PROVE ResponsibilitiesTracked'
    BY ResponsibilitiesStep, FullSteps DEF FullTypeOK
  <2> USE DEF TypeOK, UnitType, TrackerType
  <2>1. ASSUME NEW u \in Unit, NEW v \in Spare, NEW S \in SUBSET usyms[u],
               ReplaceRunning(u, v, S) \/ ReplaceLazily(u, v, S) \/ Delegate(u, v, S)
        PROVE  ResponsibilitiesTracked'
    <3>1. v \in Unit /\ phase[v] = "new" /\ urt' = [urt EXCEPT ![v] = urt[u]]
      BY <2>1, SplitAssumption DEF ReplaceRunning, ReplaceLazily, Delegate
    <3>2. CASE ReplaceLazily(u, v, S)
      BY <3>1, <3>2 DEF ReplaceLazily, trackerVars, ResponsibilitiesTracked
    <3>3. CASE ReplaceRunning(u, v, S) \/ Delegate(u, v, S)
      <4>1. /\ trackerMRs' = [trackerMRs EXCEPT ![urt[u]] = @ \cup {v}]
            /\ \A w \in Unit \ {v} : phase'[w] = phase[w]
            /\ phase'[v] \in {"outstanding", "running"}
        BY <3>1, <3>3 DEF ReplaceRunning, Delegate
      <4> QED
        BY <3>1, <4>1 DEF ResponsibilitiesTracked
    <3> QED
      BY <2>1, <3>2, <3>3
  <2>2. ASSUME NEW src \in Tracker, NEW dst \in Tracker, TransferTracker(src, dst)
        PROVE  ResponsibilitiesTracked'
    <3>1. src # dst
      BY <2>2, TransferAssumption DEF TransferTracker
    <3>2. /\ UNCHANGED phase /\ trackerMRs' = MRsAfter(src, dst)
          /\ urt' = [u \in Unit |-> IF u \in Moved(src) THEN dst ELSE urt[u]]
      BY <2>2 DEF TransferTracker
    <3> QED
      BY <3>1, <3>2 DEF MRsAfter, Moved, ResponsibilitiesTracked
  <2>3. ASSUME NEW S \in SUBSET Sym, RemoveSymbols(S) PROVE ResponsibilitiesTracked'
    <3>1. \A u \in Orphaned(S) : phase[u] = "defined"
      BY DEF Orphaned, TableInv, AttachedHasUnit
    <3>2. /\ UNCHANGED <<trackerMRs, urt>>
          /\ phase' = [u \in Unit |-> IF u \in Orphaned(S) THEN "lost" ELSE phase[u]]
      BY <2>3 DEF RemoveSymbols, trackerVars
    <3> QED
      BY <3>1, <3>2, ListsKept
  <2>4. ASSUME NEW u \in Unit, Split(u) PROVE ResponsibilitiesTracked'
    <3>1. ASSUME UNCHANGED <<phase, urt, trackerMRs>> PROVE ResponsibilitiesTracked'
      BY <3>1, ListsKept
    <3>2. CASE GetRequestedSymbols(u)
      BY <3>1, <3>2 DEF GetRequestedSymbols, vars, unitVars, trackerVars
    <3>3. CASE RequestedAssertFails(u) \/ AdriftAborts(u)
      BY <3>1, <3>3 DEF RequestedAssertFails, AdriftAborts, unitVars, trackerVars
    <3>4. ASSUME NEW S \in SUBSET usyms[u], SplitRefused(u, S) PROVE ResponsibilitiesTracked'
      BY <3>1, <3>4 DEF SplitRefused, trackerVars
    <3>5. ASSUME NEW K \in SUBSET ClaimSyms[u],
                 DefineMaterializing(u, K) \/ DefineMaterializingFails(u, K)
          PROVE  ResponsibilitiesTracked'
      BY <3>1, <3>5 DEF DefineMaterializing, DefineMaterializingFails, trackerVars
    <3> QED
      BY <2>1, <2>4, <3>2, <3>3, <3>4, <3>5 DEF Split
  <2>5. CASE RemoveDefaultTracker
    BY <2>5, ListsKept DEF RemoveDefaultTracker, unitVars
  <2> QED
    BY <2>2, <2>3, <2>4, <2>5 DEF AddedStep
<1> QED
  BY <1>1, <1>2, FullTypeCorrect, FullTableCorrect, PTL DEF FullSpec
=============================================================================
