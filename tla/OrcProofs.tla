----------------------------- MODULE OrcProofs -----------------------------
(***************************************************************************)
(* Theorems about the session, for every workload.                         *)
(***************************************************************************)
EXTENDS OrcFull, TLAPS

USE DEF Absent, NeverSearched, Materializing, Resolved, Emitted, Ready, SymbolState

-----------------------------------------------------------------------------
(***************************************************************************)
(* Types                                                                   *)
(***************************************************************************)

\* A group of variables that a step leaves alone keeps its type.
LEMMA Frame ==
  /\ TableType /\ UNCHANGED tableVars => TableType'
  /\ GraphType /\ UNCHANGED graphVars => GraphType'
  /\ QueryType /\ UNCHANGED queryVars => QueryType'
  /\ UnitType /\ UNCHANGED unitVars => UnitType'
  /\ TrackerType /\ UNCHANGED trackerVars => TrackerType'
  /\ LockType /\ UNCHANGED lockVars => LockType'
  /\ HistoryType /\ UNCHANGED historyVars => HistoryType'
  BY DEF tableVars, graphVars, queryVars, unitVars, trackerVars, lockVars,
         historyVars, TableType, GraphType, QueryType, UnitType, TrackerType,
         LockType, HistoryType

LEMMA InitType == Init => TypeOK
<1> SUFFICES ASSUME Init PROVE TypeOK
  OBVIOUS
<1>1. TableType
  BY WorkloadAssumption DEF Init, TableType, LoaderOf
<1>2. GraphType /\ HistoryType
  BY DEF Init, GraphType, HistoryType
<1>3. QueryType
  BY WorkloadAssumption DEF Init, QueryType, QueryPhases, Answers
<1>4. UnitType
  BY WorkloadAssumption DEF Init, UnitType, UnitPhases
<1>5. TrackerType
  BY WorkloadAssumption DEF Init, TrackerType
<1>6. LockType
  BY DEF Init, LockType, Sections
<1> QED
  BY <1>1, <1>2, <1>3, <1>4, <1>5, <1>6 DEF TypeOK

\* The queries that learn of their symbols.
LEMMA NotifyMetType ==
  ASSUME QueryType, NEW T \in [Sym -> SUBSET Query], NotifyMet(T),
         UNCHANGED <<qphase, answer>>
  PROVE  QueryType'
<1>1. pending' \in [Sym -> SUBSET Query]
  BY DEF QueryType, NotifyMet
<1>2. regs' \in [Query -> SUBSET Sym] /\ outstanding' \in [Query -> SUBSET Sym]
  BY DEF QueryType, NotifyMet
<1>3. due' \in [Query -> SUBSET Outcomes]
  BY DEF QueryType, NotifyMet, Outcomes
<1> QED
  BY <1>1, <1>2, <1>3 DEF QueryType

LEMMA TakeType ==
  ASSUME QueryType, NEW Z, NEW st
  PROVE  TakeQueriesMeeting(Z, st) \in [Sym -> SUBSET Query]
  BY DEF QueryType, TakeQueriesMeeting

LEMMA DetachType ==
  ASSUME QueryType, NEW Q \in SUBSET Query, Detach(Q)
  PROVE  /\ pending' \in [Sym -> SUBSET Query]
         /\ regs' \in [Query -> SUBSET Sym]
         /\ outstanding' \in [Query -> SUBSET Sym]
  BY DEF QueryType, Detach, PendingWithout, Forgotten

LEMMA ContinueType ==
  ASSUME LockType, NEW s, NEW more \in SUBSET Sym, Continue(s, more), UNCHANGED doomed
  PROVE  LockType'
  BY DEF LockType, Continue, Sections

-----------------------------------------------------------------------------
\* The type of each group of variables is kept by the steps under the lock ...
LEMMA LockedStepType ==
  ASSUME TypeOK, LockedStep
  PROVE  TypeOK'
<1> USE DEF TypeOK
<1>1. ASSUME NEW n \in Sym, AddDependencies(n) PROVE TypeOK'
  <2> USE <1>1 DEF AddDependencies
  <2>1. TableType'
    BY DEF TableType
  <2>2. InFlight(newDeps) \in SUBSET Sym /\ NewEdges(n) \in SUBSET Sym
    BY DEF InFlight, NewEdges, LockType, GraphType
  <2>3. GraphType'
    BY <2>2 DEF GraphType
  <2>4. QueryType' /\ UnitType' /\ TrackerType'
    BY Frame
  <2>5. LockType'
    BY ContinueType
  <2>6. HistoryType'
    BY DEF HistoryType, LockType
  <2> QED
    BY <2>1, <2>3, <2>4, <2>5, <2>6
<1>2. ASSUME NEW n \in Sym, SkipDependencies(n) PROVE TypeOK'
  BY <1>2, Frame, ContinueType DEF SkipDependencies
<1>3. ASSUME NEW n \in Sym, DependenciesAssertFails(n) PROVE TypeOK'
  BY <1>3, Frame DEF DependenciesAssertFails, LockType, Sections
<1>4. ASSUME NEW s \in Sym, EmitSymbol(s) PROVE TypeOK'
  <2> USE <1>4 DEF EmitSymbol
  <2>1. TableType'
    BY DEF TableType
  <2>2. GraphType'
    BY DEF GraphType, ReadyAfter, UnemittedAfter, DependantsAfter, Inherited
  <2>3. QueryType'
    BY NotifyMetType, TakeType
  <2>4. UnitType' /\ TrackerType' /\ HistoryType'
    BY Frame
  <2>5. LockType'
    BY ContinueType
  <2> QED
    BY <2>1, <2>2, <2>3, <2>4, <2>5
<1>5. ASSUME NEW s \in Sym, EmitTrivially(s) PROVE TypeOK'
  <2> USE <1>5 DEF EmitTrivially
  <2>1. TableType'
    BY DEF TableType
  <2> QED
    BY <2>1, Frame, ContinueType
<1>6. ASSUME NEW s \in Sym, FailSymbol(s) PROVE TypeOK'
  <2> USE <1>6 DEF FailSymbol
  <2>1. TableType'
    BY DEF TableType, GraphType
  <2>2. GraphType'
    BY DEF GraphType, UnemittedWithout, DependantsWithout
  <2>3. due' \in [Query -> SUBSET Outcomes]
    BY DEF QueryType, Outcomes
  <2>4. pending[s] \in SUBSET Query
    BY DEF QueryType
  <2>5. QueryType'
    BY <2>3, <2>4, DetachType DEF QueryType
  <2>6. UnitType' /\ TrackerType' /\ HistoryType'
    BY Frame
  <2>7. LockType'
    BY ContinueType DEF Cascade, GraphType
  <2> QED
    BY <2>1, <2>2, <2>5, <2>6, <2>7
<1>7. ASSUME NEW s \in Sym, FailTrivially(s) PROVE TypeOK'
  <2> USE <1>7 DEF FailTrivially
  <2>1. TableType'
    BY DEF TableType
  <2> QED
    BY <2>1, Frame, ContinueType
<1>8. ASSUME EraseDoomed PROVE TypeOK'
  <2> USE <1>8 DEF EraseDoomed
  <2>1. TableType'
    BY DEF TableType
  <2>2. UnitType'
    BY DEF UnitType, UnitPhases
  <2>3. HistoryType'
    BY DEF HistoryType
  <2>4. LockType'
    BY DEF LockType, Sections
  <2> QED
    BY <2>1, <2>2, <2>3, <2>4, Frame
<1> QED
  BY <1>1, <1>2, <1>3, <1>4, <1>5, <1>6, <1>7, <1>8 DEF LockedStep

\* ... by the operations of responsibilities ...
LEMMA MaterializeType ==
  ASSUME TypeOK, NEW u \in Unit, Materialize(u)
  PROVE  TypeOK'
<1> USE DEF TypeOK
<1>1. ASSUME NEW R \in SUBSET Sym, NotifyResolved(u, R) PROVE TypeOK'
  <2> USE <1>1 DEF NotifyResolved
  <2>1. TableType'
    BY DEF TableType
  <2>2. QueryType'
    BY NotifyMetType, TakeType
  <2> QED
    BY <2>1, <2>2, Frame
<1>2. ASSUME NEW R \in SUBSET Sym, NotifyRefused(u, R) PROVE TypeOK'
  <2> USE <1>2 DEF NotifyRefused
  <2>1. UnitType'
    BY DEF UnitType
  <2> QED
    BY <2>1, Frame
<1>3. ASSUME NEW n \in Sym, NEW D \in Declarable, OL_AddDependencies(u, n, D) PROVE TypeOK'
  <2> USE <1>3 DEF OL_AddDependencies
  <2>1. LockType'
    BY WorkloadAssumption DEF LockType, UnitType, Sections
  <2> QED
    BY <2>1, Frame
<1>4. ASSUME NotifyEmitted(u) PROVE TypeOK'
  <2> USE <1>4 DEF NotifyEmitted
  <2>1. LockType' /\ UnitType'
    BY DEF LockType, UnitType, Sections
  <2> QED
    BY <2>1, Frame
<1>5. ASSUME NotifyAssertFails(u) PROVE TypeOK'
  BY <1>5, Frame DEF NotifyAssertFails, LockType, Sections
<1>6. ASSUME FailMaterialization(u) PROVE TypeOK'
  <2> USE <1>6 DEF FailMaterialization
  <2>1. LockType' /\ UnitType'
    BY DEF LockType, UnitType, Sections
  <2> QED
    BY <2>1, Frame
<1>7. ASSUME DestroyResponsibility(u) PROVE TypeOK'
  <2> USE <1>7 DEF DestroyResponsibility
  <2>1. UnitType'
    BY DEF UnitType, UnitPhases
  <2>2. TrackerType'
    BY DEF TrackerType, UnlinkMR
  <2> QED
    BY <2>1, <2>2, Frame
<1> QED
  BY <1>1, <1>2, <1>3, <1>4, <1>5, <1>6, <1>7 DEF Materialize

\* ... by lookups ...
LEMMA LodgeType ==
  ASSUME TypeOK, NEW q \in Query, NEW W \in SUBSET Sym, NEW C \in SUBSET Unit,
         NEW p \in UnitPhases, Lodge(q, W, C, p),
         UNCHANGED <<hasError, weak, dependants, unemitted, usyms, urt, erred>>
  PROVE  /\ TableType' /\ GraphType' /\ UnitType'
         /\ pending' \in [Sym -> SUBSET Query]
         /\ regs' \in [Query -> SUBSET Sym]
<1> USE DEF TypeOK, Lodge
<1>1. TableType' /\ GraphType'
  BY DEF TableType, GraphType, Started
<1>2. UnitType'
  BY DEF UnitType, UnitPhases
<1> QED
  BY <1>1, <1>2 DEF QueryType

\* What the matching loop of a lodged lookup has come to.
LEMMA Lodged ==
  ASSUME TypeOK, NEW q \in Query, LodgeNotFound(q) \/ LodgeQuery(q)
  PROVE  \E W \in SUBSET Sym, C \in SUBSET Unit, p \in {"lost", "outstanding"} :
           /\ W \subseteq Found(q) /\ C \subseteq Collected(Found(q))
           /\ Matching(q, Found(q), W, C) /\ Covered(C) \subseteq Present
           /\ Lodge(q, W, C, p)
           /\ p = "lost" => LodgeNotFound(q)
           /\ p = "outstanding" =>
                /\ outstanding' = [outstanding EXCEPT ![q] = W]
                /\ due' = IF W = {} THEN [due EXCEPT ![q] = @ \cup {"success"}] ELSE due
                /\ trackerMRs' = [t \in Tracker |-> trackerMRs[t] \cup {u \in C : urt[u] = t}]
                /\ IF Linked(q) # {} /\ W # {}
                   THEN section' = "deps" /\ todo' = Linked(q) /\ newDeps' = W
                   ELSE UNCHANGED <<section, todo, newDeps>>
<1>0. Found(q) \in SUBSET Sym
  BY WorkloadAssumption DEF Found
<1>1. CASE LodgeNotFound(q)
  <2>1. PICK W \in SUBSET Found(q), C \in SUBSET Collected(Found(q)) :
          /\ Matching(q, Found(q), W, C) /\ Covered(C) \subseteq Present
          /\ Lodge(q, W, C, "lost")
    BY <1>1 DEF LodgeNotFound
  <2>2. W \in SUBSET Sym /\ C \in SUBSET Unit
    BY <1>0 DEF Collected
  <2> QED
    BY <1>1, <2>1, <2>2
<1>2. CASE LodgeQuery(q)
  <2>1. PICK W \in SUBSET Found(q), C \in SUBSET Collected(Found(q)) :
          /\ Matching(q, Found(q), W, C) /\ Covered(C) \subseteq Present
          /\ Lodge(q, W, C, "outstanding")
          /\ outstanding' = [outstanding EXCEPT ![q] = W]
          /\ due' = IF W = {} THEN [due EXCEPT ![q] = @ \cup {"success"}] ELSE due
          /\ trackerMRs' = [t \in Tracker |-> trackerMRs[t] \cup {u \in C : urt[u] = t}]
          /\ IF Linked(q) # {} /\ W # {}
             THEN section' = "deps" /\ todo' = Linked(q) /\ newDeps' = W
             ELSE UNCHANGED <<section, todo, newDeps>>
    BY <1>2 DEF LodgeQuery
  <2>2. W \in SUBSET Sym /\ C \in SUBSET Unit
    BY <1>0 DEF Collected
  <2> QED
    BY <2>1, <2>2
<1> QED
  BY <1>1, <1>2

\* What it has come to when it meets a symbol in the error state.
LEMMA PutBackParts ==
  ASSUME NEW q \in Query, NEW S \in SUBSET Sym, LodgeFails(q, S)
  PROVE  \E W \in SUBSET Sym, C \in SUBSET Unit :
           /\ W \subseteq S /\ S \subseteq Found(q) \ hasError /\ C \subseteq Collected(S)
           /\ Matching(q, S, W, C)
           /\ Covered(C) \subseteq Present /\ ~ Overlap(C)
           /\ symState' = Started(C)
           /\ mi' = mi \cup W
           /\ attached' = (attached \ Covered(C)) \cup PutBack(W, C)
           /\ umi' = [s \in Sym |->
                IF s \in PutBack(W, C) THEN CHOOSE u \in C : s \in usyms[u]
                ELSE IF s \in Covered(C) THEN None ELSE umi[s]]
           /\ phase' = [u \in Unit |-> IF u \in Orphaned(Covered(C)) \ C THEN "lost"
                                       ELSE phase[u]]
<1>1. PICK W \in SUBSET S, C \in SUBSET Collected(S) :
        /\ Matching(q, S, W, C)
        /\ Covered(C) \subseteq Present /\ ~ Overlap(C)
        /\ symState' = Started(C)
        /\ mi' = mi \cup W
        /\ attached' = (attached \ Covered(C)) \cup PutBack(W, C)
        /\ umi' = [s \in Sym |->
             IF s \in PutBack(W, C) THEN CHOOSE u \in C : s \in usyms[u]
             ELSE IF s \in Covered(C) THEN None ELSE umi[s]]
        /\ phase' = [u \in Unit |-> IF u \in Orphaned(Covered(C)) \ C THEN "lost"
                                    ELSE phase[u]]
  BY DEF LodgeFails
<1>2. W \in SUBSET Sym /\ C \in SUBSET Unit /\ S \subseteq Found(q) \ hasError
  BY DEF LodgeFails, Collected
<1> QED
  BY <1>1, <1>2

\* The unit that a symbol is put back for is one that was collected and lists it.
LEMMA PutBackUnit ==
  ASSUME NEW C \in SUBSET Unit, NEW W, NEW s \in PutBack(W, C)
  PROVE  /\ (CHOOSE u \in C : s \in usyms[u]) \in C
         /\ s \in usyms[CHOOSE u \in C : s \in usyms[u]]
<1>1. \E u \in C : s \in usyms[u]
  BY DEF PutBack
<1> QED
  BY <1>1

LEMMA LookUpType ==
  ASSUME TypeOK, NEW q \in Query, LookUp(q)
  PROVE  TypeOK'
<1> USE DEF TypeOK
<1>0. Waiting(q, Found(q)) \in SUBSET Sym /\ Found(q) \in SUBSET Sym
  BY WorkloadAssumption DEF Waiting, Found
<1>1. CASE LookupMatched(q)
  BY <1>1, Frame DEF LookupMatched, QueryType, QueryPhases
<1>2. CASE LookupFails(q)
  <2> USE <1>2 DEF LookupFails
  <2>1. due' \in [Query -> SUBSET Outcomes] /\ qphase' \in [Query -> QueryPhases]
    BY DEF QueryType, Outcomes, QueryPhases
  <2>2. QueryType'
    BY <2>1, DetachType DEF QueryType
  <2> QED
    BY <2>2, Frame
<1>3. ASSUME NEW S \in SUBSET Sym, LodgeFails(q, S) PROVE TypeOK'
  <2> PICK W \in SUBSET S, C \in SUBSET Collected(S) :
        /\ symState' = Started(C)
        /\ mi' = mi \cup W
        /\ attached' = (attached \ Covered(C)) \cup PutBack(W, C)
        /\ umi' = [s \in Sym |->
             IF s \in PutBack(W, C) THEN CHOOSE u \in C : s \in usyms[u]
             ELSE IF s \in Covered(C) THEN None ELSE umi[s]]
        /\ phase' = [u \in Unit |-> IF u \in Orphaned(Covered(C)) \ C THEN "lost"
                                    ELSE phase[u]]
    BY <1>3 DEF LodgeFails
  <2>0. C \in SUBSET Unit
    BY DEF Collected
  <2>u. umi' \in [Sym -> Unit \cup {None}]
    BY <2>0, PutBackUnit DEF TableType
  <2>p. UnitType'
    BY <1>3 DEF UnitType, UnitPhases, LodgeFails
  <2> USE <1>3 DEF LodgeFails
  <2>1. due' \in [Query -> SUBSET Outcomes] /\ qphase' \in [Query -> QueryPhases]
    BY DEF QueryType, Outcomes, QueryPhases
  <2>2. QueryType'
    BY <2>1, DetachType DEF QueryType
  <2>3. TableType' /\ GraphType'
    BY <2>u DEF TableType, GraphType, Started, PutBack
  <2> QED
    BY <2>2, <2>3, <2>p, Frame
<1>4. CASE MatchAssertFails(q)
  BY <1>4, Frame DEF MatchAssertFails, LockType, Sections
<1>5. CASE LodgeNotFound(q)
  <2> USE <1>5 DEF LodgeNotFound
  <2> PICK W \in SUBSET Found(q), C \in SUBSET Collected(Found(q)) :
        /\ Lodge(q, W, C, "lost")
        /\ outstanding' = [outstanding EXCEPT ![q] =
             (@ \ (Found(q) \ W)) \ (QueryWeak[q] \ Present)]
    BY <1>5
  <2>0. C \in SUBSET Unit /\ W \in SUBSET Sym /\ "lost" \in UnitPhases
    BY <1>0 DEF Collected, UnitPhases
  <2>1. /\ TableType' /\ GraphType' /\ UnitType' /\ pending' \in [Sym -> SUBSET Query]
        /\ regs' \in [Query -> SUBSET Sym]
    BY <2>0, LodgeType
  <2>2. QueryType'
    BY <2>1 DEF QueryType, QueryPhases
  <2> QED
    BY <2>1, <2>2, Frame
<1>6. CASE UnwindLookup(q)
  <2> USE <1>6 DEF UnwindLookup
  <2>1. answer' \in [Query -> Answers] /\ qphase' \in [Query -> QueryPhases]
    BY DEF QueryType, Answered, Answers, QueryPhases
  <2>2. QueryType'
    BY <2>1, DetachType DEF QueryType
  <2> QED
    BY <2>2, Frame
<1>7. CASE LodgeQuery(q)
  <2> USE <1>7 DEF LodgeQuery
  <2> PICK W \in SUBSET Found(q), C \in SUBSET Collected(Found(q)) :
        /\ Lodge(q, W, C, "outstanding")
        /\ outstanding' = [outstanding EXCEPT ![q] = W]
        /\ due' = IF W = {} THEN [due EXCEPT ![q] = @ \cup {"success"}] ELSE due
        /\ trackerMRs' = [t \in Tracker |-> trackerMRs[t] \cup {u \in C : urt[u] = t}]
        /\ IF Linked(q) # {} /\ W # {}
           THEN section' = "deps" /\ todo' = Linked(q) /\ newDeps' = W
           ELSE UNCHANGED <<section, todo, newDeps>>
    BY <1>7
  <2>0. /\ C \in SUBSET Unit /\ W \in SUBSET Sym /\ "outstanding" \in UnitPhases
        /\ Linked(q) \in SUBSET Sym
    BY <1>0 DEF Collected, UnitPhases, Linked, UnitType
  <2>1. /\ TableType' /\ GraphType' /\ UnitType' /\ pending' \in [Sym -> SUBSET Query]
        /\ regs' \in [Query -> SUBSET Sym]
    BY <2>0, LodgeType
  <2>2. due' \in [Query -> SUBSET Outcomes]
    BY DEF QueryType, Outcomes
  <2>3. QueryType'
    BY <2>0, <2>1, <2>2 DEF QueryType, QueryPhases
  <2>5. TrackerType'
    BY <2>0 DEF TrackerType
  <2>6. LockType'
    BY <2>0 DEF LockType, Sections
  <2>7. HistoryType'
    BY <1>0, <2>0 DEF HistoryType
  <2> QED
    BY <2>1, <2>3, <2>5, <2>6, <2>7
<1> QED
  BY <1>1, <1>2, <1>3, <1>4, <1>5, <1>6, <1>7 DEF LookUp

\* ... and by the rest.
LEMMA ClientType ==
  ASSUME TypeOK,
         \/ \E u \in Unit : DispatchUnit(u) \/ Define(u)
         \/ \E q \in Query, o \in Outcomes : NotifyComplete(q, o)
         \/ \E t \in Tracker : RemoveTracker(t) \/ RemoveAssertFails(t)
  PROVE  TypeOK'
<1> USE DEF TypeOK
<1>1. ASSUME NEW u \in Unit, DispatchUnit(u) PROVE TypeOK'
  BY <1>1, Frame DEF DispatchUnit, UnitType, UnitPhases
<1>2. ASSUME NEW u \in Unit, Define(u) PROVE TypeOK'
  <2> USE <1>2 DEF Define
  <2>1. Defined(u) \in SUBSET Sym
    BY DEF Defined, UnitType
  <2>2. TableType'
    BY <2>1 DEF TableType
  <2>3. UnitType'
    BY <2>1 DEF UnitType, UnitPhases
  <2>4. TrackerType'
    BY <2>1 DEF TrackerType, Tracked, UnitType
  <2> QED
    BY <2>2, <2>3, <2>4, Frame
<1>3. ASSUME NEW q \in Query, NEW o \in Outcomes, NotifyComplete(q, o) PROVE TypeOK'
  <2> USE <1>3 DEF NotifyComplete
  <2>1. QueryType'
    BY DEF QueryType, Answered, Answers, Outcomes
  <2> QED
    BY <2>1, Frame
<1>4. ASSUME NEW t \in Tracker, RemoveTracker(t) PROVE TypeOK'
  <2> USE <1>4 DEF RemoveTracker
  <2>1. TrackerType' /\ LockType'
    BY DEF TrackerType, LockType, Sections
  <2> QED
    BY <2>1, Frame
<1>5. ASSUME NEW t \in Tracker, RemoveAssertFails(t) PROVE TypeOK'
  BY <1>5, Frame DEF RemoveAssertFails, LockType, Sections
<1> QED
  BY <1>1, <1>2, <1>3, <1>4, <1>5

LEMMA StepType ==
  ASSUME TypeOK, [Next]_vars
  PROVE  TypeOK'
<1>1. CASE UNCHANGED vars
  BY <1>1, Frame DEF TypeOK, vars
<1>2. CASE LockedStep
  BY <1>2, LockedStepType
<1>3. CASE \E u \in Unit : Materialize(u)
  BY <1>3, MaterializeType
<1>4. CASE \E q \in Query : LookUp(q)
  BY <1>4, LookUpType
<1>5. CASE \E u \in Unit : DispatchUnit(u) \/ Define(u)
  BY <1>5, ClientType
<1>6. CASE \E q \in Query, o \in Outcomes : NotifyComplete(q, o)
  BY <1>6, ClientType
<1>7. CASE \E t \in Tracker : RemoveTracker(t) \/ RemoveAssertFails(t)
  BY <1>7, ClientType
<1> QED
  BY <1>1, <1>2, <1>3, <1>4, <1>5, <1>6, <1>7 DEF Next, AtRest

\* The variables keep their types through every operation of the session.
THEOREM TypeCorrect == Spec => []TypeOK
<1>1. Init => TypeOK
  BY InitType
<1>2. TypeOK /\ [Next]_vars => TypeOK'
  BY StepType
<1> QED
  BY <1>1, <1>2, PTL DEF Spec
-----------------------------------------------------------------------------
(* The session with splitting, transfer and removal by name. *)

\* What the larger session adds to the operations of OrcSession.
AddedStep ==
  \/ \E u \in Unit : Split(u)
  \/ \E src, dst \in Tracker : TransferTracker(src, dst)
  \/ RemoveDefaultTracker
  \/ \E S \in SUBSET Sym : RemoveSymbols(S)

\* The operations of OrcSession are the same in the larger session; where the
\* latter restricts them, they stay steps of the former.
LEMMA FullSteps ==
  ASSUME [FullNext]_fullVars
  PROVE  \/ [Next]_vars /\ UNCHANGED <<splitVars, dropped>>
         \/ AddedStep
  BY DEF FullNext, fullVars, BaseStep, SplitStep, AddedStep, Next, Definable

\* None of them knows of the dependence graph or of queries.
LEMMA AddedKeeps ==
  ASSUME AddedStep
  PROVE  UNCHANGED <<graphVars, queryVars>>
<1>1. ASSUME NEW u \in Unit, Split(u) PROVE UNCHANGED <<graphVars, queryVars>>
  <2>1. CASE GetRequestedSymbols(u)
    BY <2>1 DEF GetRequestedSymbols, vars
  <2>2. CASE RequestedAssertFails(u) \/ AdriftAborts(u)
    BY <2>2 DEF RequestedAssertFails, AdriftAborts
  <2>3. ASSUME NEW v \in Spare, NEW S \in SUBSET usyms[u],
               ReplaceRunning(u, v, S) \/ ReplaceLazily(u, v, S) \/ Delegate(u, v, S)
        PROVE  UNCHANGED <<graphVars, queryVars>>
    BY <2>3 DEF ReplaceRunning, ReplaceLazily, Delegate
  <2>4. ASSUME NEW S \in SUBSET usyms[u], SplitRefused(u, S)
        PROVE  UNCHANGED <<graphVars, queryVars>>
    BY <2>4 DEF SplitRefused
  <2>5. ASSUME NEW K \in SUBSET ClaimSyms[u],
               DefineMaterializing(u, K) \/ DefineMaterializingFails(u, K)
        PROVE  UNCHANGED <<graphVars, queryVars>>
    BY <2>5 DEF DefineMaterializing, DefineMaterializingFails
  <2> QED
    BY <1>1, <2>1, <2>2, <2>3, <2>4, <2>5 DEF Split
<1>2. ASSUME NEW src \in Tracker, NEW dst \in Tracker, TransferTracker(src, dst)
      PROVE  UNCHANGED <<graphVars, queryVars>>
  BY <1>2 DEF TransferTracker
<1>3. CASE RemoveDefaultTracker
  BY <1>3 DEF RemoveDefaultTracker
<1>4. ASSUME NEW S \in SUBSET Sym, RemoveSymbols(S) PROVE UNCHANGED <<graphVars, queryVars>>
  BY <1>4 DEF RemoveSymbols
<1> QED
  BY <1>1, <1>2, <1>3, <1>4 DEF AddedStep

\* A symbol changes its state only when it is claimed or removed by name.
LEMMA AddedStates ==
  ASSUME AddedStep
  PROVE  \/ UNCHANGED symState
         \/ \E u \in Unit : \E K \in SUBSET ClaimSyms[u] : DefineMaterializing(u, K)
         \/ \E S \in SUBSET Sym : RemoveSymbols(S)
<1>1. ASSUME NEW u \in Unit, Split(u)
      PROVE  \/ UNCHANGED symState
             \/ \E K \in SUBSET ClaimSyms[u] : DefineMaterializing(u, K)
  <2>1. CASE GetRequestedSymbols(u)
    BY <2>1 DEF GetRequestedSymbols, vars, tableVars
  <2>2. CASE RequestedAssertFails(u) \/ AdriftAborts(u)
    BY <2>2 DEF RequestedAssertFails, AdriftAborts, tableVars
  <2>3. ASSUME NEW v \in Spare, NEW S \in SUBSET usyms[u],
               ReplaceRunning(u, v, S) \/ ReplaceLazily(u, v, S) \/ Delegate(u, v, S)
        PROVE  UNCHANGED symState
    BY <2>3 DEF ReplaceRunning, ReplaceLazily, Delegate, tableVars
  <2>4. ASSUME NEW S \in SUBSET usyms[u], SplitRefused(u, S) PROVE UNCHANGED symState
    BY <2>4 DEF SplitRefused, tableVars
  <2>5. ASSUME NEW K \in SUBSET ClaimSyms[u], DefineMaterializingFails(u, K)
        PROVE  UNCHANGED symState
    BY <2>5 DEF DefineMaterializingFails, tableVars
  <2> QED
    BY <1>1, <2>1, <2>2, <2>3, <2>4, <2>5 DEF Split
<1>2. ASSUME NEW src \in Tracker, NEW dst \in Tracker, TransferTracker(src, dst)
      PROVE  UNCHANGED symState
  BY <1>2 DEF TransferTracker, tableVars
<1>3. CASE RemoveDefaultTracker
  BY <1>3 DEF RemoveDefaultTracker, tableVars
<1> QED
  BY <1>1, <1>2, <1>3 DEF AddedStep

LEMMA SplitType ==
  ASSUME FullTypeOK, NEW u \in Unit, Split(u)
  PROVE  TypeOK' /\ SplitTypeOK'
<1> USE DEF FullTypeOK, TypeOK, SplitTypeOK, splitVars
<1>1. CASE GetRequestedSymbols(u)
  <2>1. Wanted(usyms[u]) \subseteq Sym
    BY DEF Wanted, UnitType
  <2> QED
    BY <1>1, <2>1, Frame DEF GetRequestedSymbols, vars
<1>2. CASE RequestedAssertFails(u) \/ AdriftAborts(u)
  BY <1>2, Frame DEF RequestedAssertFails, AdriftAborts, LockType, Sections
<1>3. ASSUME NEW v \in Spare, NEW S \in SUBSET usyms[u], ReplaceRunning(u, v, S) \/ Delegate(u, v, S)
      PROVE  TypeOK' /\ SplitTypeOK'
  <2>1. v \in Unit
    BY SplitAssumption
  <2>2. UnitType' /\ TrackerType'
    BY <1>3, <2>1 DEF ReplaceRunning, Delegate, LeftWith, UnitType, UnitPhases, TrackerType
  <2> QED
    BY <1>3, <2>2, Frame DEF ReplaceRunning, Delegate
<1>4. ASSUME NEW v \in Spare, NEW S \in SUBSET usyms[u], ReplaceLazily(u, v, S)
      PROVE  TypeOK' /\ SplitTypeOK'
  <2>1. v \in Unit
    BY SplitAssumption
  <2>2. UnitType' /\ TableType'
    BY <1>4, <2>1 DEF ReplaceLazily, LeftWith, UnitType, UnitPhases, TableType
  <2> QED
    BY <1>4, <2>2, Frame DEF ReplaceLazily
<1>5. ASSUME NEW S \in SUBSET usyms[u], SplitRefused(u, S) PROVE TypeOK' /\ SplitTypeOK'
  <2>1. UnitType'
    BY <1>5 DEF SplitRefused, LeftWith, UnitType
  <2> QED
    BY <1>5, <2>1, Frame DEF SplitRefused
<1>6. ASSUME NEW K \in SUBSET ClaimSyms[u], DefineMaterializing(u, K)
      PROVE  TypeOK' /\ SplitTypeOK'
  <2>1. Accepted(u, K) \subseteq Sym
    BY SplitAssumption DEF Accepted
  <2>2. UnitType' /\ TableType'
    BY <1>6, <2>1 DEF DefineMaterializing, UnitType, TableType
  <2> QED
    BY <1>6, <2>2, Frame DEF DefineMaterializing
<1>7. ASSUME NEW K \in SUBSET ClaimSyms[u], DefineMaterializingFails(u, K)
      PROVE  TypeOK' /\ SplitTypeOK'
  BY <1>7, Frame DEF DefineMaterializingFails, UnitType
<1> QED
  BY <1>1, <1>2, <1>3, <1>4, <1>5, <1>6, <1>7 DEF Split

LEMMA TransferType ==
  ASSUME FullTypeOK, NEW src \in Tracker, NEW dst \in Tracker, TransferTracker(src, dst)
  PROVE  FullTypeOK'
<1> USE DEF FullTypeOK, TypeOK, SplitTypeOK, splitVars, TransferTracker
<1>1. Untracked \subseteq Sym
  BY DEF Untracked, Present
<1>2. TrackerType'
  BY <1>1 DEF ListsAfter, RelistedAfter, MRsAfter, TrackerType
<1>3. UnitType'
  BY Frame DEF UnitType
<1> QED
  BY <1>2, <1>3, Frame

LEMMA RemovalType ==
  ASSUME FullTypeOK, RemoveDefaultTracker \/ \E S \in SUBSET Sym : RemoveSymbols(S)
  PROVE  FullTypeOK'
<1> USE DEF FullTypeOK, TypeOK, SplitTypeOK, splitVars
<1>1. CASE RemoveDefaultTracker
  <2>1. TrackerType' /\ LockType'
    BY <1>1, WorkloadAssumption
    DEF RemoveDefaultTracker, Untracked, Present, TrackerType, LockType, Sections
  <2> QED
    BY <1>1, <2>1, Frame DEF RemoveDefaultTracker
<1>2. ASSUME NEW S \in SUBSET Sym, RemoveSymbols(S) PROVE FullTypeOK'
  <2>1. TableType' /\ HistoryType'
    BY <1>2 DEF RemoveSymbols, TableType, HistoryType
  <2>2. UnitType'
    BY <1>2 DEF RemoveSymbols, UnitType, UnitPhases
  <2> QED
    BY <1>2, <2>1, <2>2, Frame DEF RemoveSymbols
<1> QED
  BY <1>1, <1>2

LEMMA FullStepType ==
  ASSUME FullTypeOK, [FullNext]_fullVars
  PROVE  FullTypeOK'
<1>1. CASE [Next]_vars /\ UNCHANGED <<splitVars, dropped>>
  BY <1>1, StepType DEF FullTypeOK, SplitTypeOK, splitVars
<1>2. CASE SplitStep
  BY <1>2, SplitType DEF SplitStep, FullTypeOK
<1>3. CASE \E src, dst \in Tracker : TransferTracker(src, dst)
  BY <1>3, TransferType
<1>4. CASE RemoveDefaultTracker \/ \E S \in SUBSET Sym : RemoveSymbols(S)
  BY <1>4, RemovalType
<1>5. \/ [Next]_vars /\ UNCHANGED <<splitVars, dropped>>
      \/ SplitStep \/ (\E src, dst \in Tracker : TransferTracker(src, dst))
      \/ RemoveDefaultTracker \/ (\E S \in SUBSET Sym : RemoveSymbols(S))
  BY DEF FullNext, fullVars, BaseStep, Next, Definable
<1> QED
  BY <1>1, <1>2, <1>3, <1>4, <1>5

\* ... and through splitting, claiming, transfer and removal by name: what
\* replace and delegate give a spare unit are symbols, and lists move between
\* trackers whole.
THEOREM FullTypeCorrect == FullSpec => []FullTypeOK
<1>1. FullInit => FullTypeOK
  BY InitType DEF FullInit, SplitInit, FullTypeOK, SplitTypeOK
<1>2. FullTypeOK /\ [FullNext]_fullVars => FullTypeOK'
  BY FullStepType
<1> QED
  BY <1>1, <1>2, PTL DEF FullSpec
=============================================================================
