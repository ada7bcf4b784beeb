--------------------------- MODULE OrcShapeProofs ---------------------------
(***************************************************************************)
(* What the dependence graph holds at every step, for every workload.      *)
(***************************************************************************)
EXTENDS OrcGraphProofs, OrcQueryProofs, OrcTableProofs

USE DEF Absent, NeverSearched, Materializing, Resolved, Emitted, Ready, SymbolState

\* The invariants proved before.
Base == TypeOK /\ GraphInv /\ QueryInv /\ TableInv

LEMMA BaseCorrect == Spec => []Base
  BY TypeCorrect, GraphCorrect, QueriesCorrect, TableCorrect, PTL DEF Base

LEMMA FullBaseCorrect == FullSpec => []Base
<1>1. FullTypeOK => TypeOK
  BY DEF FullTypeOK
<1> QED
  BY <1>1, FullTypeCorrect, FullGraphCorrect, FullQueriesCorrect, FullTableCorrect, PTL DEF Base

\* Whatever is waited for has an info.
LEMMA TargetsHaveInfo ==
  ASSUME Base
  PROVE  \A x \in Sym : \A d \in unemitted[x] : d \in mi /\ d \in Sym /\ x \in dependants[d] /\ d # x
  BY DEF Base, TypeOK, GraphType, GraphInv, DepsMirrored, InfoOfNodes, NoSelfWait

\* A step that leaves the graph alone, takes no symbol of the graph out of the
\* table or to the last states, and does not shorten a worklist of failSymbols.
LEMMA ShapeKept ==
  ASSUME Base, ShapeInv, UNCHANGED graphVars,
         \A s \in Sym : pending'[s] \subseteq pending[s],
         \A s \in Sym : \/ symState'[s] = symState[s] /\ (s \in hasError => s \in hasError')
                        \/ symState[s] \in {Absent, NeverSearched, Materializing} /\ symState'[s] \in {Materializing, Resolved}
                        \/ symState[s] \in {Absent, NeverSearched} /\ symState'[s] = NeverSearched,
         \A s \in Sym : BeingFailed(s) => BeingFailed(s)',
         section' = "untrack" =>
           \/ section = "untrack" /\ doomed' = doomed /\ todo \subseteq todo'
           \/ doomed' \cap mi \subseteq todo'
  PROVE  ShapeInv'
<1> USE DEF ShapeInv, Base, TypeOK, TableType, GraphType, QueryType, graphVars
<1>1. GraphShape'
  <2> SUFFICES ASSUME NEW s \in Sym
      PROVE /\ s \notin mi' => unemitted'[s] = {} /\ dependants'[s] = {} /\ pending'[s] = {}
            /\ s \in mi' => symState'[s] \in NeverSearched .. Emitted
            /\ \A d \in unemitted'[s] : d # s /\ symState'[d] \in {Materializing, Resolved}
            /\ s \in mi' /\ symState'[s] = Emitted /\ ~ BeingFailed(s)' =>
                 unemitted'[s] # {} /\ dependants'[s] = {}
    BY DEF GraphShape
  <2>1. s \notin mi' => unemitted'[s] = {} /\ dependants'[s] = {} /\ pending'[s] = {}
    BY DEF GraphShape
  <2>2. s \in mi' => symState'[s] \in NeverSearched .. Emitted
    BY DEF GraphShape
  <2>3. \A d \in unemitted'[s] : d # s /\ symState'[d] \in {Materializing, Resolved}
    BY DEF GraphShape
  <2>4. symState'[s] = Emitted => symState[s] = Emitted
    OBVIOUS
  <2>5. s \in mi' /\ symState'[s] = Emitted /\ ~ BeingFailed(s)' =>
          unemitted'[s] # {} /\ dependants'[s] = {}
    BY <2>4 DEF GraphShape
  <2> QED
    BY <2>1, <2>2, <2>3, <2>5
<1>2. EmittedOutsideFailed'
  BY DEF EmittedOutsideFailed
<1>3. ErasesOutsideGraph'
  BY DEF ErasesOutsideGraph
<1> QED
  BY <1>1, <1>2, <1>3

LEMMA AddDependenciesShape ==
  ASSUME Base, ShapeInv, NEW n \in Sym, AddDependencies(n)
  PROVE  ShapeInv'
<1> USE DEF ShapeInv, Base, TypeOK, TableType, GraphType, QueryType, LockType, AddDependencies
<1>1. section = "deps" /\ section' # "untrack" /\ \A x \in Sym : ~ BeingFailed(x) /\ ~ BeingFailed(x)'
  BY DEF Continue, BeingFailed
<1>2. \A d \in InFlight(newDeps) :
        d \in Sym /\ symState[d] \in {Materializing, Resolved, Emitted} /\ (symState[d] = Emitted => d \in mi)
  BY <1>1 DEF InFlight, TableInv, DependsOnMoving, EmittedOutsideFailed
<1>3. \A d \in NewEdges(n) : d \in Sym /\ d # n /\ symState[d] \in {Materializing, Resolved}
  BY <1>2 DEF NewEdges, GraphShape
<1>4. ASSUME NEW s \in Sym
      PROVE  /\ s \notin mi' => unemitted'[s] = {} /\ dependants'[s] = {} /\ pending'[s] = {}
             /\ s \in mi' => symState'[s] \in NeverSearched .. Emitted
  <2>0. s \in NewEdges(n) => s \in mi'
    <3>1. CASE s \in InFlight(newDeps)
      BY <3>1
    <3>2. CASE \E e \in InFlight(newDeps) : s \in unemitted[e]
      BY <1>2, <3>2, TargetsHaveInfo
    <3> QED
      BY <3>1, <3>2 DEF NewEdges
  <2>1. s \notin mi' => unemitted'[s] = {} /\ dependants'[s] = {} /\ pending'[s] = {}
    BY <1>1, <2>0 DEF GraphShape, queryVars
  <2>2. s \in mi' => symState'[s] \in NeverSearched .. Emitted
    BY <1>2 DEF GraphShape
  <2> QED
    BY <2>1, <2>2
<1>5. ASSUME NEW s \in Sym, NEW d \in unemitted'[s]
      PROVE  d # s /\ symState'[d] \in {Materializing, Resolved}
  BY <1>3 DEF GraphShape
<1>6. ASSUME NEW s \in Sym, s \in mi', symState'[s] = Emitted
      PROVE  unemitted'[s] # {} /\ dependants'[s] = {}
  BY <1>1, <1>2, <1>3, <1>6 DEF GraphShape
<1>7. GraphShape'
  BY <1>4, <1>5, <1>6 DEF GraphShape
<1>8. EmittedOutsideFailed' /\ ErasesOutsideGraph'
  BY <1>1 DEF EmittedOutsideFailed, ErasesOutsideGraph
<1> QED
  BY <1>7, <1>8

LEMMA EmitSymbolShape ==
  ASSUME Base, ShapeInv, NEW s \in Sym, EmitSymbol(s)
  PROVE  ShapeInv'
<1> USE DEF ShapeInv, Base, TypeOK, TableType, GraphType, QueryType, EmitSymbol
<1>1. /\ symState[s] = Resolved /\ section' # "untrack"
      /\ \A x \in Sym : ~ BeingFailed(x) /\ ~ BeingFailed(x)'
  BY DEF Continue, BeingFailed, TableInv, EmitsResolved
<1>2. s \notin unemitted[s] /\ s \notin dependants[s]
  BY DEF GraphInv, NoSelfWait, DepsMirrored
<1>3. \A x \in Sym : unemitted'[x] = IF x \in dependants[s] THEN Inherited(s, x) ELSE unemitted[x]
  BY DEF UnemittedAfter
<1>4. \A x \in ReadyAfter(s) : x \in Sym /\ (x = s \/ symState[x] = Emitted) /\ unemitted'[x] = {}
  BY <1>2, <1>3 DEF ReadyAfter
<1>5. \A x \in Sym : symState[x] \in {Materializing, Resolved} /\ x # s => symState'[x] = symState[x]
  BY <1>4
<1>6. ASSUME NEW x \in Sym
      PROVE  /\ x \notin mi' => unemitted'[x] = {} /\ dependants'[x] = {} /\ pending'[x] = {}
             /\ x \in mi' => symState'[x] \in NeverSearched .. Emitted
  <2>1. CASE x \in ReadyAfter(s)
    <3>1. unemitted'[x] = {} /\ dependants'[x] = {}
      BY <1>4, <2>1 DEF DependantsAfter
    <3>2. pending'[x] = {}
      <4>1. \A q \in pending[x] : QueryState[q] <= Ready
        BY WorkloadAssumption
      <4>2. pending'[x] = pending[x] \ {q \in pending[x] : QueryState[q] <= Ready}
        BY <2>1 DEF NotifyMet, TakeQueriesMeeting
      <4> QED
        BY <4>1, <4>2
    <3> QED
      BY <2>1, <3>1, <3>2
  <2>2. CASE x \notin ReadyAfter(s) /\ x \notin mi
    <3>1. unemitted[x] = {} /\ dependants[x] = {} /\ pending[x] = {}
      BY <2>2 DEF GraphShape
    <3>2. x \notin dependants[s] /\ x \notin unemitted[s]
      <4>1. (x \in unemitted[s] <=> s \in dependants[x]) /\ (s \in unemitted[x] <=> x \in dependants[s])
        BY DEF GraphInv, DepsMirrored
      <4> QED
        BY <3>1, <4>1
    <3>3. unemitted'[x] = {} /\ dependants'[x] = {}
      BY <1>3, <2>2, <3>1, <3>2 DEF DependantsAfter
    <3>4. pending'[x] = {} /\ x \notin mi'
      BY <2>2, <3>1 DEF NotifyMet
    <3> QED
      BY <3>3, <3>4
  <2>3. CASE x \notin ReadyAfter(s) /\ x \in mi
    BY <2>3 DEF GraphShape
  <2> QED
    BY <2>1, <2>2, <2>3
<1>7. ASSUME NEW x \in Sym, NEW d \in unemitted'[x]
      PROVE  d # x /\ symState'[d] \in {Materializing, Resolved}
  <2>1. \A z \in Sym : \A e \in unemitted[z] : e \in Sym /\ symState[e] \in {Materializing, Resolved}
    BY DEF GraphShape
  <2>2. d \in unemitted[x] \cup unemitted[s]
    BY <1>3 DEF Inherited
  <2>3. d # x /\ d # s
    <3>1. x \notin unemitted[x] /\ (s \in unemitted[x] <=> x \in dependants[s])
      BY DEF GraphInv, NoSelfWait, DepsMirrored
    <3> HIDE DEF ShapeInv, Base, TypeOK, EmitSymbol
    <3>2. CASE x \in dependants[s]
      <4>1. d \in (unemitted[x] \ {s}) \cup (unemitted[s] \ {x})
        BY <1>3, <3>2 DEF Inherited
      <4> QED
        BY <1>2, <3>1, <4>1
    <3>3. CASE x \notin dependants[s]
      <4>1. d \in unemitted[x]
        BY <1>3, <3>3
      <4> QED
        BY <3>1, <3>3, <4>1
    <3> QED
      BY <3>2, <3>3
  <2> QED
    BY <2>1, <2>2, <2>3, <1>5
<1>8. ASSUME NEW x \in Sym, x \in mi', symState'[x] = Emitted
      PROVE  unemitted'[x] # {} /\ dependants'[x] = {}
  <2>1. x \notin ReadyAfter(s) /\ x \in mi
    BY <1>8
  <2>2. CASE x = s
    BY <1>2, <1>3, <2>1, <2>2 DEF ReadyAfter, DependantsAfter
  <2>3. CASE x # s
    <3>1. symState[x] = Emitted
      BY <1>8, <2>1, <2>3
    <3>2. unemitted[x] # {} /\ dependants[x] = {} /\ x \notin unemitted[s]
      BY <1>1, <2>1, <3>1 DEF GraphShape
    <3>3. unemitted'[x] # {}
      BY <1>3, <2>1, <3>1, <3>2 DEF ReadyAfter
    <3> QED
      BY <2>1, <2>3, <3>2, <3>3 DEF DependantsAfter
  <2> QED
    BY <2>2, <2>3
<1>9. GraphShape'
  BY <1>6, <1>7, <1>8 DEF GraphShape
<1>10. EmittedOutsideFailed' /\ ErasesOutsideGraph'
  BY <1>1 DEF EmittedOutsideFailed, ErasesOutsideGraph
<1> QED
  BY <1>9, <1>10

LEMMA FailSymbolShape ==
  ASSUME Base, ShapeInv, NEW s \in Sym, FailSymbol(s)
  PROVE  ShapeInv'
<1> USE DEF ShapeInv, Base, TypeOK, TableType, GraphType, QueryType, FailSymbol
<1>1. /\ \A x \in Sym : unemitted'[x] \subseteq unemitted[x] /\ dependants'[x] \subseteq dependants[x]
      /\ unemitted'[s] = {} /\ dependants'[s] = {}
      /\ \A x \in Sym \ {s} : x \notin dependants[s] => unemitted'[x] = unemitted[x]
  BY DEF UnemittedWithout, DependantsWithout
<1>2. (\A x \in Sym : pending'[x] \subseteq pending[x]) /\ pending'[s] = {}
  BY DEF Detach, PendingWithout, QueryInv, RegistrationsMirrored
<1>3. todo' = (todo \ {s}) \cup Cascade(s)
  BY DEF Continue
<1>4. \A x \in Sym \ {s} : BeingFailed(x) \/ x \in Cascade(s) => BeingFailed(x)'
  BY <1>3 DEF BeingFailed, Continue
<1>5. ASSUME NEW x \in Sym, x \in mi', symState'[x] = Emitted, ~ BeingFailed(x)'
      PROVE  unemitted'[x] # {} /\ dependants'[x] = {}
  <2>1. x # s /\ x \in mi /\ symState[x] = Emitted /\ x \notin dependants[s] /\ ~ BeingFailed(x)
    BY <1>4, <1>5 DEF Cascade
  <2> QED
    BY <1>1, <2>1 DEF GraphShape
<1>6. ASSUME NEW x \in Sym
      PROVE  /\ x \notin mi' => unemitted'[x] = {} /\ dependants'[x] = {} /\ pending'[x] = {}
             /\ x \in mi' => symState'[x] \in NeverSearched .. Emitted
  BY <1>1, <1>2 DEF GraphShape
<1>7. ASSUME NEW x \in Sym, NEW d \in unemitted'[x]
      PROVE  d # x /\ symState'[d] \in {Materializing, Resolved}
  BY <1>1 DEF GraphShape
<1>8. GraphShape'
  BY <1>5, <1>6, <1>7 DEF GraphShape
<1>9. EmittedOutsideFailed'
  BY DEF EmittedOutsideFailed
<1>10. ErasesOutsideGraph'
  BY <1>3 DEF ErasesOutsideGraph, Continue
<1> QED
  BY <1>8, <1>9, <1>10

\* A symbol without an info is waited for by nothing, so that making it ready or
\* marking it failed leaves the graph as it is.
LEMMA TrivialIterationShape ==
  ASSUME Base, ShapeInv, NEW s \in Sym, EmitTrivially(s) \/ FailTrivially(s)
  PROVE  ShapeInv'
<1>0. Continue(s, {})
  BY DEF EmitTrivially, FailTrivially
<1>4. section' = section \/ (section' = "free" /\ todo' = {})
  BY <1>0 DEF Continue
<1>5. todo' = todo \ {s}
  BY <1>0 DEF Continue
<1> USE DEF ShapeInv, Base, TypeOK, TableType, GraphType, QueryType
<1>1. s \notin mi /\ UNCHANGED <<mi, dependants, unemitted, pending, doomed>> /\ hasError \subseteq hasError'
  BY DEF EmitTrivially, FailTrivially, graphVars, queryVars, GraphShape
<1>2. \A x \in Sym \ {s} : symState'[x] = symState[x]
  BY DEF EmitTrivially, FailTrivially
<1>3. symState'[s] = Emitted => s \in hasError'
  BY DEF EmitTrivially, FailTrivially
<1>6. \A x \in Sym \ {s} : BeingFailed(x) => BeingFailed(x)'
  BY <1>4, <1>5 DEF BeingFailed
<1>7. ASSUME NEW x \in Sym
      PROVE  /\ x \notin mi' => unemitted'[x] = {} /\ dependants'[x] = {} /\ pending'[x] = {}
             /\ x \in mi' => symState'[x] \in NeverSearched .. Emitted
             /\ x \in mi' /\ symState'[x] = Emitted /\ ~ BeingFailed(x)' =>
                  unemitted'[x] # {} /\ dependants'[x] = {}
  <2>1. x \in mi' => x # s /\ symState'[x] = symState[x] /\ (BeingFailed(x) => BeingFailed(x)')
    BY <1>1, <1>2, <1>6
  <2> QED
    BY <1>1, <2>1 DEF GraphShape
<1>8. ASSUME NEW x \in Sym, NEW d \in unemitted'[x]
      PROVE  d # x /\ symState'[d] \in {Materializing, Resolved}
  <2>1. d \in Sym /\ d # s
    BY <1>1, TargetsHaveInfo
  <2> QED
    BY <1>1, <1>2, <2>1 DEF GraphShape
<1>9. GraphShape'
  BY <1>7, <1>8 DEF GraphShape
<1>10. EmittedOutsideFailed'
  BY <1>1, <1>2, <1>3 DEF EmittedOutsideFailed
<1>11. ErasesOutsideGraph'
  BY <1>1, <1>4, <1>5 DEF ErasesOutsideGraph
<1> QED
  BY <1>9, <1>10, <1>11

\* By the time removeTracker erases the symbols, failSymbols has taken every one
\* of them out of the graph.
LEMMA EraseShape ==
  ASSUME Base, ShapeInv, EraseDoomed
  PROVE  ShapeInv'
<1> USE DEF ShapeInv, Base, TypeOK, TableType, GraphType, QueryType, EraseDoomed
<1>1. doomed \cap mi = {} /\ UNCHANGED <<mi, dependants, unemitted, pending>>
  BY DEF ErasesOutsideGraph, graphVars, queryVars
<1>2. \A x \in Sym : ~ BeingFailed(x)
  BY DEF BeingFailed
<1>3. \A x \in Sym : symState'[x] = IF x \in doomed THEN Absent ELSE symState[x]
  OBVIOUS
<1>4. ASSUME NEW x \in Sym, NEW d \in unemitted'[x]
      PROVE  d # x /\ symState'[d] \in {Materializing, Resolved}
  <2>1. d \in Sym /\ d \in mi
    BY <1>1, TargetsHaveInfo
  <2> QED
    BY <1>1, <1>3, <2>1 DEF GraphShape
<1>5. GraphShape'
  BY <1>1, <1>2, <1>3, <1>4 DEF GraphShape
<1>6. EmittedOutsideFailed'
  BY <1>1, <1>3 DEF EmittedOutsideFailed
<1>7. ErasesOutsideGraph'
  BY DEF ErasesOutsideGraph
<1> QED
  BY <1>5, <1>6, <1>7

LEMMA LockedStepShape ==
  ASSUME Base, ShapeInv, LockedStep
  PROVE  ShapeInv'
<1>1. ASSUME NEW s \in Sym, SkipDependencies(s) \/ DependenciesAssertFails(s)
      PROVE  ShapeInv'
  <2>1. section = "deps" /\ section' # "untrack" /\ UNCHANGED <<tableVars, graphVars, pending>>
    BY <1>1 DEF SkipDependencies, DependenciesAssertFails, Continue, queryVars
  <2> QED
    BY <2>1, ShapeKept DEF tableVars, BeingFailed
<1> QED
  BY <1>1, AddDependenciesShape, EmitSymbolShape, FailSymbolShape, TrivialIterationShape,
     EraseShape DEF LockedStep

\* Taking the lock, or leaving it free, disturbs nothing.
LEMMA MaterializeShape ==
  ASSUME Base, ShapeInv, NEW u \in Unit, Materialize(u)
  PROVE  ShapeInv'
<1>1. ASSUME NEW R \in SUBSET Sym, NotifyResolved(u, R)
      PROVE  ShapeInv'
  <2>1. section' = "free" /\ UNCHANGED <<graphVars, hasError>> /\ \A s \in Sym : ~ BeingFailed(s)
    BY <1>1 DEF NotifyResolved, Unlocked, lockVars, BeingFailed
  <2>2. \A s \in Sym : pending'[s] \subseteq pending[s]
    BY <1>1 DEF NotifyResolved, NotifyMet
  <2>3. \A s \in Sym : \/ symState'[s] = symState[s]
                       \/ symState[s] = Materializing /\ symState'[s] = Resolved
    BY <1>1 DEF NotifyResolved
  <2> QED
    BY <2>1, <2>2, <2>3, ShapeKept
<1>2. ASSUME ~ \E R \in SUBSET Sym : NotifyResolved(u, R)
      PROVE  ShapeInv'
  <2>1. section = "free" /\ section' # "untrack" /\ UNCHANGED <<tableVars, graphVars, pending>>
    BY <1>2 DEF Materialize, NotifyRefused, OL_AddDependencies, NotifyEmitted,
       NotifyAssertFails, FailMaterialization, DestroyResponsibility, Unlocked,
       lockVars, queryVars
  <2> QED
    BY <2>1, ShapeKept DEF tableVars, BeingFailed
<1> QED
  BY <1>1, <1>2

\* The matching loop adds an info for each symbol the query waits for; such a
\* symbol has not failed, so that it is emitted only if it is in the graph.
LEMMA LodgeShape ==
  ASSUME Base, ShapeInv, Unlocked, section' # "untrack",
         section' \notin {"fail", "untrack"},
         NEW C \in SUBSET Unit, NEW W \in SUBSET (Present \ hasError),
         \A s \in W \ Covered(C) : symState[s] # Ready,
         symState' = Started(C), mi' = mi \cup W,
         UNCHANGED <<hasError, dependants, unemitted>>,
         \A s \in Sym \ W : pending'[s] \subseteq pending[s]
  PROVE  ShapeInv'
<1> USE DEF ShapeInv, Base, TypeOK, TableType, GraphType, QueryType
<1>1. \A s \in Sym : ~ BeingFailed(s) /\ ~ BeingFailed(s)'
  BY DEF BeingFailed, Unlocked
<1>2. \A s \in Sym : symState'[s] = symState[s] \/ symState'[s] = Materializing
  BY DEF Started
<1>3. \A s \in W : s \in Sym /\ symState'[s] \in NeverSearched .. Emitted /\ (symState'[s] = Emitted => s \in mi)
  BY DEF Present, EmittedOutsideFailed, Started
<1>4. \A s \in Sym : /\ s \notin mi' => unemitted'[s] = {} /\ dependants'[s] = {} /\ pending'[s] = {}
                     /\ s \in mi' => symState'[s] \in NeverSearched .. Emitted
  BY <1>2, <1>3 DEF GraphShape
<1>5. \A s \in Sym : \A d \in unemitted'[s] : d # s /\ symState'[d] \in {Materializing, Resolved}
  BY <1>2 DEF GraphShape
<1>6. \A s \in Sym : s \in mi' /\ symState'[s] = Emitted => unemitted'[s] # {} /\ dependants'[s] = {}
  BY <1>1, <1>2, <1>3 DEF GraphShape
<1>7. GraphShape'
  BY <1>4, <1>5, <1>6 DEF GraphShape
<1>8. EmittedOutsideFailed' /\ ErasesOutsideGraph'
  BY <1>2 DEF EmittedOutsideFailed, ErasesOutsideGraph
<1> QED
  BY <1>7, <1>8

LEMMA LookUpShape ==
  ASSUME Base, ShapeInv, NEW q \in Query, LookUp(q)
  PROVE  ShapeInv'
<1>1. ASSUME LookupMatched(q) \/ LookupFails(q) \/ MatchAssertFails(q) \/ UnwindLookup(q)
      PROVE  ShapeInv'
  <2>1. section = "free" /\ section' # "untrack" /\ UNCHANGED <<tableVars, graphVars>>
    BY <1>1 DEF LookupMatched, LookupFails, MatchAssertFails, UnwindLookup, Unlocked, lockVars
  <2>2. \A s \in Sym : pending'[s] \subseteq pending[s]
    BY <1>1 DEF LookupMatched, LookupFails, MatchAssertFails, UnwindLookup, Detach,
       PendingWithout, queryVars
  <2> QED
    BY <2>1, <2>2, ShapeKept DEF tableVars, BeingFailed
<1>2. ASSUME NEW S \in SUBSET Found(q), NEW W, NEW C, Matching(q, S, W, C)
      PROVE  \A s \in W \ Covered(C) : symState[s] # Ready
  <2>1. \A s \in Waiting(q, S) : symState[s] # Ready
    BY WorkloadAssumption DEF Waiting, Found, Base, TypeOK, TableType
  <2> QED
    BY <1>2, <2>1 DEF Matching
<1>3. ASSUME NEW S \in SUBSET Sym, LodgeFails(q, S)
      PROVE  ShapeInv'
  <2>0. PICK W \in SUBSET Sym, C \in SUBSET Unit :
          /\ W \subseteq S /\ S \subseteq Found(q) \ hasError /\ Matching(q, S, W, C)
          /\ symState' = Started(C) /\ mi' = mi \cup W
    BY <1>3, PutBackParts
  <2>1. /\ W \in SUBSET (Present \ hasError)
        /\ \A s \in W \ Covered(C) : symState[s] # Ready
    BY <1>2, <2>0 DEF Found
  <2>2. /\ Unlocked /\ section' = "free"
        /\ symState' = Started(C) /\ mi' = mi \cup W
        /\ UNCHANGED <<hasError, dependants, unemitted>>
    BY <1>3, <2>0 DEF LodgeFails, Unlocked, lockVars
  <2>3. \A s \in Sym : pending'[s] \subseteq pending[s]
    BY <1>3 DEF LodgeFails, Detach, PendingWithout
  <2> QED
    BY <2>1, <2>2, <2>3, LodgeShape
<1>4. ASSUME LodgeNotFound(q) \/ LodgeQuery(q)
      PROVE  ShapeInv'
  <2>0. PICK W \in SUBSET Sym, C \in SUBSET Unit, p \in {"lost", "outstanding"} :
          /\ W \subseteq Found(q) /\ Matching(q, Found(q), W, C)
          /\ Lodge(q, W, C, p)
    BY <1>4, Lodged DEF Base
  <2>1. /\ W \in SUBSET (Present \ hasError)
        /\ \A s \in W \ Covered(C) : symState[s] # Ready
    BY <1>2, <1>4, <2>0 DEF LodgeNotFound, LodgeQuery, InError, Found
  <2>2. Unlocked /\ Lodge(q, W, C, p) /\ section' \in {"free", "deps"}
        /\ UNCHANGED <<hasError, dependants, unemitted>>
    BY <1>4, <2>0 DEF LodgeNotFound, LodgeQuery, Unlocked, lockVars
  <2>3. symState' = Started(C) /\ mi' = mi \cup W
    BY <2>2 DEF Lodge
  <2>4. \A s \in Sym \ W : pending'[s] \subseteq pending[s]
    BY <2>2 DEF Lodge
  <2> QED
    BY <2>1, <2>2, <2>3, <2>4, LodgeShape
<1> QED
  BY <1>1, <1>3, <1>4 DEF LookUp

LEMMA ClientShape ==
  ASSUME Base, ShapeInv
  PROVE  /\ \A u \in Unit : Define(u) => ShapeInv'
         /\ \A t \in Tracker : RemoveTracker(t) => ShapeInv'
<1>1. ASSUME NEW u \in Unit, Define(u)
      PROVE  ShapeInv'
  <2>1. section = "free" /\ section' # "untrack" /\ UNCHANGED <<graphVars, pending>>
    BY <1>1 DEF Define, Unlocked, lockVars, queryVars
  <2>2. \A s \in Defined(u) : s \in Sym => symState[s] \in {Absent, NeverSearched}
    BY <1>1 DEF Define, Duplicates, Defined, Existing, Present, Base, TypeOK, TableType
  <2>3. \A s \in Sym : \/ symState'[s] = symState[s] /\ (s \in hasError => s \in hasError')
                       \/ symState[s] \in {Absent, NeverSearched} /\ symState'[s] = NeverSearched
    BY <1>1, <2>2 DEF Define
  <2> QED
    BY <2>1, <2>3, ShapeKept DEF BeingFailed
<1>2. ASSUME NEW t \in Tracker, RemoveTracker(t)
      PROVE  ShapeInv'
  <2>1. /\ section = "free" /\ UNCHANGED <<tableVars, graphVars, pending>>
        /\ doomed' \cap mi \subseteq todo'
    BY <1>2 DEF RemoveTracker, Unlocked, queryVars
  <2> QED
    BY <2>1, ShapeKept DEF tableVars, BeingFailed
<1> QED
  BY <1>1, <1>2

LEMMA ShapeInit ==
  ASSUME Init
  PROVE  ShapeInv
  BY DEF Init, ShapeInv, GraphShape, EmittedOutsideFailed, ErasesOutsideGraph

LEMMA ShapeStep ==
  ASSUME Base, ShapeInv, [Next]_vars
  PROVE  ShapeInv'
<1>1. ASSUME NEW u \in Unit, DispatchUnit(u)
      PROVE  ShapeInv'
  BY <1>1, ShapeKept DEF DispatchUnit, tableVars, queryVars, lockVars, BeingFailed
<1>2. ASSUME NEW q \in Query, NEW o \in Outcomes, NotifyComplete(q, o)
      PROVE  ShapeInv'
  BY <1>2, ShapeKept DEF NotifyComplete, tableVars, lockVars, BeingFailed
<1>3. ASSUME NEW t \in Tracker, RemoveAssertFails(t)
      PROVE  ShapeInv'
  BY <1>3, ShapeKept DEF RemoveAssertFails, tableVars, queryVars, Unlocked, BeingFailed
<1>4. CASE UNCHANGED vars
  BY <1>4, ShapeKept DEF vars, tableVars, queryVars, lockVars, BeingFailed
<1> QED
  BY <1>1, <1>2, <1>3, <1>4, LockedStepShape, MaterializeShape, LookUpShape, ClientShape
     DEF Next, AtRest

\* The shape of the dependence graph: only what is being materialized is waited
\* for, an emitted symbol that still has a MaterializingInfo waits for something,
\* and removeTracker erases no symbol of the graph.
THEOREM ShapeCorrect == Spec => []ShapeInv
  BY ShapeInit, ShapeStep, BaseCorrect, PTL DEF Spec

\* In particular the graph and the pending lists hold only symbols that are in the
\* table and not ready, as emit, failSymbols and removeTracker assert.
COROLLARY GraphShapeCorrect == Spec => []GraphShape
  BY ShapeCorrect, PTL DEF ShapeInv

-----------------------------------------------------------------------------
\* What is claimed was not in the table.
LEMMA AddedShape ==
  ASSUME Undefinable = {}, Base, ShapeInv, AddedStep
  PROVE  ShapeInv'
<1>0. /\ TypeOK /\ mi \subseteq Sym /\ symState \in [Sym -> SymbolState]
      /\ UNCHANGED <<graphVars, queryVars>> /\ UNCHANGED <<mi, dependants, unemitted, pending>>
  BY AddedKeeps DEF Base, TypeOK, TableType, GraphType, graphVars, queryVars
<1>1. ASSUME UNCHANGED <<symState, hasError>>, section = "free",
             section' = "untrack" => doomed' \cap mi \subseteq todo'
      PROVE  ShapeInv'
  <2>1. \A s \in Sym : ~ BeingFailed(s)
    BY <1>1 DEF BeingFailed
  <2> QED
    BY <1>0, <1>1, <2>1, ShapeKept
<1>2. ASSUME NEW u \in Unit, NEW K \in SUBSET ClaimSyms[u], DefineMaterializing(u, K)
      PROVE  ShapeInv'
  <2>1. /\ section = "free" /\ section' = "free" /\ UNCHANGED hasError
        /\ \A s \in Sym : symState'[s] = IF s \in Accepted(u, K) THEN Materializing ELSE symState[s]
    BY <1>2 DEF DefineMaterializing, Unlocked, lockVars
  <2>2. \A s \in Accepted(u, K) : s \in Sym => symState[s] = Absent
    BY <1>2 DEF DefineMaterializing, Accepted, Present
  <2>3. \A s \in Sym : ~ BeingFailed(s)
    BY <2>1 DEF BeingFailed
  <2> QED
    BY <1>0, <2>1, <2>2, <2>3, ShapeKept
<1>3. ~ \E S \in SUBSET Sym : RemoveSymbols(S)
  BY DEF RemoveSymbols
<1>4. ASSUME NEW u \in Unit, Split(u) PROVE ShapeInv'
  <2>1. CASE GetRequestedSymbols(u)
    BY <1>1, <2>1 DEF GetRequestedSymbols, vars, tableVars, lockVars, Unlocked
  <2>2. CASE RequestedAssertFails(u) \/ AdriftAborts(u)
    BY <1>1, <2>2 DEF RequestedAssertFails, AdriftAborts, tableVars, Unlocked
  <2>3. ASSUME NEW v \in Spare, NEW S \in SUBSET usyms[u],
               ReplaceRunning(u, v, S) \/ ReplaceLazily(u, v, S) \/ Delegate(u, v, S)
        PROVE  ShapeInv'
    BY <1>1, <2>3 DEF ReplaceRunning, ReplaceLazily, Delegate, tableVars, lockVars, Unlocked
  <2>4. ASSUME NEW S \in SUBSET usyms[u], SplitRefused(u, S) PROVE ShapeInv'
    BY <1>1, <2>4 DEF SplitRefused, tableVars, lockVars, Unlocked
  <2>5. ASSUME NEW K \in SUBSET ClaimSyms[u], DefineMaterializingFails(u, K)
        PROVE  ShapeInv'
    BY <1>1, <2>5 DEF DefineMaterializingFails, tableVars, lockVars, Unlocked
  <2> QED
    BY <1>2, <1>4, <2>1, <2>2, <2>3, <2>4, <2>5 DEF Split
<1>5. ASSUME NEW src \in Tracker, NEW dst \in Tracker, TransferTracker(src, dst)
      PROVE  ShapeInv'
  BY <1>1, <1>5 DEF TransferTracker, tableVars, lockVars, Unlocked
<1>6. CASE RemoveDefaultTracker
  BY <1>1, <1>6 DEF RemoveDefaultTracker, tableVars, Unlocked, Untracked, graphVars
<1> QED
  BY <1>3, <1>4, <1>5, <1>6 DEF AddedStep

\* The graph keeps its shape also when materializers claim symbols while they run
\* and trackers are transferred.  Removal by name is set aside: JITDylib::remove
\* takes any symbol that was never searched for, and addDependencies may have given
\* one an info on behalf of a responsibility whose tracker was removed.
THEOREM FullShapeCorrect ==
  ASSUME Undefinable = {}
  PROVE  FullSpec => []ShapeInv
<1>1. FullInit => ShapeInv
  BY ShapeInit DEF FullInit
<1>2. Base /\ ShapeInv /\ [FullNext]_fullVars => ShapeInv'
  BY FullSteps, ShapeStep, AddedShape
<1> QED
  BY <1>1, <1>2, FullBaseCorrect, PTL DEF FullSpec
=============================================================================
