-------------------------- MODULE OrcSessionProofs --------------------------
(***************************************************************************)
(* What the session promises the clients that look symbols up, for every   *)
(* workload that keeps clear of the disagreements found by the runs; each  *)
(* hypothesis is named and says which behaviour it leaves out.             *)
(***************************************************************************)
EXTENDS OrcShapeProofs, FiniteSetTheorems

USE DEF Absent, NeverSearched, Materializing, Resolved, Emitted, Ready, SymbolState

\* The invariants proved before, with the shape of the graph.
Core == Base /\ ShapeInv

LEMMA CoreCorrect == Spec => []Core
  BY BaseCorrect, ShapeCorrect, PTL DEF Core

\* A query is pending only on symbols in the graph.
LEMMA PendingHasInfo ==
  ASSUME Core
  PROVE  \A s \in Sym : pending[s] # {} => s \in mi
  BY DEF Core, ShapeInv, GraphShape

\* A symbol of the graph is in the table and not ready.
LEMMA InfoPresent ==
  ASSUME Core, NEW s \in Sym, s \in mi
  PROVE  symState[s] \in NeverSearched .. Emitted
  BY DEF Core, ShapeInv, GraphShape

-----------------------------------------------------------------------------
(***************************************************************************)
(* Where a waiting unit is the UnmaterializedInfo of all it lists, the     *)
(* matching loop comes to the same in every order, and the units that a    *)
(* failing lookup puts back are left as they were.                         *)
(***************************************************************************)

\* The converse of AttachedHasUnit: a waiting unit is the info of all its symbols.
DefinedAttached ==
  \A u \in Unit : phase[u] = "defined" => \A s \in usyms[u] : s \in attached /\ umi[s] = u

\* The units that the symbols of W are attached to are waiting.
LEMMA CollectedDefined ==
  ASSUME Core, NEW W \in SUBSET Sym
  PROVE  \A u \in Collected(W) : u \in Unit /\ phase[u] = "defined"
  BY DEF Collected, Core, Base, TableInv, AttachedHasUnit

LEMMA OrphanedDefined ==
  ASSUME Core, NEW K
  PROVE  \A u \in Orphaned(K) : phase[u] = "defined"
<1>1. attached \subseteq Sym
  BY DEF Core, Base, TypeOK, TableType
<1> QED
  BY <1>1 DEF Orphaned, Core, Base, TableInv, AttachedHasUnit

\* A definition leaves alone what does not wait.
LEMMA DefineRest ==
  ASSUME Core, NEW u \in Unit, Define(u), NEW v \in Unit \ {u}, phase[v] # "defined"
  PROVE  phase'[v] = phase[v] /\ usyms'[v] = usyms[v]
<1>1. attached \subseteq Sym
  BY DEF Core, Base, TypeOK, TableType
<1>2. Discarded(v, Defined(u)) = {}
  BY <1>1 DEF Discarded, Core, Base, TableInv, AttachedHasUnit
<1>3. v \notin Emptied(Defined(u))
  BY OrphanedDefined DEF Emptied
<1> QED
  BY <1>2, <1>3 DEF Define

\* No order makes the query wait for what meets the required state, and each unit
\* in its way is collected.
LEMMA MatchingApart ==
  ASSUME Core, DefinedAttached, NEW q \in Query, NEW V \in SUBSET Sym, NEW W \in SUBSET V,
         NEW C \in SUBSET Collected(V), Matching(q, V, W, C)
  PROVE  /\ W = Waiting(q, V) /\ C = Collected(W)
         /\ \A s \in Covered(C) : s \in Sym /\ s \in attached /\ umi[s] \in C
         /\ \A s \in Covered(C) : \A u \in C : s \in usyms[u] => u = umi[s]
         /\ Orphaned(Covered(C)) \subseteq C
<1>0. TypeOK /\ V \cap attached \subseteq Covered(C)
  BY DEF Core, Base, Matching
<1>1. \A u \in C : u \in Unit /\ phase[u] = "defined"
  BY CollectedDefined
<1>2. \A s \in Covered(C) : s \in Sym /\ s \in attached /\ umi[s] \in C
  <2> SUFFICES ASSUME NEW u \in C, NEW s \in usyms[u]
               PROVE  s \in Sym /\ s \in attached /\ umi[s] \in C
    BY DEF Covered
  <2> QED
    BY <1>0, <1>1 DEF DefinedAttached, TypeOK, UnitType
<1>3. \A s \in Covered(C) : \A u \in C : s \in usyms[u] => u = umi[s]
  BY <1>1 DEF DefinedAttached
<1>4. Orphaned(Covered(C)) \subseteq C
  BY <1>2 DEF Orphaned
<1>5. \A s \in attached : s \in Sym /\ symState[s] < QueryState[q]
  <2> SUFFICES ASSUME NEW s \in attached PROVE s \in Sym /\ symState[s] < QueryState[q]
    OBVIOUS
  <2>1. s \in Sym /\ symState[s] \in {NeverSearched, Materializing}
    BY <1>0 DEF Core, Base, TableInv, AttachedHasUnit, TypeOK, TableType
  <2>2. QueryState[q] \in {Resolved, Emitted, Ready}
    BY WorkloadAssumption
  <2> QED
    BY <2>1, <2>2
<1>6. W = Waiting(q, V)
  <2>1. Waiting(q, V) \subseteq W /\ W \subseteq Waiting(q, V) \cup Covered(C)
    BY DEF Matching
  <2>2. \A s \in V : s \in attached => s \in Waiting(q, V)
    BY <1>5 DEF Waiting
  <2> QED
    BY <1>2, <2>1, <2>2
<1>7. C \subseteq Collected(W)
  <2> SUFFICES ASSUME NEW u \in C PROVE u \in Collected(W)
    OBVIOUS
  <2>1. PICK s \in V \cap attached : umi[s] = u
    BY DEF Collected
  <2> QED
    BY <1>1, <1>5, <1>6, <2>1 DEF Waiting, Collected
<1>8. Collected(W) \subseteq C
  <2> SUFFICES ASSUME NEW s \in W \cap attached PROVE umi[s] \in C
    BY DEF Collected
  <2> QED
    BY <1>0, <1>2
<1> QED
  BY <1>2, <1>3, <1>4, <1>6, <1>7, <1>8

\* What the two remaining outcomes of the loop come to then.
LodgeApart(q, W, p) ==
  /\ W \in SUBSET Sym /\ Covered(Collected(W)) \subseteq Present
  /\ W \cap attached \subseteq Covered(Collected(W))
  /\ Lodge(q, W, Collected(W), p)
  /\ phase' = [u \in Unit |-> IF u \in Collected(W) THEN p ELSE phase[u]]

LEMMA MatchedApart ==
  ASSUME Core, DefinedAttached, NEW q \in Query, NEW W \in SUBSET Found(q),
         NEW C \in SUBSET Collected(Found(q)), Matching(q, Found(q), W, C),
         Covered(C) \subseteq Present, NEW p, Lodge(q, W, C, p)
  PROVE  W = Waiting(q, Found(q)) /\ C = Collected(W) /\ LodgeApart(q, W, p)
<1>0. Found(q) \in SUBSET Sym
  BY WorkloadAssumption DEF Found
<1>1. W = Waiting(q, Found(q)) /\ C = Collected(W) /\ Orphaned(Covered(C)) \subseteq C
  BY <1>0, MatchingApart
<1>2. W \cap attached \subseteq Covered(C)
  BY DEF Matching
<1>3. phase' = [u \in Unit |-> IF u \in C THEN p ELSE phase[u]]
  BY <1>1 DEF Lodge
<1> QED
  BY <1>0, <1>1, <1>2, <1>3 DEF LodgeApart

LEMMA NotFoundApart ==
  ASSUME Core, DefinedAttached, NEW q \in Query, LodgeNotFound(q)
  PROVE  /\ LodgeApart(q, Waiting(q, Found(q)), "lost")
         /\ outstanding' = [outstanding EXCEPT ![q] =
              (@ \ (Found(q) \ Waiting(q, Found(q)))) \ (QueryWeak[q] \ Present)]
<1>1. PICK W \in SUBSET Found(q), C \in SUBSET Collected(Found(q)) :
        /\ Matching(q, Found(q), W, C) /\ Covered(C) \subseteq Present
        /\ Lodge(q, W, C, "lost")
        /\ outstanding' = [outstanding EXCEPT ![q] =
             (@ \ (Found(q) \ W)) \ (QueryWeak[q] \ Present)]
  BY DEF LodgeNotFound
<1>2. W = Waiting(q, Found(q)) /\ LodgeApart(q, W, "lost")
  BY <1>1, MatchedApart
<1> QED
  BY <1>1, <1>2

LEMMA QueryApart ==
  ASSUME Core, DefinedAttached, NEW q \in Query, LodgeQuery(q), NEW W, W = Waiting(q, Found(q))
  PROVE  /\ LodgeApart(q, W, "outstanding")
         /\ outstanding' = [outstanding EXCEPT ![q] = W]
         /\ due' = IF W = {} THEN [due EXCEPT ![q] = @ \cup {"success"}] ELSE due
         /\ trackerMRs' = [t \in Tracker |->
              trackerMRs[t] \cup {u \in Collected(W) : urt[u] = t}]
         /\ IF Linked(q) # {} /\ W # {}
            THEN section' = "deps" /\ todo' = Linked(q) /\ newDeps' = W
            ELSE UNCHANGED <<section, todo, newDeps>>
<1>1. PICK V \in SUBSET Found(q), C \in SUBSET Collected(Found(q)) :
        /\ Matching(q, Found(q), V, C) /\ Covered(C) \subseteq Present
        /\ Lodge(q, V, C, "outstanding")
        /\ outstanding' = [outstanding EXCEPT ![q] = V]
        /\ due' = IF V = {} THEN [due EXCEPT ![q] = @ \cup {"success"}] ELSE due
        /\ trackerMRs' = [t \in Tracker |-> trackerMRs[t] \cup {u \in C : urt[u] = t}]
        /\ IF Linked(q) # {} /\ V # {}
           THEN section' = "deps" /\ todo' = Linked(q) /\ newDeps' = V
           ELSE UNCHANGED <<section, todo, newDeps>>
  BY DEF LodgeQuery
<1>2. V = W /\ C = Collected(V) /\ LodgeApart(q, V, "outstanding")
  BY <1>1, MatchedApart
<1> QED
  BY <1>1, <1>2

\* Putting the collected units back undoes what collecting them did to the infos.
LEMMA PutBackApart ==
  ASSUME Core, DefinedAttached, NEW q \in Query, NEW S \in SUBSET Sym, LodgeFails(q, S),
         NEW W, W = Waiting(q, S)
  PROVE  /\ UNCHANGED <<attached, umi, phase>>
         /\ symState' = Started(Collected(W)) /\ mi' = mi \cup W
         /\ Covered(Collected(W)) \subseteq Present
<1>0. umi = [s \in Sym |-> umi[s]] /\ phase = [u \in Unit |-> phase[u]]
  BY DEF Core, Base, TypeOK, TableType, UnitType
<1>1. PICK V \in SUBSET S, C \in SUBSET Collected(S) :
        /\ Matching(q, S, V, C)
        /\ Covered(C) \subseteq Present
        /\ symState' = Started(C)
        /\ mi' = mi \cup V
        /\ attached' = (attached \ Covered(C)) \cup PutBack(V, C)
        /\ umi' = [s \in Sym |->
             IF s \in PutBack(V, C) THEN CHOOSE u \in C : s \in usyms[u]
             ELSE IF s \in Covered(C) THEN None ELSE umi[s]]
        /\ phase' = [u \in Unit |-> IF u \in Orphaned(Covered(C)) \ C THEN "lost"
                                    ELSE phase[u]]
  BY DEF LodgeFails
<1>2. /\ V = W /\ C = Collected(W)
      /\ \A s \in Covered(C) : s \in Sym /\ s \in attached /\ umi[s] \in C
      /\ \A s \in Covered(C) : \A u \in C : s \in usyms[u] => u = umi[s]
      /\ Orphaned(Covered(C)) \subseteq C
  BY <1>1, MatchingApart
<1>3. PutBack(V, C) = Covered(C)
  BY <1>2 DEF PutBack, Covered
<1>4. attached' = attached
  BY <1>1, <1>2, <1>3
<1>5. \A s \in Covered(C) : (CHOOSE u \in C : s \in usyms[u]) = umi[s]
  <2> SUFFICES ASSUME NEW s \in Covered(C) PROVE (CHOOSE u \in C : s \in usyms[u]) = umi[s]
    OBVIOUS
  <2>1. \E u \in C : s \in usyms[u]
    BY DEF Covered
  <2> QED
    BY <1>2, <2>1
<1>6. \A s \in Sym : umi'[s] = umi[s]
  BY <1>1, <1>3, <1>5
<1>7. umi' = umi
  BY <1>0, <1>1, <1>6
<1>8. phase' = phase
  BY <1>0, <1>1, <1>2
<1> QED
  BY <1>1, <1>2, <1>4, <1>7, <1>8

\* A new definition takes its symbols over from every unit that waits with them.
LEMMA TakenApart ==
  ASSUME Core, DefinedAttached, NEW K \in SUBSET Sym, NEW v \in Unit
  PROVE  usyms[v] \ Discarded(v, K) = IF phase[v] = "defined" THEN usyms[v] \ K ELSE usyms[v]
<1>1. CASE phase[v] = "defined"
  <2>1. \A s \in usyms[v] : s \in Discarded(v, K) <=> s \in K
    BY <1>1 DEF Discarded, DefinedAttached
  <2> QED
    BY <1>1, <2>1
<1>2. CASE phase[v] # "defined"
  <2>1. \A s \in Discarded(v, K) : FALSE
    BY <1>2 DEF Discarded, Core, Base, TableInv, AttachedHasUnit
  <2> QED
    BY <1>2, <2>1
<1> QED
  BY <1>1, <1>2

-----------------------------------------------------------------------------
(***************************************************************************)
(* A query is answered once.                                               *)
(***************************************************************************)

\* No lookup is between LodgeNotFound and UnwindLookup: a failed lookup that has
\* released the lock with its query still registered is what MCRaceStranded shows.
NoneUnwinding == \A q \in Query : qphase[q] # "unwinding"

\* A registered query has no outcome yet, one with an outcome has no answer yet,
\* and a query that is not lodged has neither.
AnswerOf(q) ==
  /\ answer[q] # "twice"
  /\ \A o, p \in due[q] : o = p
  /\ due[q] # {} => answer[q] = "none"
  /\ regs[q] # {} => due[q] = {} /\ answer[q] = "none"
  /\ qphase[q] \in {"idle", "matched"} => due[q] = {} /\ answer[q] = "none"
AnswerInv == \A q \in Query : AnswerOf(q)

LEMMA AnswerKept ==
  ASSUME NEW q \in Query, AnswerOf(q),
         due'[q] = due[q], answer'[q] = answer[q], regs'[q] \subseteq regs[q],
         qphase'[q] \in {"idle", "matched"} => qphase[q] \in {"idle", "matched"}
  PROVE  AnswerOf(q)'
  BY DEF AnswerOf

\* A registered query is an issued one, so that it waits for just the symbols it
\* is registered with: when the last of them is met, none is left.
LEMMA NotifyMetAnswer ==
  ASSUME Core, AnswerInv, NoneUnwinding, NEW T \in [Sym -> SUBSET Query],
         \A z \in Sym : T[z] \subseteq pending[z],
         NotifyMet(T), UNCHANGED <<qphase, answer>>
  PROVE  AnswerInv'
<1> SUFFICES ASSUME NEW q \in Query PROVE AnswerOf(q)'
  BY DEF AnswerInv
<1>0. AnswerOf(q)
  BY DEF AnswerInv
<1>1. /\ regs'[q] = regs[q] \ MetFor(T, q)
      /\ due'[q] = IF MetFor(T, q) # {} /\ outstanding[q] \subseteq MetFor(T, q)
                   THEN due[q] \cup {"success"} ELSE due[q]
  BY DEF NotifyMet
<1>2. CASE MetFor(T, q) # {} /\ outstanding[q] \subseteq MetFor(T, q)
  <2>1. PICK z \in Sym : q \in T[z]
    BY <1>2 DEF MetFor
  <2>2. q \in pending[z] /\ regs[q] # {}
    BY <2>1 DEF Core, Base, QueryInv, RegistrationsMirrored
  <2>3. qphase[q] = "issued"
    BY <2>2 DEF NoneUnwinding, Core, Base, QueryInv, UnlodgedUnregistered, TypeOK, QueryType,
       QueryPhases
  <2>4. regs'[q] = {}
    BY <1>1, <1>2, <2>3 DEF Core, Base, QueryInv, RegistrationsMirrored
  <2>5. due'[q] = {"success"} /\ answer'[q] = "none"
    BY <1>0, <1>1, <1>2, <2>2 DEF AnswerOf
  <2> QED
    BY <2>3, <2>4, <2>5 DEF AnswerOf
<1>3. CASE ~ (MetFor(T, q) # {} /\ outstanding[q] \subseteq MetFor(T, q))
  BY <1>0, <1>1, <1>3, AnswerKept
<1> QED
  BY <1>2, <1>3

\* The loop of failSymbols hands a failure to queries that are registered.
LEMMA FailSymbolAnswer ==
  ASSUME Core, AnswerInv, NoneUnwinding, NEW s \in Sym, FailSymbol(s)
  PROVE  AnswerInv'
<1> SUFFICES ASSUME NEW q \in Query PROVE AnswerOf(q)'
  BY DEF AnswerInv
<1>0. AnswerOf(q)
  BY DEF AnswerInv
<1>1. /\ regs'[q] = IF q \in pending[s] THEN {} ELSE regs[q]
      /\ due'[q] = IF q \in pending[s] THEN due[q] \cup {"failure"} ELSE due[q]
      /\ UNCHANGED <<qphase, answer>>
  BY DEF FailSymbol, Detach, Forgotten
<1>2. CASE q \in pending[s]
  <2>1. regs[q] # {}
    BY <1>2 DEF Core, Base, QueryInv, RegistrationsMirrored
  <2>2. qphase[q] \notin {"idle", "matched"}
    BY <2>1 DEF Core, Base, QueryInv, UnlodgedUnregistered
  <2> QED
    BY <1>0, <1>1, <1>2, <2>1, <2>2 DEF AnswerOf
<1>3. CASE q \notin pending[s]
  BY <1>0, <1>1, <1>3, AnswerKept
<1> QED
  BY <1>2, <1>3

LEMMA LookUpAnswer ==
  ASSUME Core, AnswerInv, NoneUnwinding, NoneUnwinding', NEW q \in Query, LookUp(q)
  PROVE  AnswerInv'
<1> USE DEF Core, Base, TypeOK, QueryType
<1>1. ASSUME NEW p \in Query \ {q}
      PROVE  /\ due'[p] = due[p] /\ answer'[p] = answer[p]
             /\ regs'[p] = regs[p] /\ qphase'[p] = qphase[p]
  BY DEF LookUp, LookupMatched, LookupFails, LodgeFails, MatchAssertFails, LodgeNotFound,
     UnwindLookup, LodgeQuery, Lodge, Detach, Forgotten, queryVars
<1>2. ~ LodgeNotFound(q) /\ ~ UnwindLookup(q)
  BY DEF LodgeNotFound, UnwindLookup, NoneUnwinding
<1> HIDE DEF Core, Base
<1>3. AnswerOf(q) /\ (qphase[q] \in {"idle", "matched"} => regs[q] = {})
  BY DEF AnswerInv, Core, Base, QueryInv, UnlodgedUnregistered
<1>4. AnswerOf(q)'
  <2>1. CASE LookupMatched(q)
    BY <1>3, <2>1, AnswerKept DEF LookupMatched
  <2>2. CASE MatchAssertFails(q)
    BY <1>3, <2>2, AnswerKept DEF MatchAssertFails, queryVars
  <2>3. ASSUME LookupFails(q) \/ \E S \in SUBSET Sym : LodgeFails(q, S)
        PROVE  AnswerOf(q)'
    <3>1. /\ qphase[q] \in {"idle", "matched"} /\ qphase' = [qphase EXCEPT ![q] = "issued"]
          /\ due' = [due EXCEPT ![q] = @ \cup {"failure"}] /\ UNCHANGED answer
          /\ regs' = Forgotten(regs, {q})
      BY <2>3 DEF LookupFails, LodgeFails, Detach
    <3>2. due'[q] = {"failure"} /\ answer'[q] = "none" /\ regs'[q] = {} /\ qphase'[q] = "issued"
      BY <1>3, <3>1 DEF AnswerOf, Forgotten, Core, Base
    <3> QED
      BY <3>2 DEF AnswerOf
  <2>4. CASE LodgeQuery(q)
    <3>1. PICK W \in SUBSET Found(q) :
            /\ qphase[q] = "matched" /\ qphase' = [qphase EXCEPT ![q] = "issued"]
            /\ due' = IF W = {} THEN [due EXCEPT ![q] = @ \cup {"success"}] ELSE due
            /\ UNCHANGED answer /\ regs' = [regs EXCEPT ![q] = @ \cup W]
      BY <2>4 DEF LodgeQuery, Lodge
    <3>2. /\ due'[q] = IF W = {} THEN {"success"} ELSE {}
          /\ answer'[q] = "none" /\ regs'[q] = W /\ qphase'[q] = "issued"
      BY <1>3, <3>1 DEF AnswerOf, Core, Base
    <3> QED
      BY <3>2 DEF AnswerOf
  <2> QED
    BY <1>2, <2>1, <2>2, <2>3, <2>4 DEF LookUp
<1> QED
  BY <1>1, <1>4, AnswerKept DEF AnswerInv

LEMMA AnswerStep ==
  ASSUME Core, AnswerInv, NoneUnwinding, NoneUnwinding', [Next]_vars
  PROVE  AnswerInv'
<1>0. TypeOK
  BY DEF Core, Base
<1>1. CASE UNCHANGED queryVars
  BY <1>1, AnswerKept DEF AnswerInv, queryVars
<1>2. ASSUME \/ \E s \in Sym : EmitSymbol(s)
             \/ \E u \in Unit, R \in SUBSET Sym : NotifyResolved(u, R)
      PROVE  AnswerInv'
  <2>1. /\ UNCHANGED <<qphase, answer>>
        /\ \E Z \in SUBSET Sym, st \in Nat : NotifyMet(TakeQueriesMeeting(Z, st))
    BY <1>0, <1>2 DEF EmitSymbol, NotifyResolved, ReadyAfter, TypeOK, GraphType
  <2> QED
    BY <1>0, <2>1, TakeType, TakeTaken, NotifyMetAnswer DEF TypeOK
<1>3. ASSUME NEW q \in Query, NEW o \in Outcomes, NotifyComplete(q, o)
      PROVE  AnswerInv'
  <2>1. AnswerOf(q) /\ o \in due[q]
    BY <1>3 DEF AnswerInv, NotifyComplete
  <2>2. /\ due'[q] = due[q] \ {o} /\ answer'[q] = Answered(answer[q], o)
        /\ regs'[q] = regs[q] /\ qphase'[q] = qphase[q]
    BY <1>0, <1>3 DEF NotifyComplete, TypeOK, QueryType
  <2>3. due'[q] = {} /\ answer'[q] = o /\ o \in {"success", "failure"}
    BY <2>1, <2>2 DEF AnswerOf, Answered, Outcomes
  <2>4. AnswerOf(q)'
    BY <2>1, <2>2, <2>3 DEF AnswerOf
  <2>5. ASSUME NEW p \in Query \ {q} PROVE AnswerOf(p)'
    <3>1. due'[p] = due[p] /\ answer'[p] = answer[p] /\ regs'[p] = regs[p] /\ qphase'[p] = qphase[p]
      BY <1>0, <1>3 DEF NotifyComplete, TypeOK, QueryType
    <3> QED
      BY <3>1, AnswerKept DEF AnswerInv
  <2> QED
    BY <2>4, <2>5 DEF AnswerInv
<1> QED
  BY <1>1, <1>2, <1>3, FailSymbolAnswer, LookUpAnswer
  DEF Next, LockedStep, Materialize, AtRest, vars, AddDependencies, SkipDependencies,
      DependenciesAssertFails, EmitTrivially, FailTrivially, EraseDoomed, NotifyRefused,
      OL_AddDependencies, NotifyEmitted, NotifyAssertFails, FailMaterialization,
      DestroyResponsibility, DispatchUnit, Define, RemoveTracker, RemoveAssertFails, queryVars

LEMMA OnceOf ==
  ASSUME AnswerInv
  PROVE  AnsweredOnce
<1> SUFFICES ASSUME NEW q \in Query
             PROVE  /\ answer[q] # "twice" /\ (answer[q] # "none" => due[q] = {})
                    /\ Cardinality(due[q]) <= 1
  BY DEF AnsweredOnce
<1>1. AnswerOf(q)
  BY DEF AnswerInv
<1>2. due[q] = {} \/ \E o \in due[q] : due[q] = {o}
  BY <1>1 DEF AnswerOf
<1>3. Cardinality(due[q]) <= 1
  <2>1. CASE due[q] = {}
    BY <2>1, FS_EmptySet
  <2>2. ASSUME NEW o \in due[q], due[q] = {o} PROVE Cardinality(due[q]) <= 1
    <3>1. Cardinality({o}) = 1
      BY FS_Singleton
    <3> QED
      BY <2>2, <3>1
  <2> QED
    BY <1>2, <2>1, <2>2
<1> QED
  BY <1>1, <1>3 DEF AnswerOf

\* A query is told one outcome, once: notify, failSymbols and the failing lookup
\* never find the query that another of them has finished with.
THEOREM OnceCorrect == Spec /\ []NoneUnwinding => []AnsweredOnce
<1>1. Init => AnswerInv
  BY DEF Init, AnswerInv, AnswerOf
<1> QED
  BY <1>1, AnswerStep, OnceOf, CoreCorrect, PTL DEF Spec

-----------------------------------------------------------------------------
(***************************************************************************)
(* What the units and the lists of the trackers can name.                  *)
(***************************************************************************)
Live(u) == phase[u] \in {"outstanding", "running"}
OfTracker(t) == UNION {UnitSyms[u] : u \in {v \in Unit : UnitTracker[v] = t}}

UnitsFixed == \A u \in Unit : usyms[u] \subseteq UnitSyms[u] /\ urt[u] = UnitTracker[u]
ListsWithin == \A t \in Tracker : trackerSyms[t] \subseteq OfTracker(t)

\* removeTracker erases what one removed tracker listed.
DoomedWithin ==
  /\ section # "untrack" => doomed = {}
  /\ section = "untrack" => \E t \in Removable : doomed \subseteq OfTracker(t)

ListInv == UnitsFixed /\ ListsWithin /\ DoomedWithin

\* What a step does to the lists of the trackers.
LEMMA ListSteps ==
  ASSUME Core, [Next]_vars
  PROVE  \/ UNCHANGED <<trackerSyms, defunct, doomed>> /\ (section' = "untrack" <=> section = "untrack")
         \/ EraseDoomed
         \/ \E u \in Unit : Define(u)
         \/ \E t \in Tracker : RemoveTracker(t)
<1>1. CASE LockedStep /\ ~ EraseDoomed
  BY <1>1
  DEF LockedStep, AddDependencies, SkipDependencies, DependenciesAssertFails, EmitSymbol,
      EmitTrivially, FailSymbol, FailTrivially, Continue, trackerVars
<1>2. ASSUME NEW u \in Unit, Materialize(u)
      PROVE  UNCHANGED <<trackerSyms, defunct, doomed>> /\ (section' = "untrack" <=> section = "untrack")
  BY <1>2
  DEF Materialize, NotifyResolved, NotifyRefused, OL_AddDependencies, NotifyEmitted,
      NotifyAssertFails, FailMaterialization, DestroyResponsibility, Unlocked, lockVars, trackerVars
<1>3. ASSUME NEW q \in Query, LookUp(q)
      PROVE  UNCHANGED <<trackerSyms, defunct, doomed>> /\ (section' = "untrack" <=> section = "untrack")
  BY <1>3
  DEF LookUp, LookupMatched, LookupFails, LodgeFails, MatchAssertFails, LodgeNotFound, UnwindLookup,
      LodgeQuery, Unlocked, lockVars, trackerVars
<1> QED
  BY <1>1, <1>2, <1>3
  DEF Next, AtRest, vars, DispatchUnit, NotifyComplete, RemoveAssertFails, Unlocked, lockVars,
      trackerVars

\* A lookup takes up or destroys units that wait.
LEMMA LookUpUnits ==
  ASSUME Core, NEW q \in Query, LookUp(q)
  PROVE  /\ UNCHANGED <<urt, usyms>> /\ Unlocked
         /\ \A u \in Unit :
              \/ phase'[u] = phase[u]
              \/ phase[u] = "defined" /\ phase'[u] \in {"lost", "outstanding"}
<1>0. Found(q) \in SUBSET Sym
  BY WorkloadAssumption DEF Found
<1>1. UNCHANGED <<urt, usyms>> /\ Unlocked
  BY DEF LookUp, LookupMatched, LookupFails, LodgeFails, MatchAssertFails, LodgeNotFound,
     UnwindLookup, LodgeQuery, unitVars
<1>2. ASSUME NEW S \in SUBSET Sym, LodgeFails(q, S)
      PROVE  \A u \in Unit : \/ phase'[u] = phase[u]
                             \/ phase[u] = "defined" /\ phase'[u] = "lost"
  BY <1>2, OrphanedDefined DEF LodgeFails
<1>3. ASSUME LodgeNotFound(q) \/ LodgeQuery(q)
      PROVE  \A u \in Unit :
               \/ phase'[u] = phase[u]
               \/ phase[u] = "defined" /\ phase'[u] \in {"lost", "outstanding"}
  <2>1. PICK W \in SUBSET Found(q), C \in SUBSET Collected(Found(q)),
             p \in {"outstanding", "lost"} :
          Lodge(q, W, C, p)
    BY <1>3 DEF LodgeNotFound, LodgeQuery
  <2>2. \A u \in C : phase[u] = "defined"
    BY <1>0, CollectedDefined
  <2>3. \A u \in Unit : phase'[u] = IF u \in C THEN p
                                   ELSE IF u \in Orphaned(Covered(C)) THEN "lost" ELSE phase[u]
    BY <2>1 DEF Lodge
  <2> QED
    BY <2>2, <2>3, OrphanedDefined
<1>4. CASE UNCHANGED phase
  BY <1>1, <1>4
<1> QED
  BY <1>1, <1>2, <1>3, <1>4
  DEF LookUp, LookupMatched, LookupFails, MatchAssertFails, UnwindLookup, unitVars

\* No unit gains symbols, but that a new one is left with what it defines, and none
\* waits that did not wait or was not new.
LEMMA UnitSteps ==
  ASSUME Core, [Next]_vars
  PROVE  /\ urt' = urt
         /\ \A u \in Unit : usyms'[u] \subseteq usyms[u]
         /\ \A u \in Unit : phase'[u] = "defined" => phase[u] = "defined" \/ Define(u)
         /\ \A u \in Unit : Live(u)' => Live(u) \/ (phase[u] = "defined" /\ Unlocked)
<1>0. TypeOK
  BY DEF Core, Base
<1>1. CASE LockedStep
  <2>1. CASE EraseDoomed
    BY <1>0, <2>1 DEF EraseDoomed, Live, TypeOK, UnitType
  <2>2. CASE UNCHANGED unitVars
    BY <2>2 DEF unitVars, Live
  <2> QED
    BY <1>1, <2>1, <2>2
    DEF LockedStep, AddDependencies, SkipDependencies, DependenciesAssertFails, EmitSymbol,
        EmitTrivially, FailSymbol, FailTrivially
<1>2. ASSUME NEW u \in Unit, Materialize(u)
      PROVE  /\ urt' = urt
             /\ \A v \in Unit : usyms'[v] \subseteq usyms[v]
             /\ \A v \in Unit : phase'[v] = "defined" => phase[v] = "defined"
             /\ \A v \in Unit : Live(v)' => Live(v)
  BY <1>0, <1>2
  DEF Materialize, NotifyResolved, NotifyRefused, OL_AddDependencies, NotifyEmitted,
      NotifyAssertFails, FailMaterialization, DestroyResponsibility, unitVars, Live, TypeOK,
      UnitType
<1>3. ASSUME NEW q \in Query, LookUp(q)
      PROVE  /\ UNCHANGED <<urt, usyms>>
             /\ \A v \in Unit : phase'[v] = "defined" => phase[v] = "defined"
             /\ \A v \in Unit : Live(v)' => Live(v) \/ (phase[v] = "defined" /\ Unlocked)
  BY <1>3, LookUpUnits DEF Live
<1>4. ASSUME NEW u \in Unit, Define(u)
      PROVE  /\ urt' = urt
             /\ \A v \in Unit : usyms'[v] \subseteq usyms[v]
             /\ \A v \in Unit : phase'[v] = "defined" => phase[v] = "defined" \/ v = u
             /\ \A v \in Unit : Live(v)' => Live(v)
  BY <1>4 DEF Define, Defined, Live
<1>5. ASSUME NEW u \in Unit, DispatchUnit(u)
      PROVE  /\ UNCHANGED <<urt, usyms>>
             /\ \A v \in Unit : phase'[v] = "defined" => phase[v] = "defined"
             /\ \A v \in Unit : Live(v)' => Live(v)
  BY <1>0, <1>5 DEF DispatchUnit, Live, TypeOK, UnitType
<1>6. CASE UNCHANGED unitVars
  BY <1>6 DEF unitVars, Live
<1>7. (\E u \in Unit : Define(u)) \/ ~ \E u \in Unit : Define(u)
  OBVIOUS
<1> QED
  BY <1>1, <1>2, <1>3, <1>4, <1>5, <1>6, <1>7
  DEF Next, AtRest, vars, NotifyComplete, RemoveTracker, RemoveAssertFails

\* The lists of the trackers name what their units define.
LEMMA ListCorrect == Spec => []ListInv
<1>1. Init => ListInv
  <2> SUFFICES ASSUME Init PROVE ListInv
    OBVIOUS
  <2>1. UnitsFixed /\ DoomedWithin
    BY DEF Init, UnitsFixed, DoomedWithin
  <2>2. ListsWithin
    BY WorkloadAssumption DEF Init, ListsWithin, OfTracker
  <2> QED
    BY <2>1, <2>2 DEF ListInv
<1>2. Core /\ ListInv /\ [Next]_vars => ListInv'
  <2> SUFFICES ASSUME Core, ListInv, [Next]_vars PROVE ListInv'
    OBVIOUS
  <2>0. TypeOK
    BY DEF Core, Base
  <2>1. UnitsFixed'
    BY UnitSteps DEF ListInv, UnitsFixed
  <2>2. CASE UNCHANGED <<trackerSyms, defunct, doomed>> /\ (section' = "untrack" <=> section = "untrack")
    <3>1. ListsWithin'
      BY <2>2 DEF ListInv, ListsWithin, OfTracker
    <3>2. DoomedWithin'
      <4>1. CASE section = "untrack"
        BY <2>2, <4>1 DEF ListInv, DoomedWithin, OfTracker
      <4>2. CASE section # "untrack"
        BY <2>2, <4>2 DEF ListInv, DoomedWithin
      <4> QED
        BY <4>1, <4>2
    <3> QED
      BY <2>1, <3>1, <3>2 DEF ListInv
  <2>3. CASE EraseDoomed
    <3>1. UNCHANGED trackerSyms /\ section' = "free" /\ doomed' = {}
      BY <2>3 DEF EraseDoomed, trackerVars
    <3>2. ListsWithin'
      BY <3>1 DEF ListInv, ListsWithin, OfTracker
    <3>3. DoomedWithin'
      BY <3>1 DEF DoomedWithin
    <3> QED
      BY <2>1, <3>2, <3>3 DEF ListInv
  <2>4. ASSUME NEW u \in Unit, Define(u) PROVE ListsWithin' /\ DoomedWithin'
    <3>1. /\ UNCHANGED <<section, doomed>> /\ section = "free"
          /\ trackerSyms' = Tracked(u, Defined(u))
      BY <2>4 DEF Define, Unlocked, lockVars
    <3>2. Defined(u) \subseteq OfTracker(urt[u])
      BY DEF Defined, ListInv, UnitsFixed, OfTracker
    <3>3. ListsWithin'
      BY <2>0, <3>1, <3>2 DEF Tracked, ListInv, ListsWithin, OfTracker, TypeOK, TrackerType, UnitType
    <3> QED
      BY <3>1, <3>3 DEF ListInv, DoomedWithin
  <2>5. ASSUME NEW t \in Tracker, RemoveTracker(t) PROVE ListsWithin' /\ DoomedWithin'
    <3>1. /\ t \in Removable /\ section' = "untrack" /\ doomed' = trackerSyms[t]
          /\ \A x \in Tracker : trackerSyms'[x] = IF x = t THEN {} ELSE trackerSyms[x]
      BY <2>0, <2>5 DEF RemoveTracker, TypeOK, TrackerType
    <3> QED
      BY <3>1 DEF ListInv, ListsWithin, DoomedWithin, OfTracker
  <2> QED
    BY <2>1, <2>2, <2>3, <2>4, <2>5, ListSteps DEF ListInv
<1> QED
  BY <1>1, <1>2, CoreCorrect, PTL DEF Spec

-----------------------------------------------------------------------------
(***************************************************************************)
(* Who is responsible for a symbol.                                        *)
(***************************************************************************)

\* The responsibility of u covers s, and its tracker was not removed.
Holding(u, s) == Live(u) /\ s \in usyms[u] /\ urt[u] \notin defunct

\* What is held has been started and not emitted, nobody else holds it, and emit
\* and define leave it alone.
HeldMoving ==
  \A u \in Unit, s \in Sym : Holding(u, s) =>
    s \notin attached /\ symState[s] \in {Materializing, Resolved}
HeldByOne == \A u, v \in Unit, s \in Sym : Holding(u, s) /\ Holding(v, s) => u = v
EmitUnheld == section = "emit" => \A s \in todo : \A u \in Unit : ~ Holding(u, s)

OwnInv == DefinedAttached /\ HeldMoving /\ HeldByOne /\ EmitUnheld

\* Steps that start no unit and change the table only where nothing is held.
LEMMA OwnKept ==
  ASSUME OwnInv, UNCHANGED <<attached, umi>>,
         \A u \in Unit, s \in Sym : Holding(u, s)' => Holding(u, s),
         \A u \in Unit : phase'[u] = "defined" => phase[u] = "defined" /\ usyms'[u] = usyms[u],
         \A s \in Sym : symState'[s] = symState[s] \/ symState'[s] \in {Materializing, Resolved}
                        \/ \A u \in Unit : ~ Holding(u, s),
         section' = "emit" => section = "emit" /\ todo' \subseteq todo,
         todo \subseteq Sym
  PROVE  OwnInv'
<1> USE DEF OwnInv
<1>1. DefinedAttached'
  BY DEF DefinedAttached
<1>2. HeldMoving'
  BY DEF HeldMoving
<1>3. HeldByOne'
  BY DEF HeldByOne
<1>4. EmitUnheld'
  BY DEF EmitUnheld
<1> QED
  BY <1>1, <1>2, <1>3, <1>4

\* An emitted symbol is nobody's.
LEMMA AdvanceUnheld ==
  ASSUME Core, OwnInv, NEW s \in Sym, EmitSymbol(s) \/ EmitTrivially(s), NEW x \in Sym,
         symState'[x] # symState[x]
  PROVE  \A u \in Unit : ~ Holding(u, x)
<1>1. section = "emit" /\ s \in todo
  BY DEF EmitSymbol, EmitTrivially
<1>2. x = s \/ symState[x] = Emitted
  BY DEF EmitSymbol, EmitTrivially, ReadyAfter, Core, Base, TypeOK, TableType
<1> QED
  BY <1>1, <1>2 DEF OwnInv, EmitUnheld, HeldMoving

LEMMA LockedStepOwn ==
  ASSUME Core, OwnInv, LockedStep, EraseDoomed => OwnInv'
  PROVE  OwnInv'
<1>0. TypeOK /\ todo \subseteq Sym
  BY DEF Core, Base, TypeOK, LockType
<1>1. ASSUME NEW s \in Sym, EmitSymbol(s) \/ EmitTrivially(s) PROVE OwnInv'
  <2>1. /\ UNCHANGED <<attached, umi, unitVars, trackerVars>>
        /\ section' = "emit" => section = "emit" /\ todo' \subseteq todo
    BY <1>1 DEF EmitSymbol, EmitTrivially, Continue
  <2>2. \A u \in Unit, x \in Sym : Holding(u, x)' => Holding(u, x)
    BY <2>1 DEF Holding, Live, unitVars, trackerVars
  <2>3. \A x \in Sym : symState'[x] = symState[x] \/ \A u \in Unit : ~ Holding(u, x)
    BY <1>1, AdvanceUnheld
  <2> QED
    BY <1>0, <2>1, <2>2, <2>3, OwnKept DEF unitVars
<1>2. CASE UNCHANGED <<symState, attached, umi, unitVars, trackerVars>> /\ section' # "emit"
  BY <1>0, <1>2, OwnKept DEF Holding, Live, unitVars, trackerVars
<1> QED
  BY <1>1, <1>2
  DEF LockedStep, AddDependencies, SkipDependencies, DependenciesAssertFails, FailSymbol,
      FailTrivially, Continue, tableVars

LEMMA MaterializeOwn ==
  ASSUME Core, OwnInv, NEW u \in Unit, Materialize(u)
  PROVE  OwnInv'
<1>0. TypeOK /\ todo \subseteq Sym
  BY DEF Core, Base, TypeOK, LockType
<1>1. ASSUME NEW R \in SUBSET Sym, NotifyResolved(u, R) PROVE OwnInv'
  <2>1. /\ UNCHANGED <<attached, umi, unitVars, trackerVars>> /\ section' # "emit"
        /\ \A s \in Sym : symState'[s] = symState[s] \/ symState'[s] = Resolved
    BY <1>1 DEF NotifyResolved, Unlocked, lockVars
  <2> QED
    BY <1>0, <2>1, OwnKept DEF Holding, Live, unitVars, trackerVars
<1>2. CASE NotifyEmitted(u)
  <2>1. /\ UNCHANGED <<tableVars, phase, urt, trackerVars>>
        /\ usyms' = [usyms EXCEPT ![u] = {}] /\ section' = "emit" /\ todo' = usyms[u]
        /\ urt[u] \notin defunct /\ phase[u] = "running"
    BY <1>2 DEF NotifyEmitted, Active, Refused
  <2>2. /\ \A v \in Unit, s \in Sym : Holding(v, s)' => Holding(v, s) /\ v # u
        /\ \A v \in Unit : phase'[v] = "defined" => phase[v] = "defined" /\ usyms'[v] = usyms[v]
    BY <1>0, <2>1 DEF Holding, Live, trackerVars, TypeOK, UnitType
  <2>3. DefinedAttached' /\ HeldMoving' /\ HeldByOne'
    BY <2>1, <2>2 DEF OwnInv, DefinedAttached, HeldMoving, HeldByOne, tableVars
  <2>4. \A s \in todo' : s \in Sym /\ Holding(u, s)
    BY <1>0, <2>1 DEF Holding, Live, TypeOK, UnitType
  <2>5. EmitUnheld'
    BY <2>2, <2>4 DEF OwnInv, HeldByOne, EmitUnheld
  <2> QED
    BY <2>3, <2>5 DEF OwnInv
<1>3. CASE FailMaterialization(u)
  <2>1. /\ UNCHANGED <<tableVars, phase, urt, trackerVars>>
        /\ usyms' = [usyms EXCEPT ![u] = {}] /\ section' # "emit" /\ phase[u] = "running"
    BY <1>3 DEF FailMaterialization, Unlocked
  <2> QED
    BY <1>0, <2>1, OwnKept DEF Holding, Live, tableVars, trackerVars, TypeOK, UnitType
<1>4. CASE DestroyResponsibility(u)
  <2>1. /\ UNCHANGED <<tableVars, usyms, urt, defunct>> /\ section' # "emit"
        /\ phase[u] = "running" /\ phase' = [phase EXCEPT ![u] = "done"]
    BY <1>4 DEF DestroyResponsibility, Unlocked, lockVars
  <2> QED
    BY <1>0, <2>1, OwnKept DEF Holding, Live, tableVars, TypeOK, UnitType
<1>5. CASE UNCHANGED <<tableVars, phase, usyms, urt, trackerVars>> /\ section' # "emit"
  BY <1>0, <1>5, OwnKept DEF Holding, Live, tableVars, trackerVars
<1> QED
  BY <1>1, <1>2, <1>3, <1>4, <1>5
  DEF Materialize, NotifyRefused, OL_AddDependencies, NotifyAssertFails, Unlocked, lockVars,
      unitVars

\* A lookup starts units whose symbols are all attached, so held by nobody.
LEMMA LodgeOwn ==
  ASSUME Core, OwnInv, NEW q \in Query, NEW W \in SUBSET Sym,
         NEW p \in {"outstanding", "lost"}, LodgeApart(q, W, p),
         UNCHANGED <<usyms, urt, defunct>>, section' # "emit"
  PROVE  OwnInv'
<1> DEFINE C == Collected(W)
<1>0. TypeOK
  BY DEF Core, Base
<1>1. \A u \in C : u \in Unit /\ phase[u] = "defined"
  BY DEF Collected, Core, Base, TableInv, AttachedHasUnit
<1>2. /\ \A u \in Unit \ C : phase'[u] = phase[u]
      /\ \A u \in C : phase'[u] = p
  BY <1>1 DEF LodgeApart
<1>3. \A u \in C, s \in Sym : s \in usyms[u] => s \in Covered(C)
  BY DEF Covered
<1>4. /\ \A s \in Covered(C) : s \in Sym => symState'[s] = Materializing /\ s \notin attached'
      /\ \A s \in Sym : s \notin Covered(C) =>
           symState'[s] = symState[s] /\ umi'[s] = umi[s] /\ (s \in attached' <=> s \in attached)
  BY DEF LodgeApart, Lodge, Started
<1>5. \A s \in Covered(C) : s \in Sym => s \in attached /\ umi[s] \in C
  <2> SUFFICES ASSUME NEW s \in Sym, s \in Covered(C) PROVE s \in attached /\ umi[s] \in C
    OBVIOUS
  <2>1. PICK u \in C : s \in usyms[u]
    BY DEF Covered
  <2> QED
    BY <1>1, <2>1 DEF OwnInv, DefinedAttached
<1> HIDE DEF C
<1>6. \A u \in Unit, s \in Sym : Holding(u, s)' =>
         (Holding(u, s) /\ s \notin Covered(C)) \/ (u \in C /\ s \in Covered(C))
  BY <1>2, <1>3, <1>5 DEF Holding, Live, OwnInv, HeldMoving
<1>7. \A u \in Unit : usyms[u] \subseteq Sym
  BY <1>0 DEF TypeOK, UnitType
<1>8. DefinedAttached'
  <2> SUFFICES ASSUME NEW u \in Unit, phase'[u] = "defined", NEW s \in usyms[u]
               PROVE  s \in attached' /\ umi'[s] = u
    BY DEF DefinedAttached
  <2>1. u \notin C /\ s \in Sym /\ s \in attached /\ umi[s] = u
    BY <1>2, <1>7 DEF OwnInv, DefinedAttached
  <2> QED
    BY <1>4, <1>5, <2>1
<1>9. HeldMoving'
  BY <1>4, <1>6 DEF OwnInv, HeldMoving
<1>10. HeldByOne'
  <2> SUFFICES ASSUME NEW u \in Unit, NEW v \in Unit, NEW s \in Sym, Holding(u, s)', Holding(v, s)'
               PROVE  u = v
    BY DEF HeldByOne
  <2>1. CASE s \in Covered(C)
    <3>1. u \in C /\ v \in C /\ s \in usyms[u] /\ s \in usyms[v]
      BY <1>6, <2>1 DEF Holding
    <3> QED
      BY <1>1, <3>1 DEF OwnInv, DefinedAttached
  <2>2. CASE s \notin Covered(C)
    BY <1>6, <2>2 DEF OwnInv, HeldByOne
  <2> QED
    BY <2>1, <2>2
<1>11. EmitUnheld'
  BY DEF EmitUnheld
<1> QED
  BY <1>8, <1>9, <1>10, <1>11 DEF OwnInv

LEMMA LookUpOwn ==
  ASSUME Core, OwnInv, NEW q \in Query, LookUp(q)
  PROVE  OwnInv'
<1>0. TypeOK /\ todo \subseteq Sym
  BY DEF Core, Base, TypeOK, LockType
<1>1. ASSUME NEW S \in SUBSET Sym, LodgeFails(q, S) PROVE OwnInv'
  <2>1. /\ UNCHANGED <<attached, umi, unitVars, trackerVars>> /\ section' # "emit"
        /\ \A s \in Sym : symState'[s] = symState[s] \/ symState'[s] = Materializing
    <3>1. PICK W : W = Waiting(q, S)
      OBVIOUS
    <3>2. UNCHANGED <<attached, umi, phase>> /\ symState' = Started(Collected(W))
      BY <1>1, <3>1, PutBackApart DEF OwnInv
    <3>3. UNCHANGED <<usyms, urt, erred, trackerVars>> /\ section' # "emit"
      BY <1>1 DEF LodgeFails, Unlocked, lockVars
    <3> QED
      BY <3>2, <3>3 DEF Started, unitVars
  <2> QED
    BY <1>0, <2>1, OwnKept DEF Holding, Live, unitVars, trackerVars
<1>2. Waiting(q, Found(q)) \in SUBSET Sym
  BY WorkloadAssumption DEF Waiting, Found
<1>3. CASE LodgeNotFound(q)
  <2>1. LodgeApart(q, Waiting(q, Found(q)), "lost")
    BY <1>3, NotFoundApart DEF OwnInv
  <2>2. UNCHANGED <<usyms, urt, defunct>> /\ section' # "emit"
    BY <1>3 DEF LodgeNotFound, trackerVars, lockVars, Unlocked
  <2> QED
    BY <1>2, <2>1, <2>2, LodgeOwn
<1>4. CASE LodgeQuery(q)
  <2>1. LodgeApart(q, Waiting(q, Found(q)), "outstanding")
    BY <1>4, QueryApart DEF OwnInv
  <2>2. UNCHANGED <<usyms, urt, defunct>> /\ section' # "emit"
    BY <1>4 DEF LodgeQuery, Unlocked
  <2> QED
    BY <1>2, <2>1, <2>2, LodgeOwn
<1>5. CASE UNCHANGED <<tableVars, unitVars, trackerVars>> /\ section' # "emit"
  BY <1>0, <1>5, OwnKept DEF Holding, Live, tableVars, unitVars, trackerVars
<1> QED
  BY <1>1, <1>3, <1>4, <1>5
  DEF LookUp, LookupMatched, LookupFails, MatchAssertFails, UnwindLookup, Unlocked, lockVars

\* A new definition takes its symbols from the waiting units, and from no other.
LEMMA DefineUnits ==
  ASSUME Core, DefinedAttached, NEW u \in Unit, Define(u), Defined(u) \subseteq Sym
  PROVE  \A v \in Unit \ {u} :
           /\ phase'[v] = phase[v] \/ phase'[v] = "lost"
           /\ usyms'[v] = IF phase[v] = "defined" THEN usyms[v] \ Defined(u) ELSE usyms[v]
<1>1. \A v \in Unit \ {u} :
        /\ phase'[v] = phase[v] \/ phase'[v] = "lost"
        /\ usyms'[v] = usyms[v] \ Discarded(v, Defined(u))
  BY DEF Define
<1> QED
  BY <1>1, TakenApart

\* A new definition takes symbols over from waiting units only.
LEMMA DefineOwn ==
  ASSUME Core, OwnInv, NEW u \in Unit, Define(u)
  PROVE  OwnInv'
<1> DEFINE K == Defined(u)
<1>0. TypeOK
  BY DEF Core, Base
<1>1. K \subseteq Sym /\ \A s \in K : symState[s] \in {Absent, NeverSearched}
  BY <1>0 DEF Define, Duplicates, Defined, Existing, Present, TypeOK, TableType, UnitType
<1>2. /\ \A s \in Sym : umi'[s] = IF s \in K THEN u ELSE umi[s]
      /\ attached' = attached \cup K
      /\ \A s \in Sym \ K : symState'[s] = symState[s]
      /\ usyms'[u] = K /\ phase[u] = "new" /\ ~ Live(u)'
      /\ UNCHANGED <<urt, defunct>> /\ section' # "emit"
  BY DEF Define, Unlocked, lockVars, Live
<1>3. /\ \A v \in Unit \ {u} : phase'[v] = "defined" =>
           phase[v] = "defined" /\ usyms'[v] = usyms[v] \ K
      /\ \A v \in Unit \ {u} : Live(v)' => Live(v) /\ usyms'[v] = usyms[v]
  BY <1>1, DefineUnits DEF OwnInv, Live
<1> HIDE DEF K
<1>4. \A v \in Unit, s \in Sym : Holding(v, s)' => Holding(v, s) /\ s \notin K
  <2> SUFFICES ASSUME NEW v \in Unit, NEW s \in Sym, Holding(v, s)'
               PROVE  Holding(v, s) /\ s \notin K
    OBVIOUS
  <2>1. v # u /\ Holding(v, s)
    BY <1>2, <1>3 DEF Holding
  <2>2. symState[s] \in {Materializing, Resolved}
    BY <2>1 DEF OwnInv, HeldMoving
  <2> QED
    BY <1>1, <2>1, <2>2
<1>5. DefinedAttached'
  <2> SUFFICES ASSUME NEW v \in Unit, phase'[v] = "defined", NEW s \in usyms'[v]
               PROVE  s \in attached' /\ umi'[s] = v
    BY DEF DefinedAttached
  <2>1. CASE v = u
    BY <1>1, <1>2, <2>1
  <2>2. CASE v # u
    <3>1. phase[v] = "defined" /\ s \in usyms[v] /\ s \notin K /\ s \in Sym
      BY <1>0, <1>3, <2>2 DEF TypeOK, UnitType
    <3> QED
      BY <1>2, <3>1 DEF OwnInv, DefinedAttached
  <2> QED
    BY <2>1, <2>2
<1>6. HeldMoving' /\ HeldByOne'
  BY <1>2, <1>4 DEF OwnInv, HeldMoving, HeldByOne
<1>7. EmitUnheld'
  BY <1>2 DEF EmitUnheld
<1> QED
  BY <1>5, <1>6, <1>7 DEF OwnInv

LEMMA OwnInit ==
  ASSUME Init
  PROVE  OwnInv
<1>1. HeldMoving /\ HeldByOne /\ EmitUnheld
  BY DEF Init, HeldMoving, HeldByOne, EmitUnheld, Holding, Live
<1>2. DefinedAttached
  <2> SUFFICES ASSUME NEW u \in Unit, phase[u] = "defined", NEW s \in usyms[u]
               PROVE  s \in attached /\ umi[s] = u
    BY DEF DefinedAttached
  <2>1. u \in Loaded /\ s \in UnitSyms[u] /\ s \in Sym
    BY WorkloadAssumption DEF Init
  <2>2. LoaderOf(s) \in Loaded /\ s \in UnitSyms[LoaderOf(s)]
    BY <2>1 DEF LoaderOf
  <2>3. LoaderOf(s) = u
    BY <2>1, <2>2, LoadedAssumption
  <2> QED
    BY <2>1, <2>3 DEF Init
<1> QED
  BY <1>1, <1>2 DEF OwnInv

LEMMA OwnStep ==
  ASSUME Core, OwnInv, [Next]_vars, EraseDoomed => OwnInv'
  PROVE  OwnInv'
<1>0. TypeOK /\ todo \subseteq Sym
  BY DEF Core, Base, TypeOK, LockType
<1>1. CASE UNCHANGED vars
  BY <1>0, <1>1, OwnKept DEF Holding, Live, vars, tableVars, unitVars, trackerVars, lockVars
<1>2. ASSUME NEW u \in Unit, DispatchUnit(u) PROVE OwnInv'
  <2>1. /\ UNCHANGED <<tableVars, usyms, urt, defunct, section, todo>>
        /\ phase[u] = "outstanding" /\ phase' = [phase EXCEPT ![u] = "running"]
    BY <1>2 DEF DispatchUnit, trackerVars, lockVars
  <2> QED
    BY <1>0, <2>1, OwnKept DEF Holding, Live, tableVars, TypeOK, UnitType
<1>3. ASSUME NEW q \in Query, NEW o \in Outcomes, NotifyComplete(q, o) PROVE OwnInv'
  BY <1>0, <1>3, OwnKept
  DEF NotifyComplete, Holding, Live, tableVars, unitVars, trackerVars, lockVars
<1>4. ASSUME NEW t \in Tracker, RemoveTracker(t) PROVE OwnInv'
  <2>1. /\ UNCHANGED <<tableVars, unitVars>> /\ defunct \subseteq defunct' /\ section' # "emit"
    BY <1>4 DEF RemoveTracker
  <2> QED
    BY <1>0, <2>1, OwnKept DEF Holding, Live, tableVars, unitVars
<1>5. ASSUME NEW t \in Tracker, RemoveAssertFails(t) PROVE OwnInv'
  BY <1>0, <1>5, OwnKept
  DEF RemoveAssertFails, Unlocked, Holding, Live, tableVars, unitVars, trackerVars
<1> QED
  BY <1>1, <1>2, <1>3, <1>4, <1>5, LockedStepOwn, MaterializeOwn, LookUpOwn, DefineOwn
  DEF Next, AtRest

\* What a step does to the state of a symbol: starting a unit again, redefining a
\* symbol and making dependants ready take no symbol back.
LEMMA StateStep ==
  ASSUME Core, OwnInv, [Next]_vars, NEW s \in Sym
  PROVE  symState'[s] >= symState[s] \/ (symState'[s] = Absent /\ s \in doomed)
<1>0. TypeOK /\ symState[s] \in 0 .. 5
  BY DEF Core, Base, TypeOK, TableType
<1>1. CASE symState'[s] = symState[s]
  BY <1>0, <1>1
<1>2. ASSUME NEW x \in Sym, EmitSymbol(x) \/ EmitTrivially(x)
      PROVE  symState'[s] >= symState[s]
  <2>1. symState[x] = Resolved
    BY <1>2 DEF EmitSymbol, EmitTrivially, Core, Base, TableInv, EmitsResolved
  <2>2. \/ symState'[s] = symState[s] \/ symState'[s] = Ready
        \/ s = x /\ symState'[s] = Emitted
    BY <1>0, <1>2 DEF EmitSymbol, EmitTrivially, TypeOK, TableType
  <2> QED
    BY <1>0, <2>1, <2>2
<1>3. CASE EraseDoomed
  BY <1>0, <1>3 DEF EraseDoomed
<1>4. ASSUME NEW u \in Unit, NEW R \in SUBSET Sym, NotifyResolved(u, R)
      PROVE  symState'[s] >= symState[s]
  BY <1>0, <1>4 DEF NotifyResolved
<1>5. ASSUME NEW u \in Unit, Define(u) PROVE symState'[s] >= symState[s]
  <2>1. s \in Defined(u) => symState[s] \in {Absent, NeverSearched}
    BY <1>0, <1>5 DEF Define, Duplicates, Defined, Existing, Present
  <2> QED
    BY <1>0, <1>5, <2>1 DEF Define
<1>6. ASSUME NEW V \in SUBSET Sym, NEW C \in SUBSET Collected(V), symState' = Started(C)
      PROVE  symState'[s] >= symState[s]
  <2>1. CASE s \in Covered(C)
    <3>1. PICK u \in C : s \in usyms[u]
      BY <2>1 DEF Covered
    <3>2. u \in Unit /\ phase[u] = "defined"
      BY CollectedDefined
    <3>3. s \in attached
      BY <3>1, <3>2 DEF OwnInv, DefinedAttached
    <3>4. symState[s] \in {NeverSearched, Materializing}
      BY <3>3 DEF Core, Base, TableInv, AttachedHasUnit
    <3> QED
      BY <1>6, <2>1, <3>4 DEF Started
  <2>2. CASE s \notin Covered(C)
    BY <1>0, <1>6, <2>2 DEF Started
  <2> QED
    BY <2>1, <2>2
<1>7. ASSUME NEW q \in Query, LookUp(q) PROVE symState'[s] >= symState[s]
  <2>2. Found(q) \in SUBSET Sym
    BY WorkloadAssumption DEF Found
  <2>3. \/ symState' = symState
        \/ \E V \in SUBSET Sym : \E C \in SUBSET Collected(V) : symState' = Started(C)
    BY <1>7, <2>2
    DEF LookUp, LookupMatched, LookupFails, LodgeFails, MatchAssertFails, LodgeNotFound,
        UnwindLookup, LodgeQuery, Lodge, tableVars
  <2> QED
    BY <1>0, <1>6, <2>3
<1> QED
  BY <1>1, <1>2, <1>3, <1>4, <1>5, <1>7
  DEF Next, LockedStep, Materialize, AtRest, vars, AddDependencies, SkipDependencies,
      DependenciesAssertFails, FailSymbol, FailTrivially, NotifyRefused, OL_AddDependencies,
      NotifyEmitted, NotifyAssertFails, FailMaterialization, DestroyResponsibility,
      DispatchUnit, NotifyComplete, RemoveTracker, RemoveAssertFails, tableVars

-----------------------------------------------------------------------------
(***************************************************************************)
(* What a tracker lists, and what its removal erases.                      *)
(***************************************************************************)

\* No unit defines strongly what a unit of another tracker, one of X, defines weakly.
\* The strong definition takes over the weak one's symbol, which stays in the list of
\* the old tracker, and removing that tracker would erase it (Define, Tracked).
OverridesApart(X) ==
  \A u, v \in Unit : UnitTracker[u] # UnitTracker[v] /\ UnitTracker[v] \in X =>
    (UnitSyms[u] \ UnitWeak[u]) \cap UnitSyms[v] \cap UnitWeak[v] = {}

\* The trackers that have a list.
Listing == Tracker \ {DefaultTracker}

\* No client adds a unit under a tracker it has removed: defineImpl does not look
\* at the tracker, and the responsibility of such a unit is failed by nobody
\* (Core.cpp:3088).
NoneLate ==
  Unlocked => \A u \in Unit : phase[u] = "defined" => urt[u] \notin defunct

\* A unit that waits, or a responsibility under a live tracker.
Keeping(u) == phase[u] = "defined" \/ (Live(u) /\ urt[u] \notin defunct)

\* The lists of the trackers of X are of symbols in the table, have none in common,
\* and name nothing that is kept under another tracker.
ListsPresent(X) == \A t \in X : trackerSyms[t] \subseteq Present
ListsDisjoint(X) == \A t, w \in X : t # w => trackerSyms[t] \cap trackerSyms[w] = {}
KeepersListed(X) ==
  \A t \in X, u \in Unit : Keeping(u) /\ usyms[u] \cap trackerSyms[t] # {} => urt[u] = t

\* What a unit waits with is listed, or about to be erased with the list; what a
\* responsibility of a live tracker covers is listed.
DefinedListed ==
  \A u \in Unit : phase[u] = "defined" /\ urt[u] # DefaultTracker =>
    usyms[u] \subseteq trackerSyms[urt[u]] \cup doomed
LiveListed ==
  \A u \in Unit : Live(u) /\ urt[u] # DefaultTracker /\ urt[u] \notin defunct =>
    usyms[u] \subseteq trackerSyms[urt[u]]

\* removeTracker erases what one removed tracker listed, and no other.
DoomedApart(X) ==
  /\ section # "untrack" => doomed = {}
  /\ section = "untrack" =>
       \E t \in Removable \cap defunct :
          /\ trackerSyms[t] = {}
          /\ \A w \in X : doomed \cap trackerSyms[w] = {}
          /\ \A u \in Unit : Keeping(u) /\ usyms[u] \cap doomed # {} => urt[u] = t

TrackInv(X) ==
  /\ ListsPresent(X) /\ ListsDisjoint(X) /\ KeepersListed(X)
  /\ DefinedListed /\ LiveListed /\ DoomedApart(X)

\* A unit still to be defined is as it was added; a symbol that may be taken over is a
\* weak definition of its unit, whose tracker is the one it was added under or was
\* transferred from there.
NewFixed == \A u \in Unit : phase[u] = "new" => usyms[u] = UnitSyms[u] /\ urt[u] = UnitTracker[u]
WeakOf ==
  \A s \in attached \cap weak : symState[s] = NeverSearched =>
    /\ s \in UnitSyms[umi[s]] \cap UnitWeak[umi[s]]
    /\ urt[umi[s]] = UnitTracker[umi[s]] \/ UnitTracker[umi[s]] \in defunct
WeakInv == NewFixed /\ WeakOf /\ DefaultTracker \notin defunct

\* A unit that still waits when its tracker's symbols are erased loses none.
LEMMA SurvivorsApart ==
  ASSUME NEW X, Core, OwnInv, TrackInv(X), EraseDoomed, NEW u \in Unit, phase'[u] = "defined"
  PROVE  phase[u] = "defined" /\ usyms[u] \cap doomed = {}
<1>1. /\ phase[u] = "defined" /\ u \notin Orphaned(doomed) /\ section = "untrack"
      /\ attached \subseteq Sym
  BY DEF EraseDoomed, Core, Base, TypeOK, TableType, UnitType
<1>2. \A s \in usyms[u] : s \in attached /\ umi[s] = u
  BY <1>1 DEF OwnInv, DefinedAttached
<1>3. \A s \in attached : umi[s] = u => s \in usyms[u]
  BY <1>1 DEF Core, Base, TableInv, AttachedHasUnit
<1>4. PICK t \in Removable \cap defunct :
        /\ trackerSyms[t] = {}
        /\ \A v \in Unit : Keeping(v) /\ usyms[v] \cap doomed # {} => urt[v] = t
  BY <1>1 DEF TrackInv, DoomedApart
<1>5. ASSUME usyms[u] \cap doomed # {} PROVE FALSE
  <2>1. urt[u] = t
    BY <1>1, <1>4, <1>5 DEF Keeping
  <2>2. t # DefaultTracker
    BY WorkloadAssumption
  <2>3. usyms[u] \subseteq doomed
    BY <1>1, <1>4, <2>1, <2>2 DEF TrackInv, DefinedListed
  <2> QED
    BY <1>1, <1>2, <1>3, <1>5, <2>3 DEF Orphaned
<1> QED
  BY <1>1, <1>5

\* removeTracker erases nothing that another tracker's responsibility covers.
LEMMA EraseOwn ==
  ASSUME NEW X, Core, TrackInv(X), OwnInv, EraseDoomed
  PROVE  OwnInv'
<1>0. TypeOK
  BY DEF Core, Base
<1>1. /\ section = "untrack" /\ section' = "free" /\ UNCHANGED <<usyms, urt, defunct>>
      /\ \A u \in Unit : Live(u)' => Live(u)
      /\ attached' = attached \ doomed
      /\ \A s \in Sym \ doomed : umi'[s] = umi[s] /\ symState'[s] = symState[s]
  BY <1>0 DEF EraseDoomed, Live, trackerVars, TypeOK, UnitType
<1>2. \A u \in Unit, s \in Sym : Holding(u, s)' => Holding(u, s) /\ s \notin doomed
  <2> SUFFICES ASSUME NEW u \in Unit, NEW s \in Sym, Holding(u, s)'
               PROVE  Holding(u, s) /\ s \notin doomed
    OBVIOUS
  <2>1. Holding(u, s)
    BY <1>1 DEF Holding
  <2>2. PICK t \in Removable \cap defunct :
          \A v \in Unit : Keeping(v) /\ usyms[v] \cap doomed # {} => urt[v] = t
    BY <1>1 DEF TrackInv, DoomedApart
  <2> QED
    BY <2>1, <2>2 DEF Holding, Keeping
<1>3. \A u \in Unit : usyms[u] \subseteq Sym
  BY <1>0 DEF TypeOK, UnitType
<1>4. DefinedAttached'
  BY <1>1, <1>3, SurvivorsApart DEF OwnInv, DefinedAttached
<1>5. HeldMoving'
  BY <1>1, <1>2 DEF OwnInv, HeldMoving
<1>6. HeldByOne'
  BY <1>2 DEF OwnInv, HeldByOne
<1>7. EmitUnheld'
  BY <1>1 DEF EmitUnheld
<1> QED
  BY <1>4, <1>5, <1>6, <1>7 DEF OwnInv

\* Steps that leave the lists alone, and take units on only where nothing is being
\* erased.
LEMMA TrackKept ==
  ASSUME NEW X, TrackInv(X), UNCHANGED <<trackerSyms, urt, defunct, doomed>>,
         \A u \in Unit : usyms'[u] \subseteq usyms[u],
         \A u \in Unit : phase'[u] = "defined" => phase[u] = "defined",
         \A u \in Unit : Live(u)' => Live(u) \/ (phase[u] = "defined" /\ doomed = {}),
         section' = "untrack" <=> section = "untrack",
         \A t \in X : trackerSyms[t] \subseteq Present'
  PROVE  TrackInv(X)'
<1> USE DEF TrackInv
<1>1. \A u \in Unit : Keeping(u)' => Keeping(u)
  BY DEF Keeping
<1>2. ListsPresent(X)' /\ ListsDisjoint(X)'
  BY DEF ListsPresent, ListsDisjoint
<1>3. KeepersListed(X)'
  BY <1>1 DEF KeepersListed
<1>4. DefinedListed'
  BY DEF DefinedListed
<1>5. LiveListed'
  BY DEF LiveListed, DefinedListed
<1>6. DoomedApart(X)'
  <2>1. CASE section # "untrack"
    BY <2>1 DEF DoomedApart
  <2>2. CASE section = "untrack"
    <3>1. PICK t \in Removable \cap defunct :
            /\ trackerSyms[t] = {}
            /\ \A w \in X : doomed \cap trackerSyms[w] = {}
            /\ \A u \in Unit : Keeping(u) /\ usyms[u] \cap doomed # {} => urt[u] = t
      BY <2>2 DEF DoomedApart
    <3>2. \A u \in Unit : Keeping(u)' /\ usyms'[u] \cap doomed' # {} => urt'[u] = t
      BY <1>1, <3>1
    <3> QED
      BY <2>2, <3>1, <3>2 DEF DoomedApart
  <2> QED
    BY <2>1, <2>2
<1> QED
  BY <1>2, <1>3, <1>4, <1>5, <1>6

\* What is listed leaves the table with its list only.
LEMMA ListedStays ==
  ASSUME NEW X, Core, OwnInv, TrackInv(X), [Next]_vars, NEW t \in X
  PROVE  trackerSyms[t] \subseteq Present'
<1> SUFFICES ASSUME NEW s \in trackerSyms[t] PROVE s \in Present'
  OBVIOUS
<1>1. s \in Sym /\ symState[s] # Absent
  BY DEF TrackInv, ListsPresent, Present
<1>2. s \notin doomed
  BY DEF TrackInv, DoomedApart
<1>3. symState[s] \in 1 .. 5
  BY <1>1 DEF Core, Base, TypeOK, TableType
<1>4. symState'[s] >= symState[s]
  BY <1>1, <1>2, StateStep
<1>5. symState'[s] # 0
  BY <1>3, <1>4
<1> QED
  BY <1>1, <1>5 DEF Present

LEMMA EraseTrack ==
  ASSUME NEW X, Core, OwnInv, TrackInv(X), EraseDoomed
  PROVE  TrackInv(X)'
<1>1. /\ UNCHANGED <<trackerSyms, urt, usyms, defunct>>
      /\ section' = "free" /\ doomed' = {}
      /\ \A u \in Unit : Live(u)' => Live(u)
      /\ \A u \in Unit : phase'[u] = "defined" => phase[u] = "defined"
  BY DEF EraseDoomed, Live, trackerVars, Core, Base, TypeOK, UnitType
<1>2. [Next]_vars
  BY DEF Next, LockedStep
<1>3. ListsPresent(X)' /\ ListsDisjoint(X)'
  BY <1>1, <1>2, ListedStays DEF TrackInv, ListsPresent, ListsDisjoint
<1>4. KeepersListed(X)'
  BY <1>1 DEF TrackInv, KeepersListed, Keeping
<1>5. DefinedListed'
  BY <1>1, SurvivorsApart DEF TrackInv, DefinedListed
<1>6. LiveListed' /\ DoomedApart(X)'
  BY <1>1 DEF TrackInv, LiveListed, DoomedApart
<1> QED
  BY <1>3, <1>4, <1>5, <1>6 DEF TrackInv

\* A unit takes over symbols that its own tracker lists.
LEMMA TakesOwn ==
  ASSUME NEW X, OverridesApart(X), Core, TrackInv(X), WeakInv, NEW u \in Unit, Define(u),
         UnitsFixed \/ (X = Listing /\ NoneLate'),
         NEW t \in X, NEW s \in Defined(u), s \in trackerSyms[t]
  PROVE  urt[u] = t
<1> DEFINE v == umi[s]
<1>0. TypeOK /\ s \in Sym /\ s \in usyms[u] /\ phase[u] = "new"
  BY DEF Core, Base, TypeOK, UnitType, Defined, Define
<1>1. s \in Existing(u) /\ s \notin UnitWeak[u]
  BY <1>0 DEF TrackInv, ListsPresent, Existing, Defined
<1>2. symState[s] = NeverSearched /\ s \in weak
  <2>1. s \in weak /\ ~ (symState[s] > NeverSearched)
    BY <1>1 DEF Define, Duplicates
  <2>2. symState[s] # Absent /\ symState[s] \in 0 .. 5
    BY <1>0, <1>1 DEF Existing, Present, TypeOK, TableType
  <2> QED
    BY <2>1, <2>2
<1>3. s \in attached
  BY <1>0, <1>2 DEF Core, Base, TableInv, NeverSearchedAttached
<1>4. v \in Unit /\ phase[v] = "defined" /\ s \in usyms[v]
  BY <1>0, <1>3 DEF Core, Base, TableInv, AttachedHasUnit, TypeOK, TableType
<1>5. urt[v] = t
  BY <1>4 DEF TrackInv, KeepersListed, Keeping
<1>6. /\ s \in UnitSyms[v] \cap UnitWeak[v]
      /\ urt[v] = UnitTracker[v] \/ UnitTracker[v] \in defunct
  BY <1>2, <1>3 DEF WeakInv, WeakOf
<1>7. s \in UnitSyms[u] \ UnitWeak[u] /\ urt[u] = UnitTracker[u]
  BY <1>0, <1>1 DEF WeakInv, NewFixed
<1> HIDE DEF v
<1> SUFFICES ASSUME urt[u] # t PROVE FALSE
  OBVIOUS
<1>8. CASE urt[v] = UnitTracker[v]
  BY <1>4, <1>5, <1>6, <1>7, <1>8 DEF OverridesApart
<1>9. CASE urt[v] # UnitTracker[v]
  <2>1. X = Listing /\ NoneLate' /\ UnitTracker[v] \in defunct
    BY <1>4, <1>6, <1>9 DEF UnitsFixed
  <2>2. phase'[u] = "defined" /\ urt' = urt /\ defunct' = defunct /\ Unlocked'
    BY DEF Define, Unlocked, lockVars
  <2>3. UnitTracker[v] # UnitTracker[u]
    BY <1>7, <2>1, <2>2 DEF NoneLate
  <2>4. UnitTracker[v] \in Listing
    BY <1>4, <2>1, WorkloadAssumption DEF WeakInv, Listing
  <2> QED
    BY <1>4, <1>6, <1>7, <2>1, <2>3, <2>4 DEF OverridesApart
<1> QED
  BY <1>8, <1>9

\* define lists the symbols before anybody can look them up.
LEMMA DefineTrack ==
  ASSUME NEW X \in SUBSET Tracker, OverridesApart(X), Core, OwnInv, TrackInv(X), WeakInv,
         NEW u \in Unit, Define(u), UnitsFixed \/ (X = Listing /\ NoneLate')
  PROVE  TrackInv(X)'
<1> DEFINE K == Defined(u)
<1>0. TypeOK
  BY DEF Core, Base
<1>1. /\ UNCHANGED <<urt, defunct, section, doomed>> /\ section = "free" /\ doomed = {}
      /\ trackerSyms' = Tracked(u, K)
      /\ \A s \in Sym : symState'[s] = IF s \in K THEN NeverSearched ELSE symState[s]
  BY DEF Define, Unlocked, lockVars, TrackInv, DoomedApart
<1>2. /\ usyms'[u] = K /\ K \subseteq usyms[u] /\ K \subseteq Sym
      /\ \A v \in Unit \ {u} : phase'[v] = "defined" =>
            phase[v] = "defined" /\ usyms'[v] = usyms[v] \ K
      /\ \A v \in Unit : Live(v)' => Live(v) /\ v # u /\ usyms'[v] = usyms[v]
  <2>1. usyms'[u] = K /\ K \subseteq usyms[u] /\ K \subseteq Sym /\ ~ Live(u)'
    BY <1>0 DEF Define, Defined, Live, TypeOK, UnitType
  <2>2. \A v \in Unit \ {u} :
          /\ phase'[v] = phase[v] \/ phase'[v] = "lost"
          /\ usyms'[v] = IF phase[v] = "defined" THEN usyms[v] \ K ELSE usyms[v]
    BY <2>1, DefineUnits DEF OwnInv
  <2> QED
    BY <2>1, <2>2 DEF Live
<1>3. \A s \in K : symState[s] \in {Absent, NeverSearched}
  BY <1>0 DEF Define, Duplicates, Defined, Existing, Present, TypeOK, TableType, UnitType
<1>4. \A t \in X, s \in K : s \in trackerSyms[t] => urt[u] = t
  BY TakesOwn
<1> HIDE DEF K
<1>5. /\ \A t \in Tracker : trackerSyms[t] \subseteq trackerSyms'[t]
      /\ urt[u] # DefaultTracker => K \subseteq trackerSyms'[urt[u]]
      /\ \A t \in Tracker : trackerSyms'[t] \subseteq trackerSyms[t] \cup (IF urt[u] = t THEN K ELSE {})
  BY <1>0, <1>1 DEF Tracked, TypeOK, TrackerType, UnitType
<1>6. \A t \in X, s \in K : s \in trackerSyms'[t] => urt[u] = t
  BY <1>4, <1>5
<1>7. \A t \in X : \A s \in trackerSyms'[t] : s \in K \/ s \in trackerSyms[t]
  BY <1>5
<1>8. ListsPresent(X)'
  <2> SUFFICES ASSUME NEW t \in X, NEW s \in trackerSyms'[t] PROVE s \in Present'
    BY DEF ListsPresent
  <2>1. s \in Sym /\ (s \in K \/ symState[s] # Absent)
    BY <1>2, <1>7 DEF TrackInv, ListsPresent, Present
  <2> QED
    BY <1>1, <2>1 DEF Present
<1>9. ListsDisjoint(X)'
  BY <1>6, <1>7 DEF TrackInv, ListsDisjoint
<1>10. KeepersListed(X)'
  <2> SUFFICES ASSUME NEW t \in X, NEW v \in Unit, Keeping(v)', NEW s \in usyms'[v],
                      s \in trackerSyms'[t]
               PROVE  urt[v] = t
    BY <1>1 DEF KeepersListed
  <2>1. CASE v = u
    BY <1>2, <1>6, <2>1
  <2>2. CASE v # u
    <3>1. CASE phase'[v] = "defined"
      <4>1. phase[v] = "defined" /\ s \in usyms[v] /\ s \notin K
        BY <1>2, <2>2, <3>1
      <4> QED
        BY <1>7, <4>1 DEF TrackInv, KeepersListed, Keeping
    <3>2. CASE Live(v)' /\ urt[v] \notin defunct
      <4>1. Holding(v, s) /\ s \in Sym
        BY <1>0, <1>2, <3>2 DEF Holding, TypeOK, UnitType
      <4>2. symState[s] \in {Materializing, Resolved}
        BY <4>1 DEF OwnInv, HeldMoving
      <4>3. s \notin K
        BY <1>3, <4>2
      <4> QED
        BY <1>7, <4>1, <4>3 DEF TrackInv, KeepersListed, Keeping, Holding
    <3> QED
      BY <1>1, <3>1, <3>2 DEF Keeping
  <2> QED
    BY <2>1, <2>2
<1>11. DefinedListed'
  <2> SUFFICES ASSUME NEW v \in Unit, phase'[v] = "defined", urt[v] # DefaultTracker
               PROVE  usyms'[v] \subseteq trackerSyms'[urt[v]]
    BY <1>1 DEF DefinedListed
  <2>1. urt[v] \in Tracker
    BY <1>0 DEF TypeOK, UnitType
  <2>2. CASE v = u
    BY <1>2, <1>5, <2>2
  <2>3. CASE v # u
    BY <1>1, <1>2, <1>5, <2>1, <2>3 DEF TrackInv, DefinedListed
  <2> QED
    BY <2>2, <2>3
<1>12. LiveListed'
  <2> SUFFICES ASSUME NEW v \in Unit, Live(v)', urt[v] # DefaultTracker, urt[v] \notin defunct
               PROVE  usyms'[v] \subseteq trackerSyms'[urt[v]]
    BY <1>1 DEF LiveListed
  <2>1. urt[v] \in Tracker
    BY <1>0 DEF TypeOK, UnitType
  <2> QED
    BY <1>2, <1>5, <2>1 DEF TrackInv, LiveListed
<1>13. DoomedApart(X)'
  BY <1>1 DEF DoomedApart
<1> QED
  BY <1>8, <1>9, <1>10, <1>11, <1>12, <1>13 DEF TrackInv

LEMMA RemoveTrack ==
  ASSUME NEW X \in SUBSET Tracker, Removable \subseteq X, Core, TrackInv(X),
         NEW t \in Tracker, RemoveTracker(t)
  PROVE  TrackInv(X)'
<1>0. TypeOK
  BY DEF Core, Base
<1>1. /\ UNCHANGED <<symState, phase, usyms, urt>> /\ doomed = {}
      /\ t \in Removable /\ t \in X /\ t \notin defunct /\ defunct' = defunct \cup {t}
      /\ section' = "untrack" /\ doomed' = trackerSyms[t]
      /\ \A x \in Tracker : trackerSyms'[x] = IF x = t THEN {} ELSE trackerSyms[x]
  BY <1>0
  DEF RemoveTracker, Unlocked, tableVars, unitVars, TrackInv, DoomedApart, TypeOK, TrackerType
<1>2. \A u \in Unit : Keeping(u)' => Keeping(u)
  BY <1>1 DEF Keeping, Live
<1>3. ListsPresent(X)' /\ ListsDisjoint(X)'
  BY <1>1 DEF TrackInv, ListsPresent, ListsDisjoint, Present
<1>4. KeepersListed(X)'
  BY <1>1, <1>2 DEF TrackInv, KeepersListed
<1>5. \A u \in Unit : urt[u] \in Tracker
  BY <1>0 DEF TypeOK, UnitType
<1>6. DefinedListed'
  BY <1>1, <1>5 DEF TrackInv, DefinedListed
<1>7. LiveListed'
  BY <1>1, <1>5 DEF TrackInv, LiveListed, Live
<1>8. DoomedApart(X)'
  <2>1. \A w \in X : doomed' \cap trackerSyms'[w] = {}
    BY <1>1 DEF TrackInv, ListsDisjoint
  <2>2. \A u \in Unit : Keeping(u)' /\ usyms'[u] \cap doomed' # {} => urt'[u] = t
    BY <1>1, <1>2 DEF TrackInv, KeepersListed
  <2> QED
    BY <1>1, <2>1, <2>2 DEF DoomedApart
<1> QED
  BY <1>3, <1>4, <1>6, <1>7, <1>8 DEF TrackInv

\* The steps of the session keep the lists.
LEMMA TrackStep ==
  ASSUME NEW X \in SUBSET Tracker, Removable \subseteq X, OverridesApart(X), Core, OwnInv,
         TrackInv(X), WeakInv, [Next]_vars, UnitsFixed \/ (X = Listing /\ NoneLate')
  PROVE  TrackInv(X)' /\ OwnInv'
<1>1. OwnInv'
  BY OwnStep, EraseOwn
<1>2. ASSUME UNCHANGED <<trackerSyms, defunct, doomed>>, section' = "untrack" <=> section = "untrack",
             ~ \E u \in Unit : Define(u)
      PROVE  TrackInv(X)'
  <2>1. \A t \in X : trackerSyms[t] \subseteq Present'
    BY ListedStays
  <2>2. Unlocked => doomed = {}
    BY DEF Unlocked, TrackInv, DoomedApart
  <2> QED
    BY <1>2, <2>1, <2>2, UnitSteps, TrackKept
<1>3. TrackInv(X)'
  BY <1>2, ListSteps, EraseTrack, DefineTrack, RemoveTrack
<1> QED
  BY <1>1, <1>3

LEMMA TrackInit ==
  ASSUME Init, NEW X \in SUBSET Tracker
  PROVE  TrackInv(X)
<1>1. LiveListed /\ DoomedApart(X)
  BY DEF Init, LiveListed, Live, DoomedApart
<1>2. \A t \in Tracker : \A s \in trackerSyms[t] : \E v \in Loaded : UnitTracker[v] = t /\ s \in UnitSyms[v]
  BY DEF Init
<1>3. \A u \in Unit : /\ usyms[u] = UnitSyms[u] /\ urt[u] = UnitTracker[u]
                      /\ Keeping(u) => u \in Loaded
  BY DEF Init, Keeping, Live
<1>4. ListsPresent(X)
  <2> SUFFICES ASSUME NEW t \in X, NEW s \in trackerSyms[t] PROVE s \in Present
    BY DEF ListsPresent
  <2>1. PICK v \in Loaded : s \in UnitSyms[v]
    BY <1>2
  <2>2. s \in Sym /\ v \in Unit
    BY <2>1, WorkloadAssumption
  <2>3. LoaderOf(s) \in Loaded
    BY <2>1 DEF LoaderOf
  <2>4. LoaderOf(s) # None
    BY <2>3, WorkloadAssumption, NoneAssumption
  <2> QED
    BY <2>2, <2>4 DEF Init, Present
<1>5. ListsDisjoint(X)
  BY <1>2, LoadedAssumption DEF ListsDisjoint
<1>6. KeepersListed(X)
  BY <1>2, <1>3, LoadedAssumption DEF KeepersListed
<1>7. DefinedListed
  <2> SUFFICES ASSUME NEW u \in Unit, phase[u] = "defined", urt[u] # DefaultTracker
               PROVE  usyms[u] \subseteq trackerSyms[urt[u]]
    BY DEF DefinedListed
  <2>1. u \in Loaded /\ usyms[u] = UnitSyms[u] /\ urt[u] = UnitTracker[u] /\ urt[u] \in Tracker
    BY WorkloadAssumption DEF Init
  <2>2. trackerSyms[urt[u]] =
          UNION {UnitSyms[w] : w \in {v \in Loaded : UnitTracker[v] = UnitTracker[u]}}
    BY <2>1 DEF Init
  <2> QED
    BY <2>1, <2>2
<1> QED
  BY <1>1, <1>4, <1>5, <1>6, <1>7 DEF TrackInv

LEMMA NewStays ==
  ASSUME Core, [Next]_vars, NEW u \in Unit, phase'[u] = "new"
  PROVE  phase[u] = "new" /\ usyms'[u] = usyms[u]
<1>0. TypeOK
  BY DEF Core, Base
<1>1. CASE LockedStep
  <2>1. CASE EraseDoomed
    BY <1>0, <2>1 DEF EraseDoomed, TypeOK, UnitType
  <2>2. CASE UNCHANGED unitVars
    BY <2>2 DEF unitVars
  <2> QED
    BY <1>1, <2>1, <2>2
    DEF LockedStep, AddDependencies, SkipDependencies, DependenciesAssertFails, EmitSymbol,
        EmitTrivially, FailSymbol, FailTrivially
<1>2. ASSUME NEW v \in Unit, Materialize(v) PROVE phase[u] = "new" /\ usyms'[u] = usyms[u]
  <2>1. /\ phase[v] = "running"
        /\ phase'[v] # "new"
        /\ \A w \in Unit \ {v} : phase'[w] = phase[w] /\ usyms'[w] = usyms[w]
    BY <1>0, <1>2
    DEF Materialize, NotifyResolved, NotifyRefused, OL_AddDependencies, NotifyEmitted,
        NotifyAssertFails, FailMaterialization, DestroyResponsibility, Active, unitVars, TypeOK,
        UnitType
  <2> QED
    BY <2>1
<1>3. ASSUME NEW q \in Query, LookUp(q) PROVE phase[u] = "new" /\ usyms'[u] = usyms[u]
  BY <1>3, LookUpUnits
<1>4. ASSUME NEW v \in Unit, Define(v) PROVE phase[u] = "new" /\ usyms'[u] = usyms[u]
  <2>1. /\ u # v /\ phase[u] = "new" /\ Defined(v) \subseteq Sym
        /\ usyms'[u] = usyms[u] \ Discarded(u, Defined(v))
    BY <1>0, <1>4 DEF Define, Defined, TypeOK, UnitType
  <2>2. Discarded(u, Defined(v)) = {}
    BY <2>1 DEF Discarded, Core, Base, TableInv, AttachedHasUnit
  <2> QED
    BY <2>1, <2>2
<1>5. ASSUME NEW v \in Unit, DispatchUnit(v) PROVE phase[u] = "new" /\ usyms'[u] = usyms[u]
  BY <1>0, <1>5 DEF DispatchUnit, TypeOK, UnitType
<1>6. CASE UNCHANGED unitVars
  BY <1>6 DEF unitVars
<1> QED
  BY <1>1, <1>2, <1>3, <1>4, <1>5, <1>6
  DEF Next, AtRest, vars, NotifyComplete, RemoveTracker, RemoveAssertFails

\* Only define attaches symbols, marks them weak or makes them searched for anew.
LEMMA WeakTable ==
  ASSUME Core, [Next]_vars, ~ \E u \in Unit : Define(u), NEW s \in attached' \cap weak',
         symState'[s] = NeverSearched
  PROVE  s \in attached \cap weak /\ symState[s] = NeverSearched /\ umi'[s] = umi[s]
<1>0. TypeOK
  BY DEF Core, Base
<1>1. ASSUME NEW x \in Sym, EmitSymbol(x) \/ EmitTrivially(x)
      PROVE  s \in attached \cap weak /\ symState[s] = NeverSearched /\ umi'[s] = umi[s]
  BY <1>0, <1>1 DEF EmitSymbol, EmitTrivially, TypeOK, TableType
<1>2. CASE EraseDoomed
  BY <1>0, <1>2 DEF EraseDoomed, TypeOK, TableType
<1>3. ASSUME NEW u \in Unit, NEW R \in SUBSET Sym, NotifyResolved(u, R)
      PROVE  s \in attached \cap weak /\ symState[s] = NeverSearched /\ umi'[s] = umi[s]
  BY <1>0, <1>3 DEF NotifyResolved, TypeOK, TableType
<1>4. ASSUME NEW C, symState' = Started(C), UNCHANGED weak, attached' \subseteq Sym,
             \A x \in Sym : x \notin Covered(C) =>
               umi'[x] = umi[x] /\ (x \in attached' => x \in attached)
      PROVE  s \in attached \cap weak /\ symState[s] = NeverSearched /\ umi'[s] = umi[s]
  BY <1>0, <1>4 DEF Started, TypeOK, TableType
<1>5. CASE UNCHANGED <<symState, weak, attached, umi>>
  BY <1>5
<1>6. ASSUME NEW q \in Query, LookUp(q)
      PROVE  s \in attached \cap weak /\ symState[s] = NeverSearched /\ umi'[s] = umi[s]
  <2>1. CASE LodgeNotFound(q) \/ LodgeQuery(q)
    <3>1. PICK W, C, p : Lodge(q, W, C, p) /\ UNCHANGED weak
      BY <2>1 DEF LodgeNotFound, LodgeQuery
    <3>2. attached' \subseteq Sym
      BY <1>0, <3>1 DEF Lodge, TypeOK, TableType
    <3> QED
      BY <1>4, <3>1, <3>2 DEF Lodge
  <2>2. ASSUME NEW S \in SUBSET Sym, LodgeFails(q, S)
        PROVE  s \in attached \cap weak /\ symState[s] = NeverSearched /\ umi'[s] = umi[s]
    <3>1. PICK W \in SUBSET Sym, C \in SUBSET Unit :
            /\ symState' = Started(C)
            /\ attached' = (attached \ Covered(C)) \cup PutBack(W, C)
            /\ umi' = [x \in Sym |->
                 IF x \in PutBack(W, C) THEN CHOOSE u \in C : x \in usyms[u]
                 ELSE IF x \in Covered(C) THEN None ELSE umi[x]]
      BY <2>2, PutBackParts
    <3>2. PutBack(W, C) \subseteq Sym \cap Covered(C)
      BY DEF PutBack, Covered
    <3>3. UNCHANGED weak /\ attached' \subseteq Sym
      BY <1>0, <2>2, <3>1, <3>2 DEF LodgeFails, TypeOK, TableType
    <3> QED
      BY <1>4, <3>1, <3>2, <3>3
  <2> QED
    BY <1>5, <1>6, <2>1, <2>2
    DEF LookUp, LookupMatched, LookupFails, MatchAssertFails, UnwindLookup, tableVars
<1> QED
  BY <1>1, <1>2, <1>3, <1>5, <1>6
  DEF Next, LockedStep, Materialize, AtRest, vars, AddDependencies, SkipDependencies,
      DependenciesAssertFails, FailSymbol, FailTrivially, NotifyRefused, OL_AddDependencies,
      NotifyEmitted, NotifyAssertFails, FailMaterialization, DestroyResponsibility,
      DispatchUnit, NotifyComplete, RemoveTracker, RemoveAssertFails, tableVars

LEMMA WeakStep ==
  ASSUME Core, WeakInv, [Next]_vars
  PROVE  WeakInv'
<1>0. TypeOK /\ attached \subseteq Sym
  BY DEF Core, Base, TypeOK, TableType
<1>1. urt' = urt
  BY UnitSteps
<1>2. NewFixed'
  BY <1>1, NewStays DEF WeakInv, NewFixed
<1>3. defunct \subseteq defunct' /\ DefaultTracker \notin defunct'
  BY ListSteps, WorkloadAssumption DEF WeakInv, EraseDoomed, Define, RemoveTracker, trackerVars
<1>4. WeakOf'
  <2> SUFFICES ASSUME NEW s \in attached' \cap weak', symState'[s] = NeverSearched
               PROVE  /\ s \in UnitSyms[umi'[s]] \cap UnitWeak[umi'[s]]
                      /\ urt'[umi'[s]] = UnitTracker[umi'[s]] \/ UnitTracker[umi'[s]] \in defunct'
    BY DEF WeakOf
  <2>1. CASE ~ \E u \in Unit : Define(u)
    <3>1. s \in attached \cap weak /\ symState[s] = NeverSearched /\ umi'[s] = umi[s]
      BY <2>1, WeakTable
    <3>2. /\ s \in UnitSyms[umi[s]] \cap UnitWeak[umi[s]]
          /\ urt[umi[s]] = UnitTracker[umi[s]] \/ UnitTracker[umi[s]] \in defunct
      BY <3>1 DEF WeakInv, WeakOf
    <3> QED
      BY <1>1, <1>3, <3>1, <3>2
  <2>2. ASSUME NEW u \in Unit, Define(u)
        PROVE  /\ s \in UnitSyms[umi'[s]] \cap UnitWeak[umi'[s]]
               /\ urt'[umi'[s]] = UnitTracker[umi'[s]] \/ UnitTracker[umi'[s]] \in defunct'
    <3> DEFINE K == Defined(u)
    <3>1. /\ attached' = attached \cup K /\ weak' = (weak \ K) \cup (K \cap UnitWeak[u])
          /\ phase[u] = "new" /\ K \subseteq usyms[u] /\ K \subseteq Sym
          /\ \A x \in Sym : umi'[x] = IF x \in K THEN u ELSE umi[x]
          /\ \A x \in Sym : x \notin K => symState'[x] = symState[x]
      BY <1>0, <2>2 DEF Define, Defined, TypeOK, UnitType
    <3>2. usyms[u] = UnitSyms[u] /\ urt[u] = UnitTracker[u]
      BY <3>1 DEF WeakInv, NewFixed
    <3> HIDE DEF K
    <3>3. CASE s \in K
      BY <1>1, <3>1, <3>2, <3>3
    <3>4. CASE s \notin K
      <4>1. s \in Sym /\ s \in attached \cap weak /\ symState[s] = NeverSearched /\ umi'[s] = umi[s]
        BY <1>0, <3>1, <3>4
      <4>2. /\ s \in UnitSyms[umi[s]] \cap UnitWeak[umi[s]]
            /\ urt[umi[s]] = UnitTracker[umi[s]] \/ UnitTracker[umi[s]] \in defunct
        BY <4>1 DEF WeakInv, WeakOf
      <4> QED
        BY <1>1, <1>3, <4>1, <4>2
    <3> QED
      BY <3>3, <3>4
  <2> QED
    BY <2>1, <2>2
<1> QED
  BY <1>2, <1>3, <1>4 DEF WeakInv

LEMMA WeakInit ==
  ASSUME Init
  PROVE  WeakInv
<1>1. NewFixed /\ DefaultTracker \notin defunct
  BY DEF Init, NewFixed
<1>2. WeakOf
  <2> SUFFICES ASSUME NEW s \in attached, s \in weak
               PROVE  s \in UnitSyms[umi[s]] \cap UnitWeak[umi[s]] /\ urt = UnitTracker
    BY DEF WeakOf
  <2>1. PICK u \in Loaded : s \in UnitSyms[u] /\ s \in UnitWeak[u]
    BY DEF Init
  <2>2. s \in Sym
    BY <2>1, WorkloadAssumption
  <2>3. LoaderOf(s) \in Loaded /\ s \in UnitSyms[LoaderOf(s)]
    BY <2>1 DEF LoaderOf
  <2>4. LoaderOf(s) = u
    BY <2>1, <2>3, LoadedAssumption
  <2> QED
    BY <2>1, <2>2, <2>4 DEF Init
<1> QED
  BY <1>1, <1>2 DEF WeakInv

LEMMA WeakCorrect == Spec => []WeakInv
  BY WeakInit, WeakStep, CoreCorrect, PTL DEF Spec

\* The ownership of symbols and what is listed, in every state.
LEMMA OwnCorrect ==
  ASSUME OverridesApart(Removable)
  PROVE  Spec => [](OwnInv /\ TrackInv(Removable))
<1>0. Removable \subseteq Tracker
  BY WorkloadAssumption
<1>1. Init => OwnInv /\ TrackInv(Removable)
  BY <1>0, OwnInit, TrackInit
<1>2. Core /\ ListInv /\ WeakInv /\ OwnInv /\ TrackInv(Removable) /\ [Next]_vars
      => OwnInv' /\ TrackInv(Removable)'
  BY <1>0, TrackStep DEF ListInv
<1> QED
  BY <1>1, <1>2, CoreCorrect, ListCorrect, WeakCorrect, PTL DEF Spec

\* A symbol has at most one responsibility under a live tracker, and none while
\* its unit waits: no symbol is materialized twice, whatever is overridden, looked
\* up or removed meanwhile.
THEOREM OwnersCorrect ==
  ASSUME OverridesApart(Removable)
  PROVE  Spec => []OneOwner
<1>1. Core /\ OwnInv => OneOwner
  BY DEF OwnInv, HeldMoving, HeldByOne, Holding, Live, OneOwner
<1> QED
  BY <1>1, CoreCorrect, OwnCorrect, PTL

\* A symbol goes through the states in order, and leaves them only when it is erased.
THEOREM AdvanceCorrect ==
  ASSUME OverridesApart(Removable)
  PROVE  Spec => StatesAdvance
<1>1. Core /\ OwnInv /\ [Next]_vars =>
        [\A s \in Sym :
           \/ symState'[s] >= symState[s]
           \/ symState'[s] = Absent /\ s \in doomed]_vars
  BY StateStep
<1> QED
  BY <1>1, CoreCorrect, OwnCorrect, PTL DEF Spec, StatesAdvance

\* The assertions of resolve and emit about the entries of the symbols, and that of
\* the matching loop about the symbols of the units it starts, hold.
THEOREM AssertionsHold ==
  ASSUME OverridesApart(Removable)
  PROVE  Spec => [][/\ \A u \in Unit : ~ NotifyAssertFails(u)
                    /\ \A q \in Query : ~ MatchAssertFails(q)]_vars
<1>1. Core /\ OwnInv /\ [Next]_vars =>
        [/\ \A u \in Unit : ~ NotifyAssertFails(u)
         /\ \A q \in Query : ~ MatchAssertFails(q)]_vars
  <2> SUFFICES ASSUME Core, OwnInv
               PROVE  /\ \A u \in Unit : ~ NotifyAssertFails(u)
                      /\ \A q \in Query : ~ MatchAssertFails(q)
    OBVIOUS
  <2>0. TypeOK
    BY DEF Core, Base
  <2>1. \A u \in Unit : ~ NotifyAssertFails(u)
    BY <2>0 DEF NotifyAssertFails, Active, OwnInv, HeldMoving, HeldByOne, Holding, Live, TypeOK,
       UnitType
  <2>2. ASSUME NEW S \in SUBSET Sym, NEW C \in SUBSET Collected(S)
        PROVE  Covered(C) \subseteq Present /\ ~ Overlap(C)
    <3>1. \A u \in C : u \in Unit /\ phase[u] = "defined"
      BY CollectedDefined
    <3>2. ASSUME NEW u \in C, NEW s \in usyms[u] PROVE s \in Present
      <4>1. s \in Sym /\ s \in attached
        BY <2>0, <3>1 DEF OwnInv, DefinedAttached, TypeOK, UnitType
      <4> QED
        BY <4>1 DEF Present, Core, Base, TableInv, AttachedHasUnit
    <3>3. ~ Overlap(C)
      BY <3>1 DEF Overlap, OwnInv, DefinedAttached
    <3> QED
      BY <3>2, <3>3 DEF Covered
  <2>3. ASSUME NEW q \in Query, MatchAssertFails(q) PROVE FALSE
    <3>1. Found(q) \ hasError \in SUBSET Sym
      BY WorkloadAssumption DEF Found
    <3>2. PICK S \in SUBSET (Found(q) \ hasError) :
            \E C \in SUBSET Collected(S) : ~ (Covered(C) \subseteq Present) \/ Overlap(C)
      BY <2>3 DEF MatchAssertFails
    <3> QED
      BY <2>2, <3>1, <3>2
  <2> QED
    BY <2>1, <2>3
<1> QED
  BY <1>1, CoreCorrect, OwnCorrect, PTL DEF Spec

-----------------------------------------------------------------------------
LEMMA ListedTracked ==
  ASSUME Core, TrackInv(Listing)
  PROVE  TrackedByUnit
<1> SUFFICES ASSUME Unlocked, NEW s \in attached, NEW t \in Tracker \ {DefaultTracker}
             PROVE  s \in trackerSyms[t] <=> urt[umi[s]] = t
  BY DEF TrackedByUnit
<1>1. s \in Sym /\ umi[s] \in Unit /\ phase[umi[s]] = "defined" /\ s \in usyms[umi[s]]
  BY DEF Core, Base, TypeOK, TableType, TableInv, AttachedHasUnit
<1>2. doomed = {} /\ t \in Listing
  BY DEF Unlocked, TrackInv, DoomedApart, Listing
<1>3. ASSUME s \in trackerSyms[t] PROVE urt[umi[s]] = t
  BY <1>1, <1>2, <1>3 DEF TrackInv, KeepersListed, Keeping
<1>4. ASSUME urt[umi[s]] = t PROVE s \in trackerSyms[t]
  BY <1>1, <1>2, <1>4 DEF TrackInv, DefinedListed
<1> QED
  BY <1>3, <1>4

\* A symbol that waits for its first lookup is listed by the tracker of its unit and
\* by no other: removing a tracker removes what was added under it, and only that.
THEOREM TrackedCorrect ==
  ASSUME OverridesApart(Listing)
  PROVE  Spec => []TrackedByUnit
<1>0. Removable \subseteq Listing /\ Listing \subseteq Tracker
  BY WorkloadAssumption DEF Listing
<1>1. OverridesApart(Removable)
  BY <1>0 DEF OverridesApart
<1>2. Init => TrackInv(Listing)
  BY <1>0, TrackInit
<1>3. Core /\ ListInv /\ WeakInv /\ OwnInv /\ TrackInv(Listing) /\ [Next]_vars => TrackInv(Listing)'
  BY <1>0, TrackStep DEF ListInv
<1>4. Core /\ TrackInv(Listing) => TrackedByUnit
  BY ListedTracked
<1> QED
  BY <1>1, <1>2, <1>3, <1>4, CoreCorrect, ListCorrect, WeakCorrect, OwnCorrect, PTL DEF Spec

-----------------------------------------------------------------------------
(***************************************************************************)
(* No query waits for what has already happened.                           *)
(***************************************************************************)

\* Lookups ask for resolved or for ready symbols: emit does not tell a query that
\* asks for emitted ones before they are ready (TakeQueriesMeeting in EmitSymbol).
QueriesSkipEmitted == \A q \in Query : QueryState[q] # Emitted

\* The property holds inside the loops too.
LateInv ==
  \A s \in Sym : \A q \in pending[s] : symState[s] < QueryState[q] /\ s \notin attached

\* Where no query is added and only unregistered symbols get further or become lazy.
LEMMA LateKept ==
  ASSUME Core, LateInv,
         \A s \in Sym : pending'[s] \subseteq pending[s],
         \A s \in Sym : pending'[s] # {} =>
           /\ symState'[s] \in {symState[s], Materializing}
           /\ s \in attached' => s \in attached
  PROVE  LateInv'
<1> SUFFICES ASSUME NEW s \in Sym, NEW q \in pending'[s]
             PROVE  symState'[s] < QueryState[q] /\ s \notin attached'
  BY DEF LateInv
<1>1. q \in pending[s] /\ q \in Query /\ QueryState[q] \in {Resolved, Emitted, Ready}
  BY WorkloadAssumption DEF Core, Base, TypeOK, QueryType
<1>2. symState[s] < QueryState[q] /\ s \notin attached
  BY <1>1 DEF LateInv
<1> QED
  BY <1>1, <1>2

\* Whoever advances a symbol takes the queries that are content with it.
LEMMA TakeLate ==
  ASSUME Core, LateInv, QueriesSkipEmitted, UNCHANGED attached,
         NEW Z \in SUBSET Sym, NEW st \in {Resolved, Ready},
         NotifyMet(TakeQueriesMeeting(Z, st)),
         \A s \in Z : symState'[s] = st,
         \A s \in Sym \ Z : pending[s] # {} =>
           symState'[s] = symState[s] \/ (symState[s] = Resolved /\ symState'[s] = Emitted)
  PROVE  LateInv'
<1> SUFFICES ASSUME NEW s \in Sym, NEW q \in pending'[s]
             PROVE  symState'[s] < QueryState[q] /\ s \notin attached'
  BY DEF LateInv
<1>1. /\ q \in pending[s] /\ q \in Query /\ QueryState[q] \in {Resolved, Ready}
      /\ s \in Z => ~ (QueryState[q] <= st)
  BY WorkloadAssumption
  DEF NotifyMet, TakeQueriesMeeting, QueriesSkipEmitted, Core, Base, TypeOK, QueryType
<1>2. symState[s] < QueryState[q] /\ s \notin attached
  BY <1>1 DEF LateInv
<1>3. CASE s \in Z
  BY <1>1, <1>2, <1>3
<1>4. CASE s \notin Z
  BY <1>1, <1>2, <1>4
<1> QED
  BY <1>3, <1>4

LEMMA LockedStepLate ==
  ASSUME Core, LateInv, QueriesSkipEmitted, LockedStep
  PROVE  LateInv'
<1> USE DEF Core, Base, TypeOK, TableType, QueryType
<1>1. ASSUME NEW s \in Sym, EmitSymbol(s) PROVE LateInv'
  <2>1. symState[s] = Resolved /\ UNCHANGED attached /\ ReadyAfter(s) \in SUBSET Sym
    BY <1>1 DEF EmitSymbol, TableInv, EmitsResolved, ReadyAfter, GraphType
  <2>2. /\ NotifyMet(TakeQueriesMeeting(ReadyAfter(s), Ready))
        /\ \A x \in Sym : symState'[x] = IF x \in ReadyAfter(s) THEN Ready
                                         ELSE IF x = s THEN Emitted ELSE symState[x]
    BY <1>1 DEF EmitSymbol
  <2>3. \A x \in ReadyAfter(s) : symState'[x] = Ready
    BY <2>1, <2>2
  <2>4. \A x \in Sym \ ReadyAfter(s) : pending[x] # {} =>
          symState'[x] = symState[x] \/ (symState[x] = Resolved /\ symState'[x] = Emitted)
    BY <2>1, <2>2
  <2> HIDE DEF Core, Base, TypeOK, TableType, QueryType
  <2> QED
    BY <2>1, <2>2, <2>3, <2>4, TakeLate
<1>2. ASSUME NEW s \in Sym, EmitTrivially(s) PROVE LateInv'
  BY <1>2, LateKept, PendingHasInfo DEF EmitTrivially, queryVars
<1>3. ASSUME NEW s \in Sym, FailSymbol(s) PROVE LateInv'
  BY <1>3, LateKept DEF FailSymbol, Detach, PendingWithout
<1>4. CASE EraseDoomed
  <2>1. doomed \cap mi = {}
    BY <1>4 DEF EraseDoomed, ShapeInv, ErasesOutsideGraph
  <2>2. \A s \in Sym : pending'[s] # {} => pending'[s] = pending[s] /\ s \notin doomed
    BY <1>4, <2>1, PendingHasInfo DEF EraseDoomed, queryVars
  <2> QED
    BY <1>4, <2>2, LateKept DEF EraseDoomed, queryVars
<1>5. CASE UNCHANGED <<symState, attached, pending>>
  BY <1>5, LateKept
<1> HIDE DEF Core, Base, TypeOK, TableType, QueryType
<1> QED
  BY <1>1, <1>2, <1>3, <1>4, <1>5
  DEF LockedStep, AddDependencies, SkipDependencies, DependenciesAssertFails, FailTrivially,
      tableVars, queryVars

\* The matching loop registers a query where it has to wait.
LEMMA LookUpLate ==
  ASSUME Core, OwnInv, LateInv, NEW q \in Query, LookUp(q)
  PROVE  LateInv'
<1> USE DEF Core, Base, TypeOK, TableType, QueryType
<1>1. ASSUME NEW S \in SUBSET Sym, LodgeFails(q, S) PROVE LateInv'
  <2>0. PICK W : W = Waiting(q, S)
    OBVIOUS
  <2>1. /\ UNCHANGED attached /\ \A s \in Sym : pending'[s] \subseteq pending[s]
        /\ \A s \in Sym : symState'[s] \in {symState[s], Materializing}
    BY <1>1, <2>0, PutBackApart DEF OwnInv, LodgeFails, Detach, PendingWithout, Started
  <2> QED
    BY <2>1, LateKept
<1>2. ASSUME LodgeNotFound(q) \/ LodgeQuery(q) PROVE LateInv'
  <2>1. PICK W : W = Waiting(q, Found(q))
    OBVIOUS
  <2>2. /\ W \in SUBSET Sym /\ W \cap attached' = {} /\ attached' \subseteq attached
        /\ symState' = Started(Collected(W))
        /\ pending' = [s \in Sym |-> IF s \in W THEN pending[s] \cup {q} ELSE pending[s]]
    BY <1>2, <2>1, NotFoundApart, QueryApart DEF OwnInv, LodgeApart, Lodge
  <2>3. \A s \in W : symState[s] < QueryState[q]
    BY <2>1 DEF Waiting
  <2> SUFFICES ASSUME NEW s \in Sym, NEW p \in pending'[s]
               PROVE  symState'[s] < QueryState[p] /\ s \notin attached'
    BY DEF LateInv
  <2>5. p \in Query /\ QueryState[p] \in {Resolved, Emitted, Ready}
    BY <2>2, WorkloadAssumption
  <2>6. symState'[s] \in {symState[s], Materializing} /\ (s \in attached' => s \in attached)
    BY <2>2 DEF Started
  <2>7. CASE p \in pending[s]
    BY <2>5, <2>6, <2>7 DEF LateInv
  <2>8. CASE p \notin pending[s]
    <3>1. p = q /\ s \in W
      BY <2>2, <2>8
    <3> QED
      BY <2>2, <2>3, <2>5, <2>6, <3>1
  <2> QED
    BY <2>7, <2>8
<1>3. ASSUME LookupMatched(q) \/ LookupFails(q) \/ MatchAssertFails(q) \/ UnwindLookup(q)
      PROVE  LateInv'
  <2>1. UNCHANGED <<symState, attached>> /\ \A s \in Sym : pending'[s] \subseteq pending[s]
    BY <1>3 DEF LookupMatched, LookupFails, MatchAssertFails, UnwindLookup, Detach,
       PendingWithout, tableVars, queryVars
  <2> QED
    BY <2>1, LateKept
<1> QED
  BY <1>1, <1>2, <1>3 DEF LookUp

LEMMA LateStep ==
  ASSUME QueriesSkipEmitted, Core, OwnInv, LateInv, [Next]_vars
  PROVE  LateInv'
<1> USE DEF Core, Base, TypeOK, TableType, QueryType
<1>1. CASE UNCHANGED <<symState, attached, pending>>
  BY <1>1, LateKept
<1>2. ASSUME NEW u \in Unit, NEW R \in SUBSET Sym, NotifyResolved(u, R) PROVE LateInv'
  <2>1. /\ NotifyMet(TakeQueriesMeeting(R \cap mi, Resolved)) /\ UNCHANGED attached
        /\ \A s \in Sym : symState'[s] = IF s \in R THEN Resolved ELSE symState[s]
    BY <1>2 DEF NotifyResolved
  <2>2. \A s \in Sym \ (R \cap mi) : pending[s] # {} => symState'[s] = symState[s]
    BY <2>1, PendingHasInfo
  <2>3. \A s \in R \cap mi : symState'[s] = Resolved
    BY <2>1
  <2>4. R \cap mi \in SUBSET Sym
    OBVIOUS
  <2> HIDE DEF Core, Base, TypeOK, TableType, QueryType
  <2> QED
    BY <2>1, <2>2, <2>3, <2>4, TakeLate
<1>3. ASSUME NEW u \in Unit, Define(u) PROVE LateInv'
  <2>1. \A s \in Defined(u) : s \in Sym => symState[s] \in {Absent, NeverSearched}
    BY <1>3 DEF Define, Duplicates, Defined, Existing, Present
  <2>2. \A s \in Defined(u) : s \in Sym => pending[s] = {}
    <3> SUFFICES ASSUME NEW s \in Defined(u), s \in Sym, pending[s] # {} PROVE FALSE
      OBVIOUS
    <3>1. symState[s] = NeverSearched
      BY <2>1, PendingHasInfo, InfoPresent
    <3>2. s \in attached
      BY <3>1 DEF TableInv, NeverSearchedAttached
    <3> QED
      BY <3>2 DEF LateInv
  <2>3. /\ UNCHANGED pending
        /\ \A s \in Sym \ Defined(u) : symState'[s] = symState[s] /\ (s \in attached' => s \in attached)
    BY <1>3 DEF Define, queryVars
  <2> QED
    BY <2>2, <2>3, LateKept
<1> HIDE DEF Core, Base, TypeOK, TableType, QueryType
<1> QED
  BY <1>1, <1>2, <1>3, LockedStepLate, LookUpLate
  DEF Next, Materialize, AtRest, vars, NotifyRefused, OL_AddDependencies, NotifyEmitted,
      NotifyAssertFails, FailMaterialization, DestroyResponsibility, DispatchUnit,
      NotifyComplete, RemoveTracker, RemoveAssertFails, tableVars, queryVars

\* A query does not wait for a symbol that is in the state it asked for, nor for
\* one that nobody is about to materialize, whatever is looked up, redefined or
\* removed, unless a removal leaves a unit that lists another's symbol: a failing
\* lookup puts such a unit back for that symbol too (Core.cpp:2831-2844).
THEOREM LateCorrect ==
  ASSUME QueriesSkipEmitted, OverridesApart(Removable)
  PROVE  Spec => []NoLateQuery
<1>1. Init => LateInv
  BY DEF Init, LateInv
<1>2. LateInv => NoLateQuery
  BY DEF LateInv, NoLateQuery
<1>3. Core /\ (OwnInv /\ TrackInv(Removable)) /\ LateInv /\ [Next]_vars => LateInv'
  BY LateStep
<1> QED
  BY <1>1, <1>2, <1>3, CoreCorrect, OwnCorrect, PTL DEF Spec

-----------------------------------------------------------------------------
(***************************************************************************)
(* Nothing is stranded.                                                    *)
(***************************************************************************)

\* What somebody waits for has been started: it is not attached to a unit.
StartedInv ==
  /\ \A s \in attached : pending[s] = {}
  /\ \A x \in Sym : unemitted[x] \cap attached = {}
  /\ section = "deps" => newDeps \cap attached = {}

LEMMA StartedKept ==
  ASSUME StartedInv, attached' \subseteq attached, attached \subseteq Sym,
         \A s \in Sym : pending'[s] \subseteq pending[s],
         \A x \in Sym : unemitted'[x] \subseteq unemitted[x],
         section' = "deps" => section = "deps" /\ newDeps' \subseteq newDeps
  PROVE  StartedInv'
  BY DEF StartedInv

LEMMA LockedStepStarted ==
  ASSUME Core, StartedInv, LockedStep
  PROVE  StartedInv'
<1>0. TypeOK /\ attached \subseteq Sym
  BY DEF Core, Base, TypeOK, TableType
<1>1. ASSUME NEW n \in Sym, AddDependencies(n) PROVE StartedInv'
  <2>1. /\ UNCHANGED <<attached, pending>> /\ section = "deps"
        /\ newDeps' \subseteq newDeps
        /\ \A x \in Sym : unemitted'[x] \subseteq unemitted[x] \cup NewEdges(n)
    BY <1>0, <1>1 DEF AddDependencies, Continue, queryVars, TypeOK, GraphType
  <2>2. NewEdges(n) \cap attached = {}
    BY <1>0, <2>1 DEF NewEdges, InFlight, StartedInv, TypeOK, LockType
  <2> QED
    BY <2>1, <2>2 DEF StartedInv
<1>2. ASSUME NEW s \in Sym, EmitSymbol(s) PROVE StartedInv'
  <2>1. /\ UNCHANGED attached /\ section' # "deps"
        /\ \A x \in Sym : pending'[x] \subseteq pending[x]
        /\ \A x \in Sym : unemitted'[x] \subseteq unemitted[x] \cup unemitted[s]
    BY <1>2 DEF EmitSymbol, Continue, NotifyMet, UnemittedAfter, Inherited
  <2> QED
    BY <1>0, <2>1 DEF StartedInv
<1>3. ASSUME NEW s \in Sym, FailSymbol(s) PROVE StartedInv'
  <2>1. /\ UNCHANGED attached /\ section' # "deps"
        /\ \A x \in Sym : pending'[x] \subseteq pending[x]
        /\ \A x \in Sym : unemitted'[x] \subseteq unemitted[x]
    BY <1>3 DEF FailSymbol, Continue, Detach, PendingWithout, UnemittedWithout
  <2> QED
    BY <1>0, <2>1, StartedKept
<1>4. CASE /\ attached' \subseteq attached /\ UNCHANGED <<pending, unemitted>>
           /\ section' = "deps" => section = "deps" /\ newDeps' \subseteq newDeps
  BY <1>0, <1>4, StartedKept
<1> QED
  BY <1>1, <1>2, <1>3, <1>4
  DEF LockedStep, SkipDependencies, DependenciesAssertFails, EmitTrivially, FailTrivially,
      EraseDoomed, Continue, tableVars, graphVars, queryVars

LEMMA LookUpStarted ==
  ASSUME Core, OwnInv, StartedInv, NEW q \in Query, LookUp(q)
  PROVE  StartedInv'
<1>0. TypeOK /\ attached \subseteq Sym
  BY DEF Core, Base, TypeOK, TableType
<1>1. ASSUME LodgeNotFound(q) \/ LodgeQuery(q) PROVE StartedInv'
  <2>1. PICK W : W = Waiting(q, Found(q))
    OBVIOUS
  <2>2. /\ \E p : LodgeApart(q, W, p)
        /\ UNCHANGED unemitted
        /\ section' = "deps" => newDeps' = W
    BY <1>1, <2>1, NotFoundApart, QueryApart
    DEF OwnInv, LodgeNotFound, LodgeQuery, Unlocked, lockVars
  <2>3. /\ W \cap attached' = {} /\ attached' \subseteq attached
        /\ pending' = [s \in Sym |-> IF s \in W THEN pending[s] \cup {q} ELSE pending[s]]
    BY <2>2 DEF LodgeApart, Lodge
  <2>4. \A s \in Sym \ W : pending'[s] = pending[s]
    BY <2>3
  <2> QED
    BY <1>0, <2>2, <2>3, <2>4 DEF StartedInv
<1>2. CASE ~ LodgeNotFound(q) /\ ~ LodgeQuery(q)
  <2>0. \A S \in SUBSET Sym : LodgeFails(q, S) => UNCHANGED attached
    BY PutBackApart DEF OwnInv
  <2>1. /\ UNCHANGED <<attached, unemitted>> /\ section' # "deps"
        /\ \A s \in Sym : pending'[s] \subseteq pending[s]
    BY <1>2, <2>0 DEF LookUp, LookupMatched, LookupFails, LodgeFails, MatchAssertFails, UnwindLookup,
       Detach, PendingWithout, Unlocked, lockVars, tableVars, graphVars, queryVars
  <2> QED
    BY <1>0, <2>1, StartedKept
<1> QED
  BY <1>1, <1>2

LEMMA StartedStep ==
  ASSUME Core, OwnInv, StartedInv, [Next]_vars
  PROVE  StartedInv'
<1>0. TypeOK /\ attached \subseteq Sym
  BY DEF Core, Base, TypeOK, TableType
<1>1. CASE /\ UNCHANGED <<attached, pending, unemitted>>
           /\ section' = "deps" => section = "deps" /\ newDeps' \subseteq newDeps
  BY <1>0, <1>1, StartedKept
<1>2. ASSUME NEW u \in Unit, NEW R \in SUBSET Sym, NotifyResolved(u, R) PROVE StartedInv'
  <2>1. /\ UNCHANGED <<attached, unemitted>> /\ section' # "deps"
        /\ \A s \in Sym : pending'[s] \subseteq pending[s]
    BY <1>2 DEF NotifyResolved, NotifyMet, Unlocked, lockVars, graphVars
  <2> QED
    BY <1>0, <2>1, StartedKept
<1>3. ASSUME NEW u \in Unit, NEW n \in Sym, NEW D \in Declarable, OL_AddDependencies(u, n, D)
      PROVE  StartedInv'
  BY <1>3 DEF OL_AddDependencies, InMotion, StartedInv, tableVars, graphVars, queryVars
<1>4. ASSUME NEW u \in Unit, Define(u) PROVE StartedInv'
  <2>1. /\ UNCHANGED <<pending, unemitted>> /\ section' # "deps"
        /\ attached' = attached \cup Defined(u)
    BY <1>4 DEF Define, Unlocked, lockVars, graphVars, queryVars
  <2>2. \A s \in Defined(u) : s \in Sym /\ (symState[s] = Absent \/ s \in attached)
    BY <1>0, <1>4
    DEF Define, Duplicates, Defined, Existing, Present, Core, Base, TableInv,
        NeverSearchedAttached, TypeOK, TableType, UnitType
  <2>3. \A s \in Sym : symState[s] = Absent => s \notin mi
    BY InfoPresent
  <2>4. \A s \in Sym \ mi : pending[s] = {} /\ \A x \in Sym : s \notin unemitted[x]
    BY PendingHasInfo, TargetsHaveInfo DEF Core
  <2> QED
    BY <2>1, <2>2, <2>3, <2>4 DEF StartedInv
<1> QED
  BY <1>1, <1>2, <1>3, <1>4, LockedStepStarted, LookUpStarted
  DEF Next, Materialize, AtRest, vars, NotifyRefused, NotifyEmitted, NotifyAssertFails,
      FailMaterialization, DestroyResponsibility, DispatchUnit, NotifyComplete, RemoveTracker,
      RemoveAssertFails, Unlocked, lockVars, tableVars, graphVars, queryVars

LEMMA StartedInit ==
  ASSUME Init
  PROVE  StartedInv
<1>1. /\ attached \subseteq Sym /\ pending = [s \in Sym |-> {}]
      /\ unemitted = [s \in Sym |-> {}] /\ section = "free"
  BY WorkloadAssumption DEF Init
<1> QED
  BY <1>1 DEF StartedInv

LEMMA StartedCorrect ==
  ASSUME OverridesApart(Removable)
  PROVE  Spec => []StartedInv
<1>1. Core /\ (OwnInv /\ TrackInv(Removable)) /\ StartedInv /\ [Next]_vars => StartedInv'
  BY StartedStep
<1> QED
  BY <1>1, StartedInit, CoreCorrect, OwnCorrect, PTL DEF Spec

\* The steps of the session, but for the client's, take nothing that is absent into
\* the table.
LEMMA AbsentKept ==
  ASSUME Core, LockedStep \/ (\E u \in Unit : Materialize(u)) \/ (\E q \in Query : LookUp(q)),
         NEW s \in Sym, symState[s] = Absent
  PROVE  symState'[s] = Absent
<1>0. symState \in [Sym -> SymbolState] /\ TypeOK
  BY DEF Core, Base, TypeOK, TableType
<1>1. CASE LockedStep
  <2>1. ASSUME NEW x \in Sym, EmitSymbol(x) \/ EmitTrivially(x) PROVE symState'[s] = Absent
    <3>1. x # s
      BY <2>1 DEF EmitSymbol, EmitTrivially, Core, Base, TableInv, EmitsResolved
    <3> QED
      BY <1>0, <2>1, <3>1 DEF EmitSymbol, EmitTrivially, ReadyAfter
  <2>2. CASE EraseDoomed
    BY <2>2 DEF EraseDoomed
  <2>3. CASE UNCHANGED symState
    BY <2>3
  <2> QED
    BY <1>1, <2>1, <2>2, <2>3
    DEF LockedStep, AddDependencies, SkipDependencies, DependenciesAssertFails, FailSymbol,
        FailTrivially, tableVars
<1>2. ASSUME NEW u \in Unit, Materialize(u) PROVE symState'[s] = Absent
  <2>1. ASSUME NEW R \in SUBSET Sym, NotifyResolved(u, R) PROVE symState'[s] = Absent
    BY <2>1 DEF NotifyResolved
  <2>2. CASE UNCHANGED symState
    BY <2>2
  <2> QED
    BY <1>2, <2>1, <2>2
    DEF Materialize, NotifyRefused, OL_AddDependencies, NotifyEmitted, NotifyAssertFails,
        FailMaterialization, DestroyResponsibility, tableVars
<1>3. ASSUME NEW q \in Query, LookUp(q) PROVE symState'[s] = Absent
  <2>1. ASSUME NEW C, symState' = Started(C), Covered(C) \subseteq Present
        PROVE  symState'[s] = Absent
    BY <2>1 DEF Started, Present
  <2>2. CASE UNCHANGED symState
    BY <2>2
  <2> QED
    BY <1>3, <2>1, <2>2
    DEF LookUp, LookupMatched, LookupFails, LodgeFails, MatchAssertFails, LodgeNotFound, Lodge,
        UnwindLookup, LodgeQuery, tableVars
<1> QED
  BY <1>1, <1>2, <1>3

\* A responsibility covers s and its tracker was not removed.
Held(s) == \E u \in Unit : Holding(u, s)

\* A symbol that is being materialized is in somebody's hands, has failed and left
\* the graph, or is about to be emitted, failed or erased.
StrandOf(s) ==
  symState[s] \in {Materializing, Resolved} =>
    \/ s \in attached \/ Held(s)
    \/ s \in hasError \ mi
    \/ section \in {"emit", "fail"} /\ s \in todo
    \/ s \in doomed
StrandInv == section # "aborted" => \A s \in Sym : StrandOf(s)

LEMMA StrandKept ==
  ASSUME StrandInv, section' # "aborted" => section # "aborted",
         \A s \in Sym : symState'[s] \in {Materializing, Resolved} =>
           /\ symState[s] \in {Materializing, Resolved}
           /\ s \in attached => s \in attached'
           /\ Held(s) => Held(s)' \/ (section' \in {"emit", "fail"} /\ s \in todo') \/ s \in doomed'
           /\ s \in hasError \ mi => s \in hasError' \ mi'
           /\ s \in doomed => s \in doomed'
           /\ section \in {"emit", "fail"} /\ s \in todo =>
                (section' \in {"emit", "fail"} /\ s \in todo') \/ s \in hasError' \ mi'
  PROVE  StrandInv'
  BY DEF StrandInv, StrandOf

LEMMA HeldKept ==
  ASSUME UNCHANGED <<urt, defunct>>, \A u \in Unit : Live(u) => Live(u)' /\ usyms'[u] = usyms[u]
  PROVE  \A s \in Sym : Held(s) => Held(s)'
  BY DEF Held, Holding

LEMMA LockedStepStrand ==
  ASSUME Core, StrandInv, LockedStep
  PROVE  StrandInv'
<1>0. symState \in [Sym -> SymbolState] /\ todo \subseteq Sym /\ TypeOK
  BY DEF Core, Base, TypeOK, TableType, LockType
<1>1. /\ UNCHANGED <<urt, defunct>>
      /\ \A u \in Unit : Live(u) => Live(u)' /\ usyms'[u] = usyms[u]
  <2>1. CASE EraseDoomed
    BY <1>0, <2>1, OrphanedDefined DEF EraseDoomed, trackerVars, Live, TypeOK, UnitType
  <2>2. CASE UNCHANGED <<unitVars, trackerVars>>
    BY <2>2 DEF unitVars, trackerVars, Live
  <2> QED
    BY <2>1, <2>2
    DEF LockedStep, AddDependencies, SkipDependencies, DependenciesAssertFails, EmitSymbol,
        EmitTrivially, FailSymbol, FailTrivially
<1>2. \A s \in Sym : Held(s) => Held(s)'
  BY <1>1, HeldKept
<1>3. ASSUME NEW x \in Sym, EmitSymbol(x) \/ EmitTrivially(x) PROVE StrandInv'
  <2>1. /\ UNCHANGED <<attached, hasError, doomed>> /\ mi' \subseteq mi
        /\ section = "emit" /\ todo' = todo \ {x}
        /\ section' = IF todo' = {} THEN "free" ELSE "emit"
    BY <1>3 DEF EmitSymbol, EmitTrivially, Continue, graphVars
  <2>2. \A s \in Sym : symState'[s] \in {Materializing, Resolved} => s # x /\ symState'[s] = symState[s]
    BY <1>0, <1>3 DEF EmitSymbol, EmitTrivially
  <2> QED
    BY <1>2, <2>1, <2>2, StrandKept
<1>4. ASSUME NEW x \in Sym, FailSymbol(x) \/ FailTrivially(x) PROVE StrandInv'
  <2>1. /\ UNCHANGED <<symState, attached, doomed>> /\ mi' \subseteq mi /\ hasError \subseteq hasError'
        /\ section \in {"fail", "untrack"} /\ todo \ {x} \subseteq todo'
        /\ section' = IF todo' = {} /\ section # "untrack" THEN "free" ELSE section
    BY <1>4 DEF FailSymbol, FailTrivially, Continue, graphVars
  <2>2. symState[x] \in {Materializing, Resolved} => x \in hasError' \ mi'
    BY <1>4 DEF FailSymbol, FailTrivially, graphVars
  <2> QED
    BY <1>2, <2>1, <2>2, StrandKept
<1>5. ASSUME NEW n \in Sym, AddDependencies(n) PROVE StrandInv'
  <2>1. /\ UNCHANGED <<symState, attached, doomed>> /\ section = "deps"
        /\ hasError \subseteq hasError' /\ mi' = mi \cup {n} \cup InFlight(newDeps)
        /\ n \notin hasError
    BY <1>5 DEF AddDependencies
  <2>2. hasError \cap InFlight(newDeps) = {}
    BY DEF InFlight
  <2> QED
    BY <1>2, <2>1, <2>2, StrandKept
<1>6. CASE EraseDoomed
  <2>1. /\ section = "untrack" /\ section' = "free" /\ UNCHANGED mi
        /\ attached' = attached \ doomed /\ hasError' = hasError \ doomed
        /\ \A s \in Sym : symState'[s] = IF s \in doomed THEN Absent ELSE symState[s]
    BY <1>6 DEF EraseDoomed, graphVars
  <2> QED
    BY <1>2, <2>1, StrandKept
<1>7. CASE UNCHANGED <<tableVars, graphVars, doomed>> /\ section = "deps"
  BY <1>2, <1>7, StrandKept DEF tableVars, graphVars
<1> QED
  BY <1>3, <1>4, <1>5, <1>6, <1>7
  DEF LockedStep, SkipDependencies, DependenciesAssertFails

LEMMA MaterializeStrand ==
  ASSUME Core, StrandInv, NEW u \in Unit, Materialize(u)
  PROVE  StrandInv'
<1>0. symState \in [Sym -> SymbolState] /\ TypeOK
  BY DEF Core, Base, TypeOK, TableType
<1>1. CASE NotifyEmitted(u) \/ FailMaterialization(u)
  <2>1. /\ UNCHANGED <<tableVars, graphVars, urt, defunct, phase>> /\ section = "free"
        /\ usyms' = [usyms EXCEPT ![u] = {}]
        /\ urt[u] \notin defunct => section' \in {"emit", "fail"} /\ todo' = usyms[u]
        /\ UNCHANGED doomed /\ section' # "aborted"
    BY <1>1 DEF NotifyEmitted, FailMaterialization, Active, Unlocked, trackerVars
  <2>2. ASSUME NEW s \in Sym, Held(s)
        PROVE  Held(s)' \/ (section' \in {"emit", "fail"} /\ s \in todo')
    <3>1. PICK v \in Unit : Holding(v, s)
      BY <2>2 DEF Held
    <3>2. CASE v # u
      <4>1. Holding(v, s)'
        BY <1>0, <2>1, <3>1, <3>2 DEF Holding, Live, TypeOK, UnitType
      <4> QED
        BY <4>1 DEF Held
    <3>3. CASE v = u
      BY <2>1, <3>1, <3>3 DEF Holding
    <3> QED
      BY <3>2, <3>3
  <2> QED
    BY <2>1, <2>2, StrandKept DEF tableVars, graphVars
<1>2. CASE DestroyResponsibility(u)
  <2>1. /\ UNCHANGED <<tableVars, graphVars, doomed, usyms, urt, defunct, section>> /\ section = "free"
        /\ usyms[u] = {} /\ phase' = [phase EXCEPT ![u] = "done"]
    BY <1>2 DEF DestroyResponsibility, Unlocked, lockVars, trackerVars
  <2>2. \A v \in Unit, s \in Sym : Holding(v, s) => Holding(v, s)'
    BY <1>0, <2>1 DEF Holding, Live, TypeOK, UnitType
  <2>3. \A s \in Sym : Held(s) => Held(s)'
    BY <2>2 DEF Held
  <2> QED
    BY <2>1, <2>3, StrandKept DEF tableVars, graphVars
<1>3. CASE /\ UNCHANGED <<attached, hasError, graphVars, doomed, phase, usyms, urt, defunct>>
           /\ section = "free"
           /\ \A s \in Sym : symState'[s] \in {Materializing, Resolved} =>
                symState[s] \in {Materializing, Resolved}
  <2>1. \A s \in Sym : Held(s) => Held(s)'
    BY <1>3 DEF Held, Holding, Live
  <2> QED
    BY <1>3, <2>1, StrandKept DEF graphVars
<1>4. ASSUME NEW R \in SUBSET Sym, NotifyResolved(u, R)
      PROVE  \A s \in Sym : symState'[s] \in {Materializing, Resolved} =>
               symState[s] \in {Materializing, Resolved}
  BY <1>4 DEF NotifyResolved
<1> QED
  BY <1>1, <1>2, <1>3, <1>4
  DEF Materialize, NotifyResolved, NotifyRefused, OL_AddDependencies, NotifyAssertFails, Unlocked,
      unitVars, lockVars, tableVars, trackerVars

\* No lookup that has lost a symbol between its phases has found another that waits
\* with a unit: phase 2 would destroy the unit (LodgeNotFound).
NoneDestroyed ==
  \A q \in Query :
    qphase[q] = "matched" /\ ~ (Required(q) \subseteq Present) =>
      Collected(Waiting(q, Found(q))) = {}

\* What a lookup starts is covered by the responsibilities it makes, or is put back
\* to the unit it came from.
LEMMA LookUpStrand ==
  ASSUME Core, OwnInv, NoneLate, StrandInv, NEW q \in Query, LookUp(q),
         NoneDestroyed \/ NoneUnwinding'
  PROVE  StrandInv'
<1>0. symState \in [Sym -> SymbolState] /\ TypeOK
  BY DEF Core, Base, TypeOK, TableType
<1>1. ASSUME NEW S \in SUBSET Sym, LodgeFails(q, S) PROVE StrandInv'
  <2>0. PICK W : W = Waiting(q, S)
    OBVIOUS
  <2>1. /\ UNCHANGED <<attached, hasError, doomed, unitVars, trackerVars>> /\ section = "free"
        /\ symState' = Started(Collected(W)) /\ mi' = mi \cup W /\ W \cap hasError = {}
    <3>1. UNCHANGED <<attached, phase>> /\ symState' = Started(Collected(W)) /\ mi' = mi \cup W
      BY <1>1, <2>0, PutBackApart DEF OwnInv
    <3> QED
      BY <1>1, <2>0, <3>1 DEF LodgeFails, Unlocked, lockVars, unitVars, Waiting
  <2>2. \A s \in Covered(Collected(W)) : s \in attached
    <3>1. \A u \in Collected(W) : u \in Unit /\ phase[u] = "defined"
      BY <2>0, CollectedDefined DEF Waiting
    <3> QED
      BY <3>1 DEF Covered, OwnInv, DefinedAttached
  <2>3. \A s \in Sym : Held(s) => Held(s)'
    BY <2>1, HeldKept DEF unitVars, trackerVars, Live
  <2> SUFFICES ASSUME NEW s \in Sym, symState'[s] \in {Materializing, Resolved}
               PROVE  StrandOf(s)'
    BY DEF StrandInv, StrandOf
  <2>4. CASE s \in Covered(Collected(W))
    BY <2>1, <2>2, <2>4 DEF StrandOf
  <2>5. CASE s \notin Covered(Collected(W))
    <3>1. symState'[s] = symState[s]
      BY <2>1, <2>5 DEF Started
    <3> QED
      BY <2>1, <2>3, <3>1 DEF StrandInv, StrandOf
  <2> QED
    BY <2>4, <2>5
<1>2. CASE LodgeQuery(q)
  <2>0. PICK W, C : W = Waiting(q, Found(q)) /\ C = Collected(W)
    OBVIOUS
  <2>1. /\ UNCHANGED <<hasError, doomed, usyms, urt, defunct>> /\ section = "free"
        /\ symState' = Started(C) /\ mi' = mi \cup W /\ W \cap hasError = {}
        /\ attached' = attached \ Covered(C)
        /\ phase' = [v \in Unit |-> IF v \in C THEN "outstanding" ELSE phase[v]]
    <3>1. LodgeApart(q, W, "outstanding")
      BY <1>2, <2>0, QueryApart DEF OwnInv
    <3> QED
      BY <1>2, <2>0, <3>1
      DEF LodgeApart, LodgeQuery, Lodge, Unlocked, Waiting, InError, trackerVars, lockVars
  <2>2. \A v \in C : v \in Unit /\ urt[v] \notin defunct
    <3>1. W \in SUBSET Sym
      BY <2>0, WorkloadAssumption DEF Waiting, Found
    <3>3. \A v \in C : v \in Unit /\ phase[v] = "defined"
      BY <2>0, <3>1, CollectedDefined
    <3>4. Unlocked
      BY <1>2 DEF LodgeQuery
    <3> QED
      BY <3>3, <3>4 DEF NoneLate
  <2>3. ASSUME NEW s \in Sym, Held(s) \/ s \in Covered(C) PROVE Held(s)'
    <3>1. PICK v \in Unit : s \in usyms[v] /\ urt[v] \notin defunct /\ (Live(v) \/ v \in C)
      BY <2>2, <2>3 DEF Held, Holding, Covered
    <3>2. Holding(v, s)'
      BY <2>1, <3>1 DEF Holding, Live
    <3> QED
      BY <3>2 DEF Held
  <2> SUFFICES ASSUME NEW s \in Sym, symState'[s] \in {Materializing, Resolved}
               PROVE  StrandOf(s)'
    BY DEF StrandInv, StrandOf
  <2>4. CASE s \in Covered(C)
    BY <2>3, <2>4 DEF StrandOf
  <2>5. CASE s \notin Covered(C)
    <3>1. symState'[s] = symState[s]
      BY <2>1, <2>5 DEF Started
    <3> QED
      BY <2>1, <2>3, <2>5, <3>1 DEF StrandInv, StrandOf
  <2> QED
    BY <2>4, <2>5
<1>3. CASE LodgeNotFound(q)
  <2>0. PICK W : W = Waiting(q, Found(q))
    OBVIOUS
  <2>1. NoneDestroyed
    <3>1. qphase'[q] = "unwinding"
      BY <1>0, <1>3 DEF LodgeNotFound, TypeOK, QueryType
    <3> QED
      BY <3>1 DEF NoneUnwinding
  <2>2. Collected(W) = {}
    BY <1>3, <2>0, <2>1 DEF LodgeNotFound, NoneDestroyed
  <2>3. Covered(Collected(W)) = {}
    BY <2>2 DEF Covered
  <2>4. /\ UNCHANGED <<hasError, doomed, usyms, urt, defunct, section, todo>> /\ section = "free"
        /\ symState' = Started(Collected(W)) /\ mi' = mi \cup W /\ W \cap hasError = {}
        /\ attached' = attached \ Covered(Collected(W))
        /\ phase' = [u \in Unit |-> IF u \in Collected(W) THEN "lost" ELSE phase[u]]
    <3>1. LodgeApart(q, W, "lost")
      BY <1>3, <2>0, NotFoundApart DEF OwnInv
    <3> QED
      BY <1>3, <2>0, <3>1
      DEF LodgeApart, LodgeNotFound, Lodge, Unlocked, Waiting, InError, trackerVars, lockVars
  <2>5. symState' = symState /\ attached' = attached /\ \A u \in Unit : phase'[u] = phase[u]
    BY <1>0, <2>2, <2>3, <2>4 DEF Started
  <2>6. \A s \in Sym : Held(s) => Held(s)'
    BY <2>4, <2>5, HeldKept DEF Live
  <2> QED
    BY <2>4, <2>5, <2>6, StrandKept
<1>4. CASE UNCHANGED <<tableVars, graphVars, doomed, unitVars, trackerVars>> /\ section = "free"
  <2>1. \A s \in Sym : Held(s) => Held(s)'
    BY <1>4, HeldKept DEF unitVars, trackerVars, Live
  <2> QED
    BY <1>4, <2>1, StrandKept DEF tableVars, graphVars
<1> QED
  BY <1>1, <1>2, <1>3, <1>4
  DEF LookUp, LookupMatched, LookupFails, MatchAssertFails, UnwindLookup, Unlocked, lockVars

LEMMA DefineStrand ==
  ASSUME Core, StrandInv, NEW u \in Unit, Define(u)
  PROVE  StrandInv'
<1>0. TypeOK
  BY DEF Core, Base
<1>1. /\ UNCHANGED <<mi, doomed, urt, defunct>> /\ section = "free" /\ attached \subseteq attached'
      /\ hasError' = hasError \ Defined(u)
      /\ \A s \in Sym : symState'[s] = IF s \in Defined(u) THEN NeverSearched ELSE symState[s]
      /\ \A v \in Unit : Live(v) => Live(v)' /\ usyms'[v] = usyms[v]
  <2>1. \A v \in Unit : Live(v) => Live(v)' /\ usyms'[v] = usyms[v]
    <3> SUFFICES ASSUME NEW v \in Unit, Live(v) PROVE Live(v)' /\ usyms'[v] = usyms[v]
      OBVIOUS
    <3>1. v # u /\ phase[v] # "defined"
      BY DEF Define, Live
    <3> QED
      BY <3>1, DefineRest DEF Live
  <2> QED
    BY <1>0, <2>1 DEF Define, Unlocked, lockVars, graphVars, TypeOK, UnitType
<1>2. \A s \in Sym : Held(s) => Held(s)'
  BY <1>1, HeldKept
<1> QED
  BY <1>1, <1>2, StrandKept

LEMMA StrandStep ==
  ASSUME Core, OwnInv, NoneLate, NoneDestroyed \/ NoneUnwinding', StrandInv, [Next]_vars,
         section # "untrack" => doomed = {},
         (\E t \in Tracker : RemoveTracker(t)) => LiveListed
  PROVE  StrandInv'
<1>0. TypeOK
  BY DEF Core, Base
<1>1. CASE UNCHANGED <<tableVars, graphVars, phase, usyms, urt, defunct, lockVars>>
  BY <1>1, StrandKept DEF tableVars, graphVars, lockVars, Held, Holding, Live
<1>2. ASSUME NEW u \in Unit, DispatchUnit(u) PROVE StrandInv'
  <2>1. UNCHANGED <<usyms, urt, defunct, tableVars, graphVars, lockVars>>
    BY <1>2 DEF DispatchUnit, trackerVars
  <2>2. \A v \in Unit : Live(v) => Live(v)' /\ usyms'[v] = usyms[v]
    BY <1>0, <1>2, <2>1 DEF DispatchUnit, Live, TypeOK, UnitType
  <2>3. \A s \in Sym : Held(s) => Held(s)'
    BY <2>1, <2>2, HeldKept
  <2> QED
    BY <2>1, <2>3, StrandKept DEF tableVars, graphVars, lockVars
<1>3. ASSUME NEW t \in Tracker, RemoveTracker(t) PROVE StrandInv'
  <2>1. /\ UNCHANGED <<tableVars, graphVars, unitVars>> /\ section = "free" /\ section' = "untrack"
        /\ t \in Removable /\ defunct' = defunct \cup {t} /\ doomed' = trackerSyms[t]
    BY <1>3 DEF RemoveTracker, Unlocked
  <2>2. doomed = {} /\ t # DefaultTracker
    BY <2>1, WorkloadAssumption
  <2>3. ASSUME NEW s \in Sym, Held(s) PROVE Held(s)' \/ s \in doomed'
    <3>1. PICK u \in Unit : Holding(u, s)
      BY <2>3 DEF Held
    <3>2. CASE urt[u] = t
      BY <1>3, <2>1, <2>2, <3>1, <3>2 DEF LiveListed, Holding
    <3>3. CASE urt[u] # t
      BY <2>1, <3>1, <3>3 DEF Held, Holding, Live, unitVars
    <3> QED
      BY <3>2, <3>3
  <2> QED
    BY <2>1, <2>2, <2>3, StrandKept DEF tableVars, graphVars
<1> QED
  BY <1>1, <1>2, <1>3, LockedStepStrand, MaterializeStrand, LookUpStrand, DefineStrand
  DEF Next, AtRest, vars, NotifyComplete, RemoveAssertFails, unitVars, trackerVars, StrandInv

LEMMA StrandCorrect ==
  ASSUME OverridesApart(Removable)
  PROVE  Spec /\ []NoneUnwinding /\ []NoneLate => []StrandInv
<1>1. Init => StrandInv
  BY DEF Init, StrandInv, StrandOf
<1>2. /\ Core /\ OwnInv /\ TrackInv(Removable) /\ NoneLate /\ NoneUnwinding' /\ StrandInv
      /\ [Next]_vars
      => StrandInv'
  BY StrandStep DEF TrackInv, DoomedApart
<1> QED
  BY <1>1, <1>2, CoreCorrect, OwnCorrect, PTL DEF Spec

LEMMA HeldOwned ==
  ASSUME NEW s, Held(s)
  PROVE  Owned(s)
  BY DEF Held, Holding, Live, Owned

\* Whatever is being materialized is in somebody's hands, whatever fails, is
\* overridden or removed meanwhile: no symbol is left to nobody.  A lookup that
\* loses a symbol between its phases destroys the units it has collected
\* (NoneUnwinding), and a unit added late is never failed (NoneLate).
THEOREM SymbolsCorrect ==
  ASSUME OverridesApart(Removable)
  PROVE  Spec /\ []NoneUnwinding /\ []NoneLate => []NoStrandedSymbol
<1>1. ListInv /\ StrandInv => NoStrandedSymbol
  BY HeldOwned DEF NoStrandedSymbol, Unlocked, StrandInv, StrandOf, ListInv, DoomedWithin
<1> QED
  BY <1>1, ListCorrect, StrandCorrect, PTL

LEMMA WaitersOwned ==
  ASSUME Core, StartedInv, StrandInv, section # "untrack" => doomed = {}
  PROVE  NoStrandedQuery
<1> SUFFICES ASSUME section = "free",
                    NEW s \in Sym, pending[s] # {}
             PROVE  \/ Owned(s)
                    \/ /\ symState[s] = Emitted /\ unemitted[s] # {}
                       /\ \A d \in unemitted[s] : Owned(d)
  BY DEF NoStrandedQuery, Unlocked
<1>1. \A x \in Sym \ attached : x \in mi /\ symState[x] \in {Materializing, Resolved} => Owned(x)
  BY HeldOwned DEF StrandInv, StrandOf
<1>2. s \in mi /\ s \notin attached /\ symState[s] \in Materializing .. Emitted
  <2>1. s \in mi /\ s \notin attached
    BY PendingHasInfo DEF StartedInv
  <2>2. symState[s] \in NeverSearched .. Emitted
    BY <2>1, InfoPresent
  <2>3. symState[s] # NeverSearched
    BY <2>1 DEF Core, Base, TableInv, NeverSearchedAttached
  <2> QED
    BY <2>1, <2>2, <2>3
<1>3. CASE symState[s] = Emitted
  <2>1. unemitted[s] # {} /\ \A d \in unemitted[s] : symState[d] \in {Materializing, Resolved}
    BY <1>2, <1>3 DEF Core, ShapeInv, GraphShape, BeingFailed
  <2>2. \A d \in unemitted[s] : d \in Sym /\ d \in mi /\ d \notin attached
    BY TargetsHaveInfo DEF Core, StartedInv
  <2> QED
    BY <1>1, <1>3, <2>1, <2>2
<1> QED
  BY <1>1, <1>2, <1>3

\* So is whatever a query waits for, at once or through the symbols that an emitted
\* one still waits for: no lookup waits for nobody.
THEOREM WaitersCorrect ==
  ASSUME OverridesApart(Removable)
  PROVE  Spec /\ []NoneUnwinding /\ []NoneLate => []NoStrandedQuery
<1>1. Core /\ ListInv /\ StartedInv /\ StrandInv => NoStrandedQuery
  BY WaitersOwned DEF ListInv, DoomedWithin
<1>2. OverridesApart(Removable)
  OBVIOUS
<1> QED
  BY <1>1, CoreCorrect, ListCorrect, StartedCorrect, StrandCorrect, PTL

\* A session in which nothing is removed keeps clear of both: what phase 1 of a
\* lookup has found is still there in phase 2.
PeacefulInv ==
  /\ section # "untrack" /\ doomed = {}
  /\ \A q \in Query : qphase[q] = "matched" => Required(q) \subseteq Present
  /\ NoneUnwinding
UndisturbedInv == defunct = {} /\ PeacefulInv

\* What is dispatched or running is under a live tracker: replace and delegate hand
\* on the tracker of the responsibility they split, and transferTracker moves the
\* responsibilities with the tracker.
LiveUnderTracker == \A u \in Unit : Live(u) => urt[u] \notin defunct

\* The weaker condition, which transfers of trackers keep too.
SettledInv == LiveUnderTracker /\ PeacefulInv

LEMMA UndisturbedSettled ==
  ASSUME UndisturbedInv
  PROVE  SettledInv
  BY DEF UndisturbedInv, SettledInv, LiveUnderTracker

LEMMA PeacefulStep ==
  ASSUME Removable = {}, Core, OwnInv, PeacefulInv, [Next]_vars
  PROVE  PeacefulInv' /\ defunct' = defunct
<1>0. TypeOK
  BY DEF Core, Base
<1>1. \A t \in Tracker : ~ RemoveTracker(t) /\ ~ RemoveAssertFails(t)
  BY DEF RemoveTracker, RemoveAssertFails
<1>2. ~ EraseDoomed
  BY DEF EraseDoomed, PeacefulInv
<1>3. defunct' = defunct /\ section' # "untrack" /\ doomed' = doomed
  <2>1. defunct' = defunct
    BY <1>1, <1>2
    DEF Next, AtRest, vars, LockedStep, AddDependencies, SkipDependencies,
        DependenciesAssertFails, EmitSymbol, EmitTrivially, FailSymbol, FailTrivially,
        Materialize, NotifyResolved, NotifyRefused, OL_AddDependencies, NotifyEmitted,
        NotifyAssertFails, FailMaterialization, DestroyResponsibility, DispatchUnit, LookUp,
        LookupMatched, LookupFails, LodgeFails, MatchAssertFails, LodgeNotFound, UnwindLookup,
        LodgeQuery, NotifyComplete, Define, trackerVars
  <2>2. section' # "untrack"
    BY <1>1, <1>2
    DEF PeacefulInv, Next, AtRest, vars, LockedStep, AddDependencies, SkipDependencies,
        DependenciesAssertFails, EmitSymbol, EmitTrivially, FailSymbol, FailTrivially, Continue,
        Materialize, NotifyResolved, NotifyRefused, OL_AddDependencies, NotifyEmitted,
        NotifyAssertFails, FailMaterialization, DestroyResponsibility, DispatchUnit, LookUp,
        LookupMatched, LookupFails, LodgeFails, MatchAssertFails, LodgeNotFound, UnwindLookup,
        LodgeQuery, NotifyComplete, Define, lockVars, Unlocked
  <2>3. doomed' = doomed
    BY <1>1, <1>2
    DEF Next, AtRest, vars, LockedStep, AddDependencies, SkipDependencies,
        DependenciesAssertFails, EmitSymbol, EmitTrivially, FailSymbol, FailTrivially, Continue,
        Materialize, NotifyResolved, NotifyRefused, OL_AddDependencies, NotifyEmitted,
        NotifyAssertFails, FailMaterialization, DestroyResponsibility, DispatchUnit, LookUp,
        LookupMatched, LookupFails, LodgeFails, MatchAssertFails, LodgeNotFound, UnwindLookup,
        LodgeQuery, NotifyComplete, Define, lockVars
  <2> QED
    BY <2>1, <2>2, <2>3
<1>4. Present \subseteq Present'
  <2> SUFFICES ASSUME NEW s \in Sym, symState[s] # Absent PROVE symState'[s] # Absent
    BY DEF Present
  <2>1. doomed = {} /\ symState[s] \in 0 .. 5
    BY <1>0 DEF PeacefulInv, TypeOK, TableType
  <2>2. symState'[s] >= symState[s]
    BY <2>1, StateStep
  <2> QED
    BY <2>1, <2>2
<1>5. \A q \in Query : /\ qphase'[q] = "matched" => Required(q) \subseteq Present
                       /\ qphase'[q] # "unwinding"
  <2>1. CASE UNCHANGED qphase
    BY <2>1 DEF PeacefulInv, NoneUnwinding
  <2>2. ASSUME NEW q \in Query, LookUp(q)
        PROVE  \A r \in Query : /\ qphase'[r] = "matched" => Required(r) \subseteq Present
                                /\ qphase'[r] # "unwinding"
    <3>1. ~ LodgeNotFound(q)
      BY DEF LodgeNotFound, PeacefulInv
    <3> QED
      BY <1>0, <2>2, <3>1
      DEF LookUp, LookupMatched, LookupFails, LodgeFails, MatchAssertFails, UnwindLookup,
          LodgeQuery, Matched, PeacefulInv, NoneUnwinding, queryVars, TypeOK, QueryType
  <2> QED
    BY <1>1, <1>2, <2>1, <2>2
    DEF Next, AtRest, vars, LockedStep, AddDependencies, SkipDependencies, NotifyMet, Detach,
        DependenciesAssertFails, EmitSymbol, EmitTrivially, FailSymbol, FailTrivially,
        Materialize, NotifyResolved, NotifyRefused, OL_AddDependencies, NotifyEmitted,
        NotifyAssertFails, FailMaterialization, DestroyResponsibility, DispatchUnit,
        NotifyComplete, Define, queryVars
<1> QED
  BY <1>3, <1>4, <1>5 DEF PeacefulInv, NoneUnwinding, Required

LEMMA UndisturbedCorrect ==
  ASSUME Removable = {}
  PROVE  Spec => []UndisturbedInv
<1>1. Init => UndisturbedInv
  BY DEF Init, UndisturbedInv, PeacefulInv, NoneUnwinding
<1>2. Core /\ OwnInv /\ UndisturbedInv /\ [Next]_vars => UndisturbedInv'
  BY PeacefulStep DEF UndisturbedInv
<1>3. OverridesApart(Removable)
  BY DEF OverridesApart
<1> QED
  BY <1>1, <1>2, <1>3, CoreCorrect, OwnCorrect, PTL DEF Spec

LEMMA SettledCorrect ==
  ASSUME Removable = {}
  PROVE  Spec => []SettledInv
  BY UndisturbedSettled, UndisturbedCorrect, PTL

\* Where no tracker is removed, nothing is stranded and no lookup is answered twice,
\* whatever is defined, overridden, looked up or fails.
COROLLARY UndisturbedSafe ==
  ASSUME Removable = {}
  PROVE  Spec => [](NoStrandedSymbol /\ NoStrandedQuery /\ AnsweredOnce)
<1>1. OverridesApart(Removable)
  BY DEF OverridesApart
<1>2. UndisturbedInv => NoneUnwinding /\ NoneLate
  BY DEF UndisturbedInv, PeacefulInv, NoneLate
<1> QED
  BY <1>1, <1>2, UndisturbedCorrect, SymbolsCorrect, WaitersCorrect, OnceCorrect, PTL

-----------------------------------------------------------------------------
(***************************************************************************)
(* Completion                                                              *)
(***************************************************************************)

\* What a unit of a removable tracker defines is defined by no other unit, so that
\* a symbol taken out of the table does not come back under a query that has
\* already been told of it.
DefinedOnce ==
  \A u, v \in Unit : u # v /\ UnitTracker[u] \in Removable => UnitSyms[u] \cap UnitSyms[v] = {}

\* A query counts all its symbols until its lookup is lodged; one whose lookup has
\* lost a symbol still counts a symbol that nothing will report.
OutstandingOf(q) ==
  /\ qphase[q] \in {"idle", "matched"} => outstanding[q] = QuerySyms[q]
  /\ qphase[q] = "unwinding" /\ regs[q] # {} => ~ (outstanding[q] \subseteq regs[q])
OutstandingInv == \A q \in Query : OutstandingOf(q)

\* Symbols are reported to the queries registered with them only.
LEMMA MetRegistered ==
  ASSUME Core, NEW Z \in SUBSET Sym, NEW st \in Nat, NEW q \in Query
  PROVE  MetFor(TakeQueriesMeeting(Z, st), q)
           = {z \in Z : q \in pending[z] /\ QueryState[q] <= st}
         /\ MetFor(TakeQueriesMeeting(Z, st), q) \subseteq regs[q]
<1>1. MetFor(TakeQueriesMeeting(Z, st), q) = {z \in Z : q \in pending[z] /\ QueryState[q] <= st}
  BY DEF MetFor, TakeQueriesMeeting
<1>2. \A z \in Sym : q \in pending[z] => z \in regs[q]
  BY DEF Core, Base, QueryInv, RegistrationsMirrored
<1> QED
  BY <1>1, <1>2

LEMMA NotifyMetOutstanding ==
  ASSUME Core, OutstandingInv, NEW Z \in SUBSET Sym, NEW st \in Nat,
         NotifyMet(TakeQueriesMeeting(Z, st)), UNCHANGED qphase
  PROVE  OutstandingInv'
<1> SUFFICES ASSUME NEW q \in Query PROVE OutstandingOf(q)'
  BY DEF OutstandingInv
<1> DEFINE M == MetFor(TakeQueriesMeeting(Z, st), q)
<1>1. regs'[q] = regs[q] \ M /\ outstanding'[q] = outstanding[q] \ M
  BY DEF NotifyMet
<1>2. M \subseteq regs[q]
  BY MetRegistered
<1>3. qphase[q] \in {"idle", "matched"} => regs[q] = {}
  BY DEF Core, Base, QueryInv, UnlodgedUnregistered
<1> HIDE DEF M
<1> QED
  BY <1>1, <1>2, <1>3 DEF OutstandingInv, OutstandingOf

LEMMA OutstandingCorrect == Spec => []OutstandingInv
<1>1. Init => OutstandingInv
  BY DEF Init, OutstandingInv, OutstandingOf
<1>2. Core /\ OutstandingInv /\ [Next]_vars => OutstandingInv'
  <2> SUFFICES ASSUME Core, OutstandingInv, [Next]_vars PROVE OutstandingInv'
    OBVIOUS
  <2>0. TypeOK
    BY DEF Core, Base
  <2>1. CASE UNCHANGED <<qphase, outstanding, regs>>
    BY <2>1 DEF OutstandingInv, OutstandingOf
  <2>2. ASSUME NEW u \in Unit, NEW R \in SUBSET Sym, NotifyResolved(u, R) PROVE OutstandingInv'
    BY <2>2, NotifyMetOutstanding DEF NotifyResolved
  <2>3. ASSUME NEW s \in Sym, EmitSymbol(s) PROVE OutstandingInv'
    <3>1. ReadyAfter(s) \in SUBSET Sym
      BY <2>0 DEF ReadyAfter, TypeOK, GraphType
    <3> QED
      BY <2>3, <3>1, NotifyMetOutstanding DEF EmitSymbol
  <2>4. ASSUME NEW s \in Sym, FailSymbol(s) PROVE OutstandingInv'
    <3> SUFFICES ASSUME NEW q \in Query PROVE OutstandingOf(q)'
      BY DEF OutstandingInv
    <3>1. UNCHANGED qphase /\ Detach(pending[s])
      BY <2>4 DEF FailSymbol
    <3>2. CASE q \in pending[s]
      <4>1. regs[q] # {} /\ regs'[q] = {}
        BY <3>1, <3>2 DEF Detach, Forgotten, Core, Base, QueryInv, RegistrationsMirrored
      <4>2. qphase[q] \notin {"idle", "matched"}
        BY <4>1 DEF Core, Base, QueryInv, UnlodgedUnregistered
      <4> QED
        BY <3>1, <4>1, <4>2 DEF OutstandingOf
    <3>3. CASE q \notin pending[s]
      BY <3>1, <3>3 DEF Detach, Forgotten, OutstandingInv, OutstandingOf
    <3> QED
      BY <3>2, <3>3
  <2>5. ASSUME NEW p \in Query, LookUp(p) PROVE OutstandingInv'
    <3> SUFFICES ASSUME NEW q \in Query PROVE OutstandingOf(q)'
      BY DEF OutstandingInv
    <3>1. CASE LodgeNotFound(p) /\ q = p
      <4>0. PICK W \in SUBSET Found(q) :
              /\ regs' = [regs EXCEPT ![q] = @ \cup W]
              /\ outstanding' = [outstanding EXCEPT ![q] =
                   (@ \ (Found(q) \ W)) \ (QueryWeak[q] \ Present)]
        BY <3>1 DEF LodgeNotFound, Lodge
      <4>1. /\ qphase'[q] = "unwinding" /\ regs'[q] = W
            /\ outstanding'[q] = (QuerySyms[q] \ (Found(q) \ W)) \ (QueryWeak[q] \ Present)
        BY <2>0, <3>1, <4>0
        DEF LodgeNotFound, OutstandingInv, OutstandingOf, TypeOK, QueryType, Core, Base,
            QueryInv, UnlodgedUnregistered
      <4>2. PICK s \in Required(q) : s \notin Present
        BY <3>1 DEF LodgeNotFound
      <4>3. W \subseteq Present
        BY DEF Found
      <4>4. s \in outstanding'[q] /\ s \notin regs'[q]
        BY <4>1, <4>2, <4>3 DEF Required, Found
      <4> QED
        BY <4>1, <4>4 DEF OutstandingOf
    <3>2. CASE LookupMatched(p) /\ q = p
      BY <2>0, <3>2 DEF LookupMatched, OutstandingInv, OutstandingOf, TypeOK, QueryType
    <3>3. CASE q = p /\ ~ LookupMatched(p) /\ ~ LodgeNotFound(p) /\ ~ MatchAssertFails(p)
      <4>1. qphase'[q] = "issued"
        BY <2>0, <2>5, <3>3
        DEF LookUp, LookupFails, LodgeFails, UnwindLookup, LodgeQuery, TypeOK, QueryType
      <4> QED
        BY <4>1 DEF OutstandingOf
    <3>4. CASE q # p \/ MatchAssertFails(p)
      <4>1. qphase'[q] = qphase[q] /\ outstanding'[q] = outstanding[q] /\ regs'[q] = regs[q]
        BY <2>0, <2>5, <3>4
        DEF LookUp, LookupMatched, LookupFails, LodgeFails, MatchAssertFails, LodgeNotFound, Lodge,
            UnwindLookup, LodgeQuery, Detach, Forgotten, queryVars, TypeOK, QueryType
      <4> QED
        BY <4>1 DEF OutstandingInv, OutstandingOf
    <3> QED
      BY <3>1, <3>2, <3>3, <3>4
  <2> QED
    BY <2>1, <2>2, <2>3, <2>4, <2>5
    DEF Next, LockedStep, Materialize, AtRest, vars, AddDependencies, SkipDependencies,
        DependenciesAssertFails, EmitTrivially, FailTrivially, EraseDoomed, NotifyRefused,
        OL_AddDependencies, NotifyEmitted, NotifyAssertFails, FailMaterialization,
        DestroyResponsibility, DispatchUnit, NotifyComplete, Define, RemoveTracker,
        RemoveAssertFails, queryVars
<1> QED
  BY <1>1, <1>2, CoreCorrect, PTL DEF Spec

\* What a unit still to be defined would define is neither listed by its tracker nor
\* being erased.
NewUnlisted ==
  \A u \in Unit : phase[u] = "new" /\ UnitTracker[u] \in Removable =>
    UnitSyms[u] \cap (trackerSyms[UnitTracker[u]] \cup doomed) = {}

LEMMA NewCorrect ==
  ASSUME DefinedOnce
  PROVE  Spec => []NewUnlisted
<1>1. Init => NewUnlisted
  <2> SUFFICES ASSUME Init, NEW u \in Unit, phase[u] = "new", UnitTracker[u] \in Removable,
                      NEW s \in UnitSyms[u], s \in trackerSyms[UnitTracker[u]]
               PROVE  FALSE
    BY DEF NewUnlisted, Init
  <2>1. UnitTracker[u] \in Tracker \ {DefaultTracker} /\ u \notin Loaded
    BY WorkloadAssumption DEF Init
  <2>2. PICK v \in Loaded : s \in UnitSyms[v]
    BY <2>1 DEF Init
  <2> QED
    BY <2>1, <2>2, WorkloadAssumption DEF DefinedOnce
<1>2. Core /\ ListInv /\ NewUnlisted /\ [Next]_vars => NewUnlisted'
  <2> SUFFICES ASSUME Core, ListInv, NewUnlisted, [Next]_vars, NEW u \in Unit, phase'[u] = "new",
                      UnitTracker[u] \in Removable
               PROVE  UnitSyms[u] \cap (trackerSyms'[UnitTracker[u]] \cup doomed') = {}
    BY DEF NewUnlisted
  <2>0. TypeOK /\ UnitTracker[u] \in Tracker
    BY WorkloadAssumption DEF Core, Base
  <2>1. phase[u] = "new" /\ UnitSyms[u] \cap (trackerSyms[UnitTracker[u]] \cup doomed) = {}
    BY NewStays DEF NewUnlisted
  <2>2. ASSUME NEW v \in Unit, Define(v)
        PROVE  UnitSyms[u] \cap (trackerSyms'[UnitTracker[u]] \cup doomed') = {}
    <3>1. u # v
      BY <2>0, <2>2 DEF Define, TypeOK, UnitType
    <3>2. UnitSyms[u] \cap UnitSyms[v] = {}
      BY <3>1 DEF DefinedOnce
    <3>3. doomed' = doomed /\ trackerSyms' = Tracked(v, Defined(v)) /\ Defined(v) \subseteq UnitSyms[v]
      BY <2>2 DEF Define, lockVars, Defined, ListInv, UnitsFixed
    <3>4. trackerSyms'[UnitTracker[u]] \subseteq trackerSyms[UnitTracker[u]] \cup UnitSyms[v]
      BY <2>0, <3>3 DEF Tracked, TypeOK, TrackerType
    <3> QED
      BY <2>1, <3>2, <3>3, <3>4
  <2>3. ASSUME NEW t \in Tracker, RemoveTracker(t)
        PROVE  UnitSyms[u] \cap (trackerSyms'[UnitTracker[u]] \cup doomed') = {}
    <3>1. /\ doomed' = trackerSyms[t] /\ doomed' \subseteq OfTracker(t)
          /\ trackerSyms'[UnitTracker[u]] \subseteq trackerSyms[UnitTracker[u]]
      BY <2>0, <2>3 DEF RemoveTracker, ListInv, ListsWithin, TypeOK, TrackerType
    <3>2. ASSUME UnitTracker[u] # t, NEW s \in UnitSyms[u], s \in doomed' PROVE FALSE
      <4>1. PICK v \in Unit : UnitTracker[v] = t /\ s \in UnitSyms[v]
        BY <3>1, <3>2 DEF OfTracker
      <4> QED
        BY <3>2, <4>1 DEF DefinedOnce
    <3> QED
      BY <2>1, <3>1, <3>2
  <2>4. CASE trackerSyms' = trackerSyms /\ doomed' \subseteq doomed
    BY <2>1, <2>4
  <2> QED
    BY <2>2, <2>3, <2>4
    DEF Next, LockedStep, Materialize, LookUp, AtRest, vars, AddDependencies, SkipDependencies,
        DependenciesAssertFails, EmitSymbol, EmitTrivially, FailSymbol, FailTrivially, EraseDoomed,
        NotifyResolved, NotifyRefused, OL_AddDependencies, NotifyEmitted, NotifyAssertFails,
        FailMaterialization, DestroyResponsibility, DispatchUnit, LookupMatched, LookupFails,
        LodgeFails, MatchAssertFails, LodgeNotFound, UnwindLookup, LodgeQuery, NotifyComplete,
        RemoveAssertFails, trackerVars, lockVars
<1>3. OverridesApart(Removable)
  BY WorkloadAssumption DEF DefinedOnce, OverridesApart
<1> QED
  BY <1>1, <1>2, <1>3, CoreCorrect, ListCorrect, PTL DEF Spec

\* A symbol out of the table for good: no unit is left to define it.
Gone(s) == symState[s] = Absent /\ \A u \in Unit : s \in UnitSyms[u] => phase[u] # "new"

\* What a lodged query needs and no longer waits for has reached the state it asks
\* for, or is gone.
ReachedOf(q) ==
  qphase[q] = "issued" /\ regs[q] # {} =>
    \A s \in Required(q) \ regs[q] : symState[s] >= QueryState[q] \/ Gone(s)
ReachedInv == \A q \in Query : ReachedOf(q)

LEMMA ReachedStays ==
  ASSUME DefinedOnce, Core, ListInv, OwnInv, NewUnlisted, [Next]_vars,
         NEW s \in Sym, NEW n \in Nat, symState[s] >= n \/ Gone(s)
  PROVE  symState'[s] >= n \/ Gone(s)'
<1>0. TypeOK /\ symState[s] \in 0 .. 5 /\ symState'[s] \in Nat
  <2>1. TypeOK
    BY DEF Core, Base
  <2>2. TypeOK'
    BY <2>1, StepType
  <2> QED
    BY <2>1, <2>2 DEF TypeOK, TableType
<1>1. \A u \in Unit : phase'[u] = "new" => phase[u] = "new"
  BY NewStays
<1>2. CASE symState[s] >= n
  <2>1. CASE symState'[s] >= symState[s]
    BY <1>0, <1>2, <2>1
  <2>2. CASE symState'[s] = Absent /\ s \in doomed
    <3>1. PICK t \in Removable : doomed \subseteq OfTracker(t)
      BY <2>2 DEF ListInv, DoomedWithin
    <3>2. PICK v \in Unit : UnitTracker[v] = t /\ s \in UnitSyms[v]
      BY <2>2, <3>1 DEF OfTracker
    <3>3. phase[v] # "new"
      BY <2>2, <3>1, <3>2 DEF NewUnlisted
    <3>4. \A u \in Unit : s \in UnitSyms[u] => u = v
      BY <3>1, <3>2 DEF DefinedOnce
    <3> QED
      BY <1>1, <2>2, <3>3, <3>4 DEF Gone
  <2> QED
    BY <2>1, <2>2, StateStep
<1>3. CASE Gone(s)
  <2>1. symState'[s] = Absent
    <3>1. ASSUME NEW u \in Unit, Define(u) PROVE symState'[s] = Absent
      <4>1. s \notin Defined(u)
        BY <1>3, <3>1 DEF Gone, Define, Defined, ListInv, UnitsFixed
      <4> QED
        BY <1>3, <3>1, <4>1 DEF Gone, Define
    <3>2. CASE UNCHANGED symState
      BY <1>3, <3>2 DEF Gone
    <3>3. symState[s] = Absent
      BY <1>3 DEF Gone
    <3> QED
      BY <3>1, <3>2, <3>3, AbsentKept
      DEF Next, AtRest, vars, DispatchUnit, NotifyComplete, RemoveTracker, RemoveAssertFails,
          tableVars
  <2> QED
    BY <1>1, <1>3, <2>1 DEF Gone
<1> QED
  BY <1>2, <1>3

\* A step that only shortens the registrations of a lodged query by symbols that it
\* takes to the state the query asks for.
LEMMA ReachedKept ==
  ASSUME DefinedOnce, Core, ListInv, OwnInv, NewUnlisted, ReachedInv, [Next]_vars,
         NEW q \in Query, qphase'[q] = qphase[q], regs'[q] \subseteq regs[q],
         regs'[q] # {} => \A s \in regs[q] \ regs'[q] : symState'[s] >= QueryState[q]
  PROVE  ReachedOf(q)'
<1> SUFFICES ASSUME qphase'[q] = "issued", regs'[q] # {}, NEW s \in Required(q), s \notin regs'[q]
             PROVE  symState'[s] >= QueryState[q] \/ Gone(s)'
  BY DEF ReachedOf, Required
<1>1. s \in Sym /\ QueryState[q] \in Nat
  BY WorkloadAssumption DEF Required
<1>2. CASE s \in regs[q]
  BY <1>2
<1>3. CASE s \notin regs[q]
  BY <1>1, <1>3, ReachedStays DEF ReachedInv, ReachedOf
<1> QED
  BY <1>2, <1>3

\* What a query is told of has the state it is told of.
LEMMA NotifyMetReached ==
  ASSUME DefinedOnce, Core, ListInv, OwnInv, NewUnlisted, OutstandingInv, ReachedInv, [Next]_vars,
         NEW Z \in SUBSET Sym, NEW st \in Nat, \A z \in Z : symState'[z] = st,
         NotifyMet(TakeQueriesMeeting(Z, st)), UNCHANGED qphase, NEW q \in Query
  PROVE  /\ ReachedOf(q)'
         /\ "success" \in due'[q] \ due[q] => \A s \in Required(q) \cup regs[q] :
              symState'[s] >= QueryState[q] \/ symState'[s] = Absent
<1> DEFINE M == MetFor(TakeQueriesMeeting(Z, st), q)
<1>0. QueryState[q] \in Nat
  BY WorkloadAssumption
<1>1. /\ regs'[q] = regs[q] \ M
      /\ "success" \in due'[q] \ due[q] => M # {} /\ outstanding[q] \subseteq M
  BY DEF NotifyMet
<1>2. M = {z \in Z : q \in pending[z] /\ QueryState[q] <= st} /\ M \subseteq regs[q]
  BY MetRegistered
<1> HIDE DEF M
<1>3. \A s \in M : symState'[s] >= QueryState[q]
  BY <1>0, <1>2
<1>4. ReachedOf(q)'
  BY <1>1, <1>3, ReachedKept
<1>5. ASSUME "success" \in due'[q] \ due[q], NEW s \in Required(q) \cup regs[q]
      PROVE  symState'[s] >= QueryState[q] \/ symState'[s] = Absent
  <2>1. M # {} /\ outstanding[q] \subseteq M
    BY <1>1, <1>5
  <2>2. qphase[q] = "issued"
    <3>1. qphase[q] \notin {"idle", "matched"}
      BY <1>2, <2>1 DEF Core, Base, QueryInv, UnlodgedUnregistered
    <3>2. qphase[q] # "unwinding"
      BY <1>2, <2>1 DEF OutstandingInv, OutstandingOf
    <3> QED
      BY <3>1, <3>2 DEF Core, Base, TypeOK, QueryType, QueryPhases
  <2>3. M = regs[q]
    BY <1>2, <2>1, <2>2 DEF Core, Base, QueryInv, RegistrationsMirrored
  <2>4. CASE s \in regs[q]
    BY <1>3, <2>3, <2>4
  <2>5. CASE s \notin regs[q]
    <3>1. s \in Sym /\ s \in Required(q)
      BY <1>5, <2>5, WorkloadAssumption DEF Required
    <3>2. symState[s] >= QueryState[q] \/ Gone(s)
      BY <2>1, <2>2, <2>3, <2>5, <3>1 DEF ReachedInv, ReachedOf
    <3>3. symState'[s] >= QueryState[q] \/ Gone(s)'
      BY <1>0, <3>1, <3>2, ReachedStays
    <3> QED
      BY <3>3 DEF Gone
  <2> QED
    BY <2>4, <2>5
<1> QED
  BY <1>4, <1>5

\* What a lodged lookup does not wait for has the state it asks for already.
LEMMA LodgeReached ==
  ASSUME DefinedOnce, Core, ListInv, OwnInv, NewUnlisted, [Next]_vars,
         NEW q \in Query, LodgeQuery(q), NEW s \in Required(q), s \notin Waiting(q, Found(q))
  PROVE  symState'[s] >= QueryState[q] \/ Gone(s)'
<1>1. s \in Sym /\ QueryState[q] \in Nat /\ symState[s] \in Nat
  BY WorkloadAssumption DEF Required, Core, Base, TypeOK, TableType
<1>2. s \in Found(q)
  BY DEF LodgeQuery, Found, Required
<1>3. symState[s] >= QueryState[q]
  BY <1>1, <1>2 DEF Waiting
<1> QED
  BY <1>1, <1>3, ReachedStays

\* The other steps of a lookup.
LEMMA LookUpReached ==
  ASSUME DefinedOnce, Core, ListInv, OwnInv, NewUnlisted, ReachedInv, [Next]_vars,
         NEW p \in Query, LookUp(p), NEW q \in Query
  PROVE  /\ ReachedOf(q)'
         /\ "success" \in due'[q] \ due[q] => \A s \in Required(q) \cup regs[q] :
              symState'[s] >= QueryState[q] \/ symState'[s] = Absent
<1>0. TypeOK
  BY DEF Core, Base
<1>1. CASE q # p \/ MatchAssertFails(p)
  <2>1. qphase'[q] = qphase[q] /\ regs'[q] = regs[q] /\ due'[q] = due[q]
    BY <1>0, <1>1
    DEF LookUp, LookupMatched, LookupFails, LodgeFails, MatchAssertFails, LodgeNotFound, Lodge,
        UnwindLookup, LodgeQuery, Detach, Forgotten, queryVars, TypeOK, QueryType
  <2> QED
    BY <2>1, ReachedKept
<1>2. CASE q = p /\ LodgeQuery(p)
  <2>0. PICK W : W = Waiting(q, Found(q))
    OBVIOUS
  <2>1. /\ regs[q] = {} /\ regs'[q] = Waiting(q, Found(q))
        /\ "success" \in due'[q] \ due[q] => Waiting(q, Found(q)) = {}
    <3>1. /\ regs' = [regs EXCEPT ![q] = @ \cup W]
          /\ due' = IF W = {} THEN [due EXCEPT ![q] = @ \cup {"success"}] ELSE due
      BY <1>2, <2>0, QueryApart DEF OwnInv, LodgeApart, Lodge
    <3>2. regs[q] = {}
      BY <1>2 DEF LodgeQuery, Core, Base, QueryInv, UnlodgedUnregistered
    <3> QED
      BY <1>0, <2>0, <3>1, <3>2 DEF TypeOK, QueryType
  <2>2. \A s \in Required(q) \ Waiting(q, Found(q)) : symState'[s] >= QueryState[q] \/ Gone(s)'
    BY <1>2, LodgeReached
  <2>3. ReachedOf(q)'
    BY <2>1, <2>2 DEF ReachedOf, Required
  <2> QED
    BY <2>1, <2>2, <2>3 DEF Gone
<1>3. CASE q = p /\ ~ LodgeQuery(p) /\ ~ MatchAssertFails(p)
  <2>1. "success" \notin due'[q] \ due[q]
    BY <1>0, <1>3
    DEF LookUp, LookupMatched, LookupFails, LodgeFails, LodgeNotFound, UnwindLookup, TypeOK,
        QueryType
  <2>2. qphase'[q] # "issued" \/ regs'[q] = {}
    BY <1>0, <1>3
    DEF LookUp, LookupMatched, LookupFails, LodgeFails, LodgeNotFound, UnwindLookup, Detach,
        Forgotten, TypeOK, QueryType
  <2> QED
    BY <2>1, <2>2 DEF ReachedOf
<1> QED
  BY <1>1, <1>2, <1>3

\* What any step does to a query.
LEMMA ReachedStep ==
  ASSUME DefinedOnce, Core, ListInv, OwnInv, NewUnlisted, OutstandingInv, ReachedInv, [Next]_vars,
         NEW q \in Query
  PROVE  /\ ReachedOf(q)'
         /\ "success" \in due'[q] \ due[q] => \A s \in Required(q) \cup regs[q] :
              symState'[s] >= QueryState[q] \/ symState'[s] = Absent
<1>0. TypeOK
  BY DEF Core, Base
<1>1. ASSUME NEW u \in Unit, NEW R \in SUBSET Sym, NotifyResolved(u, R)
      PROVE  /\ ReachedOf(q)'
             /\ "success" \in due'[q] \ due[q] => \A s \in Required(q) \cup regs[q] :
                  symState'[s] >= QueryState[q] \/ symState'[s] = Absent
  <2>1. /\ NotifyMet(TakeQueriesMeeting(R \cap mi, Resolved)) /\ UNCHANGED qphase
        /\ \A z \in R \cap mi : symState'[z] = Resolved
    BY <1>1 DEF NotifyResolved
  <2>2. R \cap mi \in SUBSET Sym /\ Resolved \in Nat
    OBVIOUS
  <2> QED
    BY <2>1, <2>2, NotifyMetReached
<1>2. ASSUME NEW x \in Sym, EmitSymbol(x)
      PROVE  /\ ReachedOf(q)'
             /\ "success" \in due'[q] \ due[q] => \A s \in Required(q) \cup regs[q] :
                  symState'[s] >= QueryState[q] \/ symState'[s] = Absent
  <2>1. NotifyMet(TakeQueriesMeeting(ReadyAfter(x), Ready)) /\ UNCHANGED qphase
    BY <1>2 DEF EmitSymbol
  <2>2. ReadyAfter(x) \in SUBSET Sym /\ Ready \in Nat
    BY <1>0 DEF ReadyAfter, TypeOK, GraphType
  <2>3. \A z \in ReadyAfter(x) : symState'[z] = Ready
    BY <1>2, <2>2 DEF EmitSymbol
  <2> QED
    BY <2>1, <2>2, <2>3, NotifyMetReached
<1>3. ASSUME NEW x \in Sym, FailSymbol(x)
      PROVE  ReachedOf(q)' /\ "success" \notin due'[q] \ due[q]
  <2>1. /\ UNCHANGED qphase
        /\ regs'[q] = IF q \in pending[x] THEN {} ELSE regs[q]
        /\ due'[q] \subseteq due[q] \cup {"failure"}
    BY <1>3 DEF FailSymbol, Detach, Forgotten
  <2>2. ReachedOf(q)'
    BY <2>1, ReachedKept
  <2> QED
    BY <2>1, <2>2
<1>4. ASSUME NEW p \in Query, NEW o \in Outcomes, NotifyComplete(p, o)
      PROVE  ReachedOf(q)' /\ "success" \notin due'[q] \ due[q]
  <2>1. UNCHANGED <<qphase, regs>> /\ due'[q] \subseteq due[q]
    BY <1>0, <1>4 DEF NotifyComplete, TypeOK, QueryType
  <2> QED
    BY <2>1, ReachedKept
<1>5. CASE UNCHANGED <<qphase, regs, due>>
  BY <1>5, ReachedKept
<1> QED
  BY <1>1, <1>2, <1>3, <1>4, <1>5, LookUpReached
  DEF Next, LockedStep, Materialize, AtRest, vars, AddDependencies, SkipDependencies,
      DependenciesAssertFails, EmitTrivially, FailTrivially, EraseDoomed, NotifyRefused,
      OL_AddDependencies, NotifyEmitted, NotifyAssertFails, FailMaterialization,
      DestroyResponsibility, DispatchUnit, Define, RemoveTracker, RemoveAssertFails, queryVars

LEMMA ReachedCorrect ==
  ASSUME DefinedOnce
  PROVE  Spec => []ReachedInv
<1>1. Init => ReachedInv
  BY DEF Init, ReachedInv, ReachedOf
<1>2. /\ Core /\ ListInv /\ OwnInv /\ NewUnlisted /\ OutstandingInv /\ ReachedInv
      /\ [Next]_vars
      => ReachedInv'
  BY ReachedStep DEF ReachedInv
<1>3. OverridesApart(Removable)
  BY WorkloadAssumption DEF DefinedOnce, OverridesApart
<1> QED
  BY <1>1, <1>2, <1>3, CoreCorrect, ListCorrect, OwnCorrect, NewCorrect, OutstandingCorrect, PTL
  DEF Spec

\* A lookup that succeeds has what it asked for: each required symbol has reached the
\* state, or was taken out of the table on the way.
THEOREM CompletionCorrect ==
  ASSUME DefinedOnce
  PROVE  Spec => CompletionMeansReached
<1>1. /\ Core /\ ListInv /\ OwnInv /\ NewUnlisted /\ OutstandingInv /\ ReachedInv
      /\ [Next]_vars
      => [\A q \in Query : "success" \in due'[q] \ due[q] =>
            \A s \in Required(q) \cup regs[q] :
              symState'[s] >= QueryState[q] \/ symState'[s] = Absent]_vars
  BY ReachedStep
<1>2. OverridesApart(Removable)
  BY WorkloadAssumption DEF DefinedOnce, OverridesApart
<1> QED
  BY <1>1, <1>2, CoreCorrect, ListCorrect, OwnCorrect, NewCorrect, OutstandingCorrect,
     ReachedCorrect, PTL DEF Spec, CompletionMeansReached

-----------------------------------------------------------------------------
(***************************************************************************)
(* Readiness.  The session keeps for each symbol the symbols it still      *)
(* waits for, one emission at a time; without removals this is readiness   *)
(* of everything the symbol depends on.                                    *)
(***************************************************************************)

\* The loop of addDependencies registers dependences of symbols that are being
\* materialized: those a responsibility covers, its link being under way.
LinkInv == \A q \in Query, u \in Unit :
  qphase[q] = "matched" /\ LinkQuery[u] = q =>
    phase[u] = "running" \/ (phase[u] # "new" /\ usyms[u] = {})
RegisteringInv == section = "deps" => \A n \in todo : symState[n] \in {Materializing, Resolved}

\* A symbol that waits for another one has been started.
WaitersMoving == \A x \in Sym : unemitted[x] # {} => symState[x] >= Materializing

\* Failed symbols are being materialized or emitted, are not emitted now, and leave
\* the graph when they are emitted already.
FailedInv ==
  /\ \A s \in hasError : symState[s] \in Materializing .. Emitted
  /\ section = "emit" => todo \cap hasError = {}
  /\ section = "fail" => \A s \in todo : symState[s] \in {Materializing, Resolved} \/ s \in hasError
  /\ \A s \in mi \cap hasError : symState[s] = Emitted => section = "fail" /\ s \in todo

MovingInv == LinkInv /\ RegisteringInv /\ WaitersMoving /\ FailedInv

\* A responsibility stays until its symbols are emitted or failed, and no unit
\* gains symbols.
LEMMA RunningStays ==
  ASSUME Core, [Next]_vars, NEW u \in Unit
  PROVE  /\ usyms'[u] \subseteq usyms[u]
         /\ phase[u] # "new" => phase'[u] # "new"
         /\ phase[u] = "running" => phase'[u] = "running" \/ usyms'[u] = {}
<1>0. TypeOK
  BY DEF Core, Base
<1>1. ASSUME NEW v \in Unit, Materialize(v)
      PROVE  /\ usyms'[u] \subseteq usyms[u]
             /\ phase[u] # "new" => phase'[u] # "new"
             /\ phase[u] = "running" => phase'[u] = "running" \/ usyms'[u] = {}
  BY <1>0, <1>1
  DEF Materialize, NotifyResolved, NotifyRefused, OL_AddDependencies, NotifyEmitted,
      NotifyAssertFails, FailMaterialization, DestroyResponsibility, unitVars, TypeOK, UnitType
<1>2. ASSUME NEW v \in Unit, Define(v)
      PROVE  /\ usyms'[u] \subseteq usyms[u]
             /\ phase[u] # "new" => phase'[u] # "new"
             /\ phase[u] = "running" => phase'[u] = "running" \/ usyms'[u] = {}
  <2>1. CASE u = v
    BY <1>0, <1>2, <2>1 DEF Define, Defined, TypeOK, UnitType
  <2>2. CASE u # v
    <3>1. usyms'[u] \subseteq usyms[u] /\ phase'[u] \in {phase[u], "lost"}
      BY <1>2, <2>2 DEF Define
    <3>2. phase[u] = "running" => phase'[u] = "running"
      BY <1>2, <2>2, DefineRest
    <3> QED
      BY <3>1, <3>2
  <2> QED
    BY <2>1, <2>2
<1>3. ASSUME NEW q \in Query, LookUp(q)
      PROVE  /\ UNCHANGED usyms
             /\ phase[u] # "new" => phase'[u] # "new"
             /\ phase[u] = "running" => phase'[u] = "running"
  BY <1>3, LookUpUnits
<1>4. CASE EraseDoomed \/ \E v \in Unit : DispatchUnit(v)
  BY <1>0, <1>4, OrphanedDefined DEF EraseDoomed, DispatchUnit, TypeOK, UnitType
<1>5. CASE UNCHANGED unitVars
  BY <1>5 DEF unitVars
<1> QED
  BY <1>1, <1>2, <1>3, <1>4, <1>5
  DEF Next, LockedStep, AtRest, vars, AddDependencies, SkipDependencies, DependenciesAssertFails,
      EmitSymbol, EmitTrivially, FailSymbol, FailTrivially, NotifyComplete, RemoveTracker,
      RemoveAssertFails

LEMMA LinkStep ==
  ASSUME Core, LinkInv, [Next]_vars
  PROVE  LinkInv'
<1> SUFFICES ASSUME NEW q \in Query, NEW u \in Unit,
                    qphase'[q] = "matched", LinkQuery[u] = q
             PROVE  phase'[u] = "running" \/ (phase'[u] # "new" /\ usyms'[u] = {})
  BY DEF LinkInv
<1>0. TypeOK
  BY DEF Core, Base
<1>1. CASE qphase[q] = "matched"
  <2>1. \/ phase[u] = "running" /\ phase[u] # "new"
        \/ phase[u] # "new" /\ usyms[u] = {}
    BY <1>1 DEF LinkInv
  <2> QED
    BY <2>1, RunningStays
<1>2. CASE qphase[q] # "matched"
  <2>1. ASSUME NEW p \in Query, LookUp(p) PROVE p = q /\ LookupMatched(p)
    BY <1>0, <1>2, <2>1
    DEF LookUp, LookupMatched, LookupFails, LodgeFails, MatchAssertFails, LodgeNotFound,
        UnwindLookup, LodgeQuery, queryVars, TypeOK, QueryType
  <2>2. UNCHANGED qphase => FALSE
    BY <1>2
  <2>3. LookupMatched(q)
    BY <2>1, <2>2
    DEF Next, LockedStep, Materialize, AtRest, vars, AddDependencies, SkipDependencies,
        DependenciesAssertFails, EmitSymbol, EmitTrivially, FailSymbol, FailTrivially,
        EraseDoomed, NotifyResolved, NotifyRefused, OL_AddDependencies, NotifyEmitted,
        NotifyAssertFails, FailMaterialization, DestroyResponsibility, DispatchUnit,
        NotifyComplete, Define, RemoveTracker, RemoveAssertFails, queryVars
  <2> QED
    BY <2>3 DEF LookupMatched, MayLookUp, Active, unitVars
<1> QED
  BY <1>1, <1>2

\* Steps that mark nothing failed, start or define symbols at most, and take the
\* lock for symbols fit for the loop.
LEMMA MovingKept ==
  ASSUME RegisteringInv, WaitersMoving, FailedInv, symState \in [Sym -> SymbolState],
         hasError \subseteq Sym, UNCHANGED <<hasError, unemitted>>, mi' \cap hasError \subseteq mi,
         \A s \in Sym : \/ symState'[s] = symState[s]
                        \/ symState[s] \in {NeverSearched, Materializing} /\ symState'[s] \in {Materializing, Resolved}
                        \/ symState[s] \in {Absent, NeverSearched} /\ symState'[s] \in {NeverSearched, Materializing},
         section # "fail" \/ (section' = section /\ todo' = todo),
         section' = "deps" => \A n \in todo' : symState'[n] \in {Materializing, Resolved},
         section' = "emit" => todo' \cap hasError = {},
         section' = "fail" => \A s \in todo' : symState'[s] \in {Materializing, Resolved} \/ s \in hasError
  PROVE  RegisteringInv' /\ WaitersMoving' /\ FailedInv'
<1>1. RegisteringInv'
  BY DEF RegisteringInv
<1>2. WaitersMoving'
  BY DEF WaitersMoving
<1>3. \A s \in hasError : symState[s] \in Materializing .. Emitted /\ symState'[s] \in Materializing .. Emitted
  BY DEF FailedInv
<1>4. \A s \in mi' \cap hasError : symState'[s] = Emitted => symState[s] = Emitted /\ s \in mi
  BY <1>3
<1>5. FailedInv'
  BY <1>3, <1>4 DEF FailedInv
<1> QED
  BY <1>1, <1>2, <1>5

LEMMA AddDependenciesMoving ==
  ASSUME Core, MovingInv, NEW n \in Sym, AddDependencies(n)
  PROVE  RegisteringInv' /\ WaitersMoving' /\ FailedInv'
<1>0. TypeOK /\ symState \in [Sym -> SymbolState]
  BY DEF Core, Base, TypeOK, TableType
<1>1. /\ section = "deps" /\ n \in todo /\ UNCHANGED symState /\ n \notin hasError
      /\ section' \in {"deps", "free"} /\ todo' = todo \ {n}
      /\ hasError' \subseteq hasError \cup {n} /\ hasError \subseteq hasError'
      /\ mi' = mi \cup {n} \cup InFlight(newDeps)
      /\ \A x \in Sym \ {n} : unemitted'[x] = unemitted[x]
  BY <1>0 DEF AddDependencies, Continue, TypeOK, GraphType
<1>2. symState[n] \in {Materializing, Resolved}
  BY <1>1 DEF MovingInv, RegisteringInv
<1>3. InFlight(newDeps) \cap hasError = {}
  BY DEF InFlight
<1>4. RegisteringInv'
  BY <1>1 DEF MovingInv, RegisteringInv
<1>5. WaitersMoving'
  BY <1>0, <1>1, <1>2 DEF MovingInv, WaitersMoving
<1>6. FailedInv'
  BY <1>1, <1>2, <1>3 DEF MovingInv, FailedInv
<1> QED
  BY <1>4, <1>5, <1>6

LEMMA EmitMoving ==
  ASSUME Core, MovingInv, NEW s \in Sym, EmitSymbol(s) \/ EmitTrivially(s)
  PROVE  RegisteringInv' /\ WaitersMoving' /\ FailedInv'
<1>0. TypeOK /\ symState \in [Sym -> SymbolState] /\ symState' \in [Sym -> SymbolState]
  <2>1. TypeOK
    BY DEF Core, Base
  <2>2. symState' \in [Sym -> SymbolState]
    BY <2>1 DEF TypeOK, TableType, EmitSymbol, EmitTrivially
  <2> QED
    BY <2>1, <2>2 DEF TypeOK, TableType
<1>1. /\ section = "emit" /\ s \in todo /\ UNCHANGED hasError /\ mi' \subseteq mi
      /\ section' \in {"emit", "free"} /\ todo' = todo \ {s}
  BY DEF EmitSymbol, EmitTrivially, Continue, graphVars
<1>2. s \notin hasError /\ symState[s] = Resolved
  BY <1>1 DEF MovingInv, FailedInv, Core, Base, TableInv, EmitsResolved
<1>3. \A x \in Sym : /\ symState'[x] # symState[x] => x = s \/ (symState[x] = Emitted /\ x \in mi /\ x \notin mi' /\ symState'[x] = Ready)
                     /\ symState'[x] >= symState[x]
  <2>1. CASE EmitSymbol(s)
    <3>1. \A x \in dependants[s] : x \in mi
      <4>1. \A x \in dependants[s] : x \in Sym /\ s \in unemitted[x]
        BY <1>0 DEF Core, Base, GraphInv, DepsMirrored, TypeOK, GraphType
      <4> QED
        BY <4>1 DEF Core, Base, GraphInv, InfoOfNodes
    <3> QED
      BY <1>0, <1>2, <2>1, <3>1 DEF EmitSymbol, ReadyAfter
  <2>2. CASE EmitTrivially(s)
    BY <1>0, <1>2, <2>2 DEF EmitTrivially
  <2> QED
    BY <2>1, <2>2
<1>4. \A x \in Sym : unemitted'[x] # {} => unemitted[x] # {}
  <2>1. CASE EmitSymbol(s)
    <3>1. \A x \in dependants[s] : x \in Sym => s \in unemitted[x]
      BY DEF Core, Base, GraphInv, DepsMirrored
    <3> QED
      BY <2>1, <3>1 DEF EmitSymbol, UnemittedAfter
  <2>2. CASE EmitTrivially(s)
    BY <2>2 DEF EmitTrivially, graphVars
  <2> QED
    BY <2>1, <2>2
<1>5. \A x \in hasError : x \in Sym /\ x # s /\ symState[x] \in Materializing .. Emitted
  BY <1>0, <1>2 DEF MovingInv, FailedInv, TypeOK, TableType
<1>6. \A x \in mi \cap hasError : symState[x] # Emitted
  BY <1>1 DEF MovingInv, FailedInv
<1>7. RegisteringInv'
  BY <1>1 DEF RegisteringInv
<1>8. WaitersMoving'
  BY <1>0, <1>3, <1>4 DEF MovingInv, WaitersMoving
<1>9. \A x \in hasError : symState'[x] = symState[x]
  BY <1>3, <1>5, <1>6
<1>10. FailedInv'
  BY <1>1, <1>5, <1>6, <1>9 DEF MovingInv, FailedInv
<1> QED
  BY <1>7, <1>8, <1>10

\* What fails with a symbol is what waits for it, and was started before.
LEMMA FailMoving ==
  ASSUME Core, MovingInv, section = "fail", NEW s \in Sym, FailSymbol(s) \/ FailTrivially(s)
  PROVE  RegisteringInv' /\ WaitersMoving' /\ FailedInv'
<1>0. TypeOK /\ symState \in [Sym -> SymbolState]
  BY DEF Core, Base, TypeOK, TableType
<1>1. /\ s \in todo /\ UNCHANGED symState /\ hasError \subseteq hasError'
      /\ \A x \in Sym : unemitted'[x] \subseteq unemitted[x]
  BY DEF FailSymbol, FailTrivially, UnemittedWithout, graphVars
<1>2. symState[s] \in Materializing .. Emitted
  BY <1>1 DEF MovingInv, FailedInv
<1>3. \A x \in dependants[s] : x \in Sym /\ x \in mi /\ symState[x] \in Materializing .. Emitted
  <2> SUFFICES ASSUME NEW x \in dependants[s]
               PROVE  x \in Sym /\ x \in mi /\ symState[x] \in Materializing .. Emitted
    OBVIOUS
  <2>1. x \in Sym /\ s \in unemitted[x]
    BY <1>0 DEF Core, Base, GraphInv, DepsMirrored, TypeOK, GraphType
  <2>2. x \in mi
    BY <2>1 DEF Core, Base, GraphInv, InfoOfNodes
  <2>3. symState[x] \in NeverSearched .. Emitted
    BY <2>1, <2>2, InfoPresent
  <2> QED
    BY <2>1, <2>2, <2>3 DEF MovingInv, WaitersMoving
<1>4. WaitersMoving'
  BY <1>1 DEF MovingInv, WaitersMoving
<1>5. CASE FailSymbol(s)
  <2>1. /\ hasError' = hasError \cup {s} \cup dependants[s] /\ mi' = mi \ {s}
        /\ todo' = (todo \ {s}) \cup Cascade(s)
        /\ section' = IF todo' = {} THEN "free" ELSE "fail"
    BY <1>5 DEF FailSymbol, Continue
  <2>2. RegisteringInv'
    BY <2>1 DEF RegisteringInv
  <2>3. Cascade(s) \subseteq hasError'
    BY <2>1 DEF Cascade
  <2>4. \A x \in hasError' : symState[x] \in Materializing .. Emitted
    BY <1>2, <1>3, <2>1 DEF MovingInv, FailedInv
  <2>5. \A x \in mi' \cap hasError' : symState[x] = Emitted => x \in todo'
    BY <1>3, <2>1 DEF MovingInv, FailedInv, Cascade
  <2>6. FailedInv'
    BY <1>1, <2>1, <2>3, <2>4, <2>5 DEF MovingInv, FailedInv
  <2> QED
    BY <1>4, <2>2, <2>6
<1>6. CASE FailTrivially(s)
  <2>1. /\ hasError' = hasError \cup {s} /\ UNCHANGED mi /\ s \notin mi
        /\ todo' = todo \ {s}
        /\ section' = IF todo' = {} THEN "free" ELSE "fail"
    BY <1>2, <1>6 DEF FailTrivially, Continue, graphVars
  <2>2. RegisteringInv'
    BY <2>1 DEF RegisteringInv
  <2>3. FailedInv'
    BY <1>1, <1>2, <2>1 DEF MovingInv, FailedInv
  <2> QED
    BY <1>4, <2>2, <2>3
<1> QED
  BY <1>5, <1>6

LEMMA MaterializeMoving ==
  ASSUME Core, OwnInv, SettledInv, MovingInv, NEW u \in Unit, Materialize(u)
  PROVE  RegisteringInv' /\ WaitersMoving' /\ FailedInv'
<1>0. TypeOK /\ symState \in [Sym -> SymbolState] /\ hasError \subseteq Sym /\ usyms[u] \subseteq Sym
  BY DEF Core, Base, TypeOK, TableType, UnitType
<1>1. UNCHANGED <<hasError, graphVars>> /\ section = "free"
  BY DEF Materialize, NotifyResolved, NotifyRefused, OL_AddDependencies, NotifyEmitted,
     NotifyAssertFails, FailMaterialization, DestroyResponsibility, Unlocked, tableVars
<1>2. phase[u] = "running" => \A s \in usyms[u] : symState[s] \in {Materializing, Resolved}
  BY <1>0 DEF OwnInv, HeldMoving, Holding, Live, SettledInv, LiveUnderTracker
<1>3. \A s \in Sym : symState'[s] = symState[s]
                     \/ (symState[s] = Materializing /\ symState'[s] = Resolved)
  <2>1. ASSUME NEW R \in SUBSET Sym, NotifyResolved(u, R)
        PROVE  \A s \in Sym : symState'[s] = symState[s]
                              \/ (symState[s] = Materializing /\ symState'[s] = Resolved)
    BY <2>1 DEF NotifyResolved
  <2> QED
    BY <2>1
    DEF Materialize, NotifyRefused, OL_AddDependencies, NotifyEmitted, NotifyAssertFails,
        FailMaterialization, DestroyResponsibility, tableVars
<1>4. CASE section' = "deps"
  <2>1. PICK n \in Sym, D \in Declarable : OL_AddDependencies(u, n, D)
    BY <1>1, <1>4
    DEF Materialize, NotifyResolved, NotifyRefused, NotifyEmitted, NotifyAssertFails,
        FailMaterialization, DestroyResponsibility, lockVars
  <2>2. \A x \in todo' : x \in Sym /\ symState'[x] \in {Materializing, Resolved}
    BY <1>2, <2>1 DEF OL_AddDependencies, Active, tableVars
  <2> QED
    BY <1>0, <1>1, <1>3, <1>4, <2>2, MovingKept DEF MovingInv, graphVars
<1>5. CASE section' = "emit"
  <2>1. NotifyEmitted(u)
    BY <1>1, <1>5
    DEF Materialize, NotifyResolved, NotifyRefused, OL_AddDependencies, NotifyAssertFails,
        FailMaterialization, DestroyResponsibility, lockVars
  <2>2. todo' \cap hasError = {}
    BY <2>1 DEF NotifyEmitted, Refused
  <2> QED
    BY <1>0, <1>1, <1>3, <1>5, <2>2, MovingKept DEF MovingInv, graphVars
<1>6. CASE section' = "fail"
  <2>1. FailMaterialization(u)
    BY <1>1, <1>6
    DEF Materialize, NotifyResolved, NotifyRefused, OL_AddDependencies, NotifyAssertFails,
        NotifyEmitted, DestroyResponsibility, lockVars
  <2>2. \A s \in todo' : symState'[s] \in {Materializing, Resolved}
    BY <1>1, <1>2, <1>6, <2>1 DEF FailMaterialization, tableVars
  <2> QED
    BY <1>0, <1>1, <1>3, <1>6, <2>2, MovingKept DEF MovingInv, graphVars
<1>7. CASE section' \notin {"deps", "emit", "fail"}
  BY <1>0, <1>1, <1>3, <1>7, MovingKept DEF MovingInv, graphVars
<1> QED
  BY <1>4, <1>5, <1>6, <1>7

\* A lookup starts symbols that are not started yet.
LEMMA StartedMoving ==
  ASSUME Core, OwnInv, NEW W \in SUBSET Sym, symState' = Started(Collected(W)), NEW s \in Sym
  PROVE  \/ symState'[s] = symState[s]
         \/ symState[s] \in {NeverSearched, Materializing} /\ symState'[s] = Materializing
<1>1. CASE s \in Covered(Collected(W))
  <2>1. PICK u \in Collected(W) : s \in usyms[u]
    BY <1>1 DEF Covered
  <2>2. u \in Unit /\ phase[u] = "defined"
    BY CollectedDefined
  <2>3. s \in attached
    BY <2>1, <2>2 DEF OwnInv, DefinedAttached
  <2>4. symState[s] \in {NeverSearched, Materializing}
    BY <2>3 DEF Core, Base, TableInv, AttachedHasUnit
  <2> QED
    BY <1>1, <2>4 DEF Started
<1>2. CASE s \notin Covered(Collected(W))
  BY <1>2 DEF Started
<1> QED
  BY <1>1, <1>2

\* A lookup leaves the table and the MaterializingInfos, or starts the units of the symbols
\* it waits for: none of them has failed.
LEMMA LookUpSwept ==
  ASSUME Core, OwnInv, NEW q \in Query, LookUp(q)
  PROVE  \/ UNCHANGED <<symState, mi>>
         \/ \E W \in SUBSET Sym : /\ symState' = Started(Collected(W)) /\ mi' = mi \cup W
                                  /\ W \cap hasError = {}
<1>0. (\A S \in SUBSET Sym : Waiting(q, S) \in SUBSET Sym) /\ Found(q) \in SUBSET Sym
  BY WorkloadAssumption DEF Waiting, Found
<1>1. ASSUME NEW S \in SUBSET Sym, LodgeFails(q, S)
      PROVE  \E W \in SUBSET Sym : /\ symState' = Started(Collected(W)) /\ mi' = mi \cup W
                                   /\ W \cap hasError = {}
  <2>1. PICK W : W = Waiting(q, S)
    OBVIOUS
  <2>2. W \in SUBSET Sym /\ W \cap hasError = {}
    BY <1>0, <1>1, <2>1 DEF LodgeFails, Waiting
  <2> QED
    BY <1>1, <2>1, <2>2, PutBackApart DEF OwnInv
<1>2. ASSUME LodgeNotFound(q) \/ LodgeQuery(q)
      PROVE  \E W \in SUBSET Sym : /\ symState' = Started(Collected(W)) /\ mi' = mi \cup W
                                   /\ W \cap hasError = {}
  <2>1. PICK W : W = Waiting(q, Found(q))
    OBVIOUS
  <2>2. symState' = Started(Collected(W)) /\ mi' = mi \cup W
    BY <1>2, <2>1, NotFoundApart, QueryApart DEF OwnInv, LodgeApart, Lodge
  <2>3. W \in SUBSET Sym /\ W \cap hasError = {}
    BY <1>0, <1>2, <2>1 DEF LodgeNotFound, LodgeQuery, Waiting, InError
  <2> QED
    BY <2>2, <2>3
<1>3. CASE UNCHANGED <<symState, mi>>
  BY <1>3
<1> QED
  BY <1>0, <1>1, <1>2, <1>3
  DEF LookUp, LookupMatched, LookupFails, MatchAssertFails, UnwindLookup, tableVars, graphVars

LEMMA LookUpMoving ==
  ASSUME Core, OwnInv, SettledInv, MovingInv, NEW q \in Query, LookUp(q)
  PROVE  RegisteringInv' /\ WaitersMoving' /\ FailedInv'
<1>0. /\ TypeOK /\ symState \in [Sym -> SymbolState] /\ hasError \subseteq Sym
      /\ usyms \in [Unit -> SUBSET Sym]
  BY DEF Core, Base, TypeOK, TableType, UnitType
<1>1. /\ UNCHANGED <<hasError, unemitted>> /\ section = "free"
      /\ section' \notin {"emit", "fail"}
  BY DEF LookUp, LookupMatched, LookupFails, LodgeFails, MatchAssertFails, LodgeNotFound,
     UnwindLookup, LodgeQuery, Unlocked, tableVars, graphVars, lockVars
<1>3. \/ UNCHANGED <<symState, mi>>
      \/ \E W \in SUBSET Sym : /\ symState' = Started(Collected(W)) /\ mi' = mi \cup W
                               /\ W \cap hasError = {}
  BY LookUpSwept
<1>4. \A s \in Sym : \/ symState'[s] = symState[s]
                     \/ symState[s] \in {NeverSearched, Materializing} /\ symState'[s] = Materializing
  BY <1>3, StartedMoving
<1>5. mi' \cap hasError \subseteq mi
  BY <1>3
<1>6. section' = "deps" => \A n \in todo' : symState'[n] \in {Materializing, Resolved}
  <2> SUFFICES ASSUME section' = "deps", NEW n \in todo'
               PROVE  symState'[n] \in {Materializing, Resolved}
    OBVIOUS
  <2>1. LodgeQuery(q)
    BY <1>1
    DEF LookUp, LookupMatched, LookupFails, LodgeFails, MatchAssertFails, LodgeNotFound,
        UnwindLookup, lockVars
  <2>2. PICK u \in Unit : LinkQuery[u] = q /\ n \in usyms[u]
    BY <1>1, <2>1 DEF LodgeQuery, Linked
  <2>3. n \in Sym /\ phase[u] = "running"
    BY <1>0, <2>1, <2>2 DEF LodgeQuery, MovingInv, LinkInv
  <2>4. symState[n] \in {Materializing, Resolved}
    BY <2>2, <2>3 DEF OwnInv, HeldMoving, Holding, Live, SettledInv, LiveUnderTracker
  <2> QED
    BY <1>4, <2>3, <2>4
<1> QED
  BY <1>0, <1>1, <1>4, <1>5, <1>6, MovingKept DEF MovingInv

LEMMA DefineMoving ==
  ASSUME Core, MovingInv, NEW u \in Unit, Define(u)
  PROVE  RegisteringInv' /\ WaitersMoving' /\ FailedInv'
<1>0. TypeOK /\ symState \in [Sym -> SymbolState] /\ hasError \subseteq Sym
  BY DEF Core, Base, TypeOK, TableType
<1>1. Defined(u) \subseteq Sym /\ \A s \in Defined(u) : symState[s] \in {Absent, NeverSearched}
  BY <1>0 DEF Define, Duplicates, Defined, Existing, Present, TypeOK, UnitType
<1>2. /\ UNCHANGED graphVars /\ section = "free" /\ section' = "free"
      /\ hasError' = hasError \ Defined(u)
      /\ \A s \in Sym : symState'[s] = IF s \in Defined(u) THEN NeverSearched ELSE symState[s]
  BY DEF Define, Unlocked, lockVars
<1>3. hasError' = hasError
  BY <1>1, <1>2 DEF MovingInv, FailedInv
<1> QED
  BY <1>0, <1>1, <1>2, <1>3, MovingKept DEF MovingInv, graphVars

LEMMA MovingStep ==
  ASSUME Removable = {}, Core, OwnInv, SettledInv, MovingInv, [Next]_vars
  PROVE  MovingInv'
<1>0. symState \in [Sym -> SymbolState] /\ hasError \subseteq Sym
  BY DEF Core, Base, TypeOK, TableType
<1>1. CASE UNCHANGED <<tableVars, graphVars, lockVars>>
  <2>1. RegisteringInv' /\ WaitersMoving' /\ FailedInv'
    BY <1>0, <1>1, MovingKept DEF MovingInv, RegisteringInv, FailedInv, tableVars, graphVars, lockVars
  <2> QED
    BY <2>1, LinkStep DEF MovingInv
<1>2. ASSUME NEW n \in Sym, SkipDependencies(n) \/ DependenciesAssertFails(n)
      PROVE  RegisteringInv' /\ WaitersMoving' /\ FailedInv'
  <2>1. /\ UNCHANGED <<tableVars, graphVars>> /\ section = "deps"
        /\ section' \in {"deps", "free", "aborted"} /\ todo' \subseteq todo
    BY <1>2 DEF SkipDependencies, DependenciesAssertFails, Continue
  <2> QED
    BY <1>0, <2>1, MovingKept DEF MovingInv, RegisteringInv, tableVars, graphVars
<1>3. ASSUME NEW s \in Sym, FailSymbol(s) \/ FailTrivially(s)
      PROVE  RegisteringInv' /\ WaitersMoving' /\ FailedInv'
  BY <1>3, FailMoving DEF FailSymbol, FailTrivially, SettledInv, PeacefulInv
<1>4. \A t \in Tracker : ~ RemoveTracker(t) /\ ~ RemoveAssertFails(t)
  BY DEF RemoveTracker, RemoveAssertFails
<1>5. ~ EraseDoomed
  BY DEF EraseDoomed, SettledInv, PeacefulInv
<1>6. LinkInv'
  BY LinkStep DEF MovingInv
<1>7. CASE ~ UNCHANGED <<tableVars, graphVars, lockVars>>
  <2>1. RegisteringInv' /\ WaitersMoving' /\ FailedInv'
    BY <1>2, <1>3, <1>4, <1>5, <1>7, AddDependenciesMoving, EmitMoving, MaterializeMoving,
       LookUpMoving, DefineMoving
    DEF Next, LockedStep, AtRest, vars, DispatchUnit, NotifyComplete
  <2> QED
    BY <1>6, <2>1 DEF MovingInv
<1> QED
  BY <1>1, <1>7

LEMMA MovingInit ==
  ASSUME Init
  PROVE  MovingInv
  BY DEF Init, MovingInv, LinkInv, RegisteringInv, WaitersMoving, FailedInv

LEMMA MovingCorrect ==
  ASSUME Removable = {}
  PROVE  Spec => []MovingInv
<1>1. OverridesApart(Removable)
  BY DEF OverridesApart
<1> QED
  BY <1>1, MovingInit, MovingStep, CoreCorrect, OwnCorrect, SettledCorrect, PTL DEF Spec

\* What a symbol waits for it depends on, directly or through others; and all that
\* it depends on it waits for, at once or by way of an emitted dependence, unless it
\* is ready.
ClosedUnder(S, f) == \A x \in S : f[x] \subseteq S
WaitsSound == \A S \in SUBSET Sym : ClosedUnder(S, declared) => ClosedUnder(S, unemitted)
WaitsFor(x, d) ==
  \/ symState[d] = Ready
  \/ d \in unemitted[x]
  \/ symState[d] = Emitted /\ d \notin hasError /\ unemitted[d] \subseteq unemitted[x] \cup {x}
WaitsComplete == \A x \in Sym \ hasError : \A d \in declared[x] : WaitsFor(x, d)

LEMMA WaitsKept ==
  ASSUME WaitsSound, WaitsComplete, UNCHANGED <<unemitted, declared, hasError>>,
         declared \in [Sym -> SUBSET Sym],
         \A s \in Sym : symState[s] \in {Emitted, Ready} => symState'[s] = symState[s]
  PROVE  WaitsSound' /\ WaitsComplete'
<1>1. WaitsSound'
  BY DEF WaitsSound, ClosedUnder
<1>2. WaitsComplete'
  BY DEF WaitsComplete, WaitsFor
<1> QED
  BY <1>1, <1>2

\* The dependences of n are registered once each, those of an emitted dependence
\* in its stead.
LEMMA AddDependenciesWaits ==
  ASSUME Core, MovingInv, WaitsSound, WaitsComplete, NEW n \in Sym, AddDependencies(n)
  PROVE  WaitsSound' /\ WaitsComplete'
<1>0. TypeOK /\ newDeps \subseteq Sym /\ unemitted \in [Sym -> SUBSET Sym] /\ declared \in [Sym -> SUBSET Sym]
  BY DEF Core, Base, TypeOK, LockType, GraphType, HistoryType
<1>1. /\ UNCHANGED symState /\ n \in todo /\ section = "deps" /\ n \notin hasError
      /\ unemitted'[n] = unemitted[n] \cup NewEdges(n)
      /\ \A x \in Sym \ {n} : unemitted'[x] = unemitted[x] /\ declared'[x] = declared[x]
      /\ declared'[n] = declared[n] \cup (newDeps \ {n})
      /\ hasError' = IF \E d \in newDeps : symState[d] # Ready /\ d \in hasError
                     THEN hasError \cup {n} ELSE hasError
  BY <1>0 DEF AddDependencies
<1>2. symState[n] \in {Materializing, Resolved}
  BY <1>1 DEF MovingInv, RegisteringInv
<1>3. WaitsSound'
  <2> SUFFICES ASSUME NEW S \in SUBSET Sym, ClosedUnder(S, declared'), NEW x \in S
               PROVE  unemitted'[x] \subseteq S
    BY DEF WaitsSound, ClosedUnder
  <2>1. \A y \in S : declared[y] \subseteq S
    BY <1>1 DEF ClosedUnder
  <2>2. \A y \in S : unemitted[y] \subseteq S
    BY <2>1 DEF WaitsSound, ClosedUnder
  <2>3. CASE x = n
    <3>1. newDeps \subseteq S
      BY <1>1, <2>3 DEF ClosedUnder
    <3>2. \A d \in InFlight(newDeps) : d \in S
      BY <3>1 DEF InFlight
    <3>3. NewEdges(n) \subseteq S
      BY <2>2, <3>2 DEF NewEdges
    <3> QED
      BY <1>1, <2>2, <2>3, <3>3
  <2>4. CASE x # n
    BY <1>1, <2>2, <2>4
  <2> QED
    BY <2>3, <2>4
<1>4. WaitsComplete'
  <2> SUFFICES ASSUME NEW x \in Sym, x \notin hasError', NEW d \in declared'[x]
               PROVE  WaitsFor(x, d)'
    BY DEF WaitsComplete
  <2>1. x \notin hasError /\ d \in Sym
    BY <1>0, <1>1
  <2>2. symState[d] = Emitted => d # n /\ (d \in hasError' => d \in hasError) /\ unemitted'[d] = unemitted[d]
    BY <1>1, <1>2, <2>1
  <2>3. CASE d \in declared[x]
    <3>1. WaitsFor(x, d)
      BY <2>1, <2>3 DEF WaitsComplete
    <3>2. unemitted[x] \subseteq unemitted'[x]
      BY <1>1
    <3> QED
      BY <1>1, <2>2, <3>1, <3>2 DEF WaitsFor
  <2>4. CASE d \notin declared[x]
    <3>1. x = n /\ d \in newDeps /\ d # n
      BY <1>1, <2>4
    <3>2. \A e \in newDeps : symState[e] # Ready => e \notin hasError
      BY <1>1, <3>1
    <3>3. CASE symState[d] = Ready
      BY <1>1, <3>3 DEF WaitsFor
    <3>4. CASE symState[d] # Ready /\ symState[d] # Emitted
      <4>1. d \in NewEdges(n)
        BY <3>1, <3>2, <3>4 DEF NewEdges, InFlight
      <4> QED
        BY <1>1, <3>1, <4>1 DEF WaitsFor
    <3>5. CASE symState[d] = Emitted
      <4>1. d \in InFlight(newDeps) /\ d \notin hasError
        BY <3>1, <3>2, <3>5 DEF InFlight
      <4>2. unemitted[d] \subseteq NewEdges(n) \cup {n}
        BY <3>5, <4>1 DEF NewEdges
      <4> QED
        BY <1>1, <2>2, <3>1, <3>5, <4>1, <4>2 DEF WaitsFor
    <3> QED
      BY <3>3, <3>4, <3>5
  <2> QED
    BY <2>3, <2>4
<1> QED
  BY <1>3, <1>4

\* When s is emitted, what waited for it waits for what it waits for.
LEMMA EmitSymbolWaits ==
  ASSUME Core, MovingInv, WaitsSound, WaitsComplete, NEW s \in Sym, EmitSymbol(s)
  PROVE  WaitsSound' /\ WaitsComplete'
<1>0. /\ TypeOK /\ unemitted \in [Sym -> SUBSET Sym] /\ declared \in [Sym -> SUBSET Sym]
      /\ symState \in [Sym -> SymbolState]
  BY DEF Core, Base, TypeOK, GraphType, HistoryType, TableType
<1>1. /\ section = "emit" /\ s \in todo /\ UNCHANGED <<hasError, declared>>
      /\ symState' = [x \in Sym |-> IF x \in ReadyAfter(s) THEN Ready
                                    ELSE IF x = s THEN Emitted ELSE symState[x]]
      /\ unemitted' = UnemittedAfter(s)
  BY DEF EmitSymbol, historyVars
<1>2. s \notin hasError /\ symState[s] = Resolved
  BY <1>1 DEF MovingInv, FailedInv, Core, Base, TableInv, EmitsResolved
<1>3. \A x \in Sym : /\ x \notin unemitted[x]
                     /\ unemitted'[x] = IF s \in unemitted[x]
                                        THEN (unemitted[x] \ {s}) \cup (unemitted[s] \ {x})
                                        ELSE unemitted[x]
  BY <1>1 DEF UnemittedAfter, Inherited, Core, Base, GraphInv, DepsMirrored, NoSelfWait
<1>4. WaitsSound'
  <2> SUFFICES ASSUME NEW S \in SUBSET Sym, ClosedUnder(S, declared), NEW x \in S
               PROVE  unemitted'[x] \subseteq S
    BY <1>1 DEF WaitsSound, ClosedUnder
  <2>1. \A y \in S : unemitted[y] \subseteq S
    BY DEF WaitsSound, ClosedUnder
  <2>2. s \in unemitted[x] => unemitted[s] \subseteq S
    BY <2>1
  <2> QED
    BY <1>3, <2>1, <2>2
<1>5. WaitsComplete'
  <2> SUFFICES ASSUME NEW x \in Sym, x \notin hasError', NEW d \in declared'[x]
               PROVE  WaitsFor(x, d)'
    BY DEF WaitsComplete
  <2>1. x \notin hasError /\ d \in Sym /\ WaitsFor(x, d)
    BY <1>0, <1>1 DEF WaitsComplete
  <2>2. CASE symState[d] = Ready
    <3>1. symState'[d] = Ready
      BY <1>1, <1>2, <2>1, <2>2
    <3> QED
      BY <3>1 DEF WaitsFor
  <2>3. CASE d \in unemitted[x] /\ d # s
    <3>1. d \in unemitted'[x]
      BY <1>3, <2>3
    <3> QED
      BY <3>1 DEF WaitsFor
  <2>4. CASE d \in unemitted[x] /\ d = s
    <3>1. symState'[s] \in {Emitted, Ready} /\ s \notin hasError'
      BY <1>1, <1>2
    <3>2. unemitted'[s] \subseteq unemitted'[x] \cup {x}
      BY <1>3, <2>4
    <3> QED
      BY <2>4, <3>1, <3>2 DEF WaitsFor
  <2>5. CASE symState[d] = Emitted /\ d \notin hasError /\ unemitted[d] \subseteq unemitted[x] \cup {x}
    <3>1. symState'[d] \in {Emitted, Ready} /\ d \notin hasError'
      BY <1>1, <1>2, <2>1, <2>5
    <3>2. unemitted'[d] \subseteq unemitted'[x] \cup {x}
      <4>1. CASE s \notin unemitted[d]
        BY <1>3, <2>1, <2>5, <4>1
      <4>2. CASE s \in unemitted[d] /\ s # x
        BY <1>3, <2>1, <2>5, <4>2
      <4>3. CASE s \in unemitted[d] /\ s = x
        BY <1>3, <2>1, <2>5, <4>3
      <4> QED
        BY <4>1, <4>2, <4>3
    <3> QED
      BY <3>1, <3>2 DEF WaitsFor
  <2> QED
    BY <2>1, <2>2, <2>3, <2>4, <2>5 DEF WaitsFor
<1> QED
  BY <1>4, <1>5

\* What fails takes with it all that waits for it, so that what a sound symbol waits
\* for is sound.
LEMMA TrivialWaits ==
  ASSUME Core, MovingInv, WaitsSound, WaitsComplete, section # "untrack",
         NEW s \in Sym, EmitTrivially(s) \/ FailTrivially(s)
  PROVE  WaitsSound' /\ WaitsComplete'
<1>0. /\ TypeOK /\ declared \in [Sym -> SUBSET Sym] /\ symState \in [Sym -> SymbolState]
  BY DEF Core, Base, TypeOK, HistoryType, TableType
<1>1. UNCHANGED <<declared, unemitted>> /\ s \in todo
  BY DEF EmitTrivially, FailTrivially, graphVars, historyVars
<1>2. WaitsSound'
  BY <1>1 DEF WaitsSound, ClosedUnder
<1>3. /\ hasError \subseteq hasError'
      /\ \A d \in Sym : symState[d] = Ready => symState'[d] = Ready
      /\ \A d \in Sym : symState[d] = Emitted /\ d \notin hasError =>
           symState'[d] = Emitted /\ d \notin hasError'
  <2>1. CASE EmitTrivially(s)
    <3>1. symState[s] = Resolved /\ UNCHANGED hasError
      BY <1>1, <2>1 DEF EmitTrivially, Core, Base, TableInv, EmitsResolved
    <3> QED
      BY <1>0, <2>1, <3>1 DEF EmitTrivially
  <2>2. CASE FailTrivially(s)
    <3>1. symState[s] \in {Materializing, Resolved} \/ s \in hasError
      BY <2>2 DEF FailTrivially, MovingInv, FailedInv
    <3> QED
      BY <1>0, <2>2, <3>1 DEF FailTrivially
  <2> QED
    BY <2>1, <2>2
<1>4. WaitsComplete'
  <2> SUFFICES ASSUME NEW x \in Sym, x \notin hasError', NEW d \in declared'[x]
               PROVE  WaitsFor(x, d)'
    BY DEF WaitsComplete
  <2>1. d \in Sym /\ WaitsFor(x, d)
    BY <1>0, <1>1, <1>3 DEF WaitsComplete
  <2> QED
    BY <1>1, <1>3, <2>1 DEF WaitsFor
<1> QED
  BY <1>2, <1>4

LEMMA FailSymbolWaits ==
  ASSUME Core, MovingInv, WaitsSound, WaitsComplete, section # "untrack",
         NEW s \in Sym, FailSymbol(s)
  PROVE  WaitsSound' /\ WaitsComplete'
<1>0. TypeOK /\ declared \in [Sym -> SUBSET Sym]
  BY DEF Core, Base, TypeOK, HistoryType
<1>1. /\ UNCHANGED <<symState, declared>> /\ section = "fail" /\ s \in todo
      /\ hasError' = hasError \cup {s} \cup dependants[s]
      /\ unemitted' = UnemittedWithout(s)
  BY DEF FailSymbol, historyVars
<1>2. \A x \in Sym : /\ unemitted'[x] \subseteq unemitted[x]
                     /\ x \notin hasError' => unemitted'[x] = unemitted[x]
                     /\ s \in unemitted[x] <=> x \in dependants[s]
  BY <1>1 DEF UnemittedWithout, Core, Base, GraphInv, DepsMirrored
<1>3. WaitsSound'
  BY <1>1, <1>2 DEF WaitsSound, ClosedUnder
<1>4. WaitsComplete'
  <2> SUFFICES ASSUME NEW x \in Sym, x \notin hasError', NEW d \in declared'[x]
               PROVE  WaitsFor(x, d)'
    BY DEF WaitsComplete
  <2>1. d \in Sym /\ WaitsFor(x, d)
    BY <1>0, <1>1 DEF WaitsComplete
  <2>2. x # s /\ s \notin unemitted[x] /\ unemitted'[x] = unemitted[x]
    BY <1>1, <1>2
  <2>3. CASE symState[d] = Emitted /\ d \notin hasError /\ unemitted[d] \subseteq unemitted[x] \cup {x}
    <3>1. d # s
      BY <1>1, <2>3 DEF MovingInv, FailedInv
    <3>2. d \notin hasError'
      BY <1>1, <1>2, <2>1, <2>2, <2>3, <3>1
    <3> QED
      BY <1>1, <1>2, <2>1, <2>2, <2>3, <3>2 DEF WaitsFor
  <2> QED
    BY <1>1, <2>1, <2>2, <2>3 DEF WaitsFor
<1> QED
  BY <1>3, <1>4

\* The other steps of a session without removals do not touch the dependences.
LEMMA OtherSteps ==
  ASSUME Core, OwnInv, SettledInv, MovingInv, Removable = {}, [Next]_vars,
         ~ \E s \in Sym : \/ AddDependencies(s) \/ EmitSymbol(s) \/ FailSymbol(s)
                          \/ EmitTrivially(s) \/ FailTrivially(s)
  PROVE  /\ UNCHANGED <<unemitted, declared, hasError>>
         /\ \A s \in Sym : symState'[s] # symState[s] =>
              symState[s] < Emitted /\ symState'[s] < Emitted
<1>0. TypeOK
  BY DEF Core, Base
<1>1. \A t \in Tracker : ~ RemoveTracker(t) /\ ~ RemoveAssertFails(t)
  BY DEF RemoveTracker, RemoveAssertFails
<1>2. ~ EraseDoomed
  BY DEF EraseDoomed, SettledInv, PeacefulInv
<1>3. ASSUME NEW u \in Unit, Define(u)
      PROVE  /\ UNCHANGED <<unemitted, declared, hasError>>
             /\ \A s \in Sym : symState'[s] # symState[s] =>
                  symState[s] < Emitted /\ symState'[s] < Emitted
  <2>1. \A s \in Defined(u) : s \in Sym /\ symState[s] \in {Absent, NeverSearched}
    BY <1>0, <1>3 DEF Define, Duplicates, Defined, Existing, Present, TypeOK, TableType, UnitType
  <2>2. hasError' = hasError
    BY <1>3, <2>1 DEF Define, MovingInv, FailedInv
  <2> QED
    BY <1>3, <2>1, <2>2 DEF Define, graphVars, historyVars
<1>4. ASSUME NEW q \in Query, LookUp(q)
      PROVE  /\ UNCHANGED <<unemitted, declared, hasError>>
             /\ \A s \in Sym : symState'[s] # symState[s] =>
                  symState[s] < Emitted /\ symState'[s] < Emitted
  <2>1. \/ symState' = symState
        \/ \E W \in SUBSET Sym : symState' = Started(Collected(W))
    BY <1>4, LookUpSwept
  <2>2. UNCHANGED <<unemitted, declared, hasError>>
    BY <1>4
    DEF LookUp, LookupMatched, LookupFails, LodgeFails, MatchAssertFails, LodgeNotFound,
        UnwindLookup, LodgeQuery, tableVars, graphVars, historyVars
  <2>3. \A s \in Sym : symState'[s] # symState[s] =>
          symState[s] < Emitted /\ symState'[s] < Emitted
    BY <2>1, StartedMoving
  <2> QED
    BY <2>2, <2>3
<1>5. ASSUME NEW u \in Unit, NEW R \in SUBSET Sym, NotifyResolved(u, R)
      PROVE  /\ UNCHANGED <<unemitted, declared, hasError>>
             /\ \A s \in Sym : symState'[s] # symState[s] =>
                  symState[s] < Emitted /\ symState'[s] < Emitted
  BY <1>5 DEF NotifyResolved, graphVars, historyVars
<1>6. CASE UNCHANGED <<symState, unemitted, declared, hasError>>
  BY <1>6
<1> QED
  BY <1>1, <1>2, <1>3, <1>4, <1>5, <1>6
  DEF Next, LockedStep, Materialize, AtRest, vars, SkipDependencies, DependenciesAssertFails,
      NotifyRefused, OL_AddDependencies, NotifyEmitted, NotifyAssertFails, FailMaterialization,
      DestroyResponsibility, DispatchUnit, NotifyComplete, tableVars, graphVars, historyVars

LEMMA WaitsStep ==
  ASSUME Removable = {}, Core, OwnInv, SettledInv, MovingInv, WaitsSound, WaitsComplete, [Next]_vars
  PROVE  WaitsSound' /\ WaitsComplete'
<1>1. CASE \E s \in Sym : AddDependencies(s)
  BY <1>1, AddDependenciesWaits
<1>2. CASE \E s \in Sym : EmitSymbol(s)
  BY <1>2, EmitSymbolWaits
<1>3. CASE \E s \in Sym : FailSymbol(s)
  BY <1>3, FailSymbolWaits DEF SettledInv, PeacefulInv
<1>4. CASE \E s \in Sym : EmitTrivially(s) \/ FailTrivially(s)
  BY <1>4, TrivialWaits DEF SettledInv, PeacefulInv
<1>5. CASE ~ \E s \in Sym : \/ AddDependencies(s) \/ EmitSymbol(s) \/ FailSymbol(s)
                            \/ EmitTrivially(s) \/ FailTrivially(s)
  <2>1. declared \in [Sym -> SUBSET Sym]
    BY DEF Core, Base, TypeOK, HistoryType
  <2>2. /\ UNCHANGED <<unemitted, declared, hasError>>
        /\ \A s \in Sym : symState[s] \in {Emitted, Ready} => symState'[s] = symState[s]
    BY <1>5, OtherSteps
  <2> QED
    BY <2>1, <2>2, WaitsKept
<1> QED
  BY <1>1, <1>2, <1>3, <1>4, <1>5

LEMMA WaitsInit ==
  ASSUME Init
  PROVE  WaitsSound /\ WaitsComplete
  BY DEF Init, WaitsSound, WaitsComplete, ClosedUnder

LEMMA WaitsCorrect ==
  ASSUME Removable = {}
  PROVE  Spec => [](WaitsSound /\ WaitsComplete)
<1>1. OverridesApart(Removable)
  BY DEF OverridesApart
<1> QED
  BY <1>1, WaitsInit, WaitsStep, CoreCorrect, OwnCorrect, SettledCorrect, MovingCorrect, PTL DEF Spec

\* The ready symbols are those that depend, directly or through others, on emitted
\* and sound symbols only.
ReadySyms == {s \in Sym : symState[s] = Ready}
EmittedSyms == {s \in Sym : symState[s] >= Emitted}
ReadyIsClosed ==
  section # "fail" => ReadySyms = Readiness!Closed(EmittedSyms \ hasError)

LEMMA ClosureOfEmitted ==
  ASSUME Core, SettledInv, MovingInv, WaitsSound, WaitsComplete
  PROVE  ReadyIsClosed
<1> SUFFICES ASSUME section # "fail" PROVE ReadySyms = Readiness!Closed(EmittedSyms \ hasError)
  BY DEF ReadyIsClosed
<1>0. /\ TypeOK /\ unemitted \in [Sym -> SUBSET Sym] /\ declared \in [Sym -> SUBSET Sym]
      /\ symState \in [Sym -> SymbolState]
  BY DEF Core, Base, TypeOK, GraphType, HistoryType, TableType
<1>1. \A s \in Sym : symState[s] = Emitted /\ s \notin hasError => s \in mi /\ unemitted[s] # {}
  BY DEF Core, ShapeInv, GraphShape, EmittedOutsideFailed, BeingFailed, SettledInv, PeacefulInv
<1>2. \A x \in Sym : \A d \in unemitted[x] : d \in Sym /\ symState[d] \in {Materializing, Resolved}
  BY <1>0 DEF Core, ShapeInv, GraphShape
<1>3. ReadySyms \subseteq EmittedSyms \ hasError
  BY DEF ReadySyms, EmittedSyms, MovingInv, FailedInv
<1>4. \A x \in ReadySyms : declared[x] \subseteq ReadySyms
  <2> SUFFICES ASSUME NEW x \in ReadySyms, NEW d \in declared[x] PROVE d \in ReadySyms
    OBVIOUS
  <2>1. x \in Sym /\ symState[x] = Ready /\ x \notin hasError /\ d \in Sym
    BY <1>0, <1>3 DEF ReadySyms
  <2>2. unemitted[x] = {}
    BY <2>1 DEF Core, ShapeInv, GraphShape
  <2>3. WaitsFor(x, d)
    BY <2>1 DEF WaitsComplete
  <2>4. ~ (symState[d] = Emitted /\ d \notin hasError /\ unemitted[d] \subseteq {x})
    BY <1>1, <1>2, <2>1
  <2> QED
    BY <2>1, <2>2, <2>3, <2>4 DEF WaitsFor, ReadySyms
<1>5. ASSUME NEW S \in SUBSET (EmittedSyms \ hasError), \A x \in S : declared[x] \subseteq S
      PROVE  S \subseteq ReadySyms
  <2> SUFFICES ASSUME NEW x \in S, x \notin ReadySyms PROVE FALSE
    OBVIOUS
  <2>1. S \in SUBSET Sym /\ x \in Sym /\ x \notin hasError /\ symState[x] = Emitted
    BY <1>0 DEF EmittedSyms, ReadySyms
  <2>2. unemitted[x] # {} /\ unemitted[x] \subseteq S
    BY <1>1, <1>5, <2>1 DEF WaitsSound, ClosedUnder
  <2>3. PICK y \in unemitted[x] : y \in S
    BY <2>2
  <2>4. symState[y] \in {Materializing, Resolved} /\ symState[y] >= Emitted
    BY <1>2, <2>1, <2>3 DEF EmittedSyms
  <2> QED
    BY <2>4
<1> QED
  BY <1>3, <1>4, <1>5 DEF Readiness!Closed

LEMMA ClosedCorrect ==
  ASSUME Removable = {}
  PROVE  Spec => []ReadyIsClosed
<1>1. Core /\ SettledInv /\ MovingInv /\ WaitsSound /\ WaitsComplete => ReadyIsClosed
  BY ClosureOfEmitted
<1> QED
  BY <1>1, CoreCorrect, SettledCorrect, MovingCorrect, WaitsCorrect, PTL

\* Each emission makes ready, in one step, what is ready by the closure.
LEMMA EmitImplements ==
  ASSUME Core, MovingInv, ReadyIsClosed', NEW s \in Sym, EmitSymbol(s) \/ EmitTrivially(s)
  PROVE  Readiness!Emit(s)
<1>0. TypeOK /\ symState \in [Sym -> SymbolState] /\ dependants \in [Sym -> SUBSET Sym]
  BY DEF Core, Base, TypeOK, TableType, GraphType
<1>1. /\ section = "emit" /\ s \in todo /\ UNCHANGED <<hasError, declared>>
      /\ section' \in {"emit", "free"}
  BY DEF EmitSymbol, EmitTrivially, Continue, historyVars
<1>2. s \notin hasError /\ symState[s] = Resolved
  BY <1>1 DEF MovingInv, FailedInv, Core, Base, TableInv, EmitsResolved
<1>3. symState'[s] \in {Emitted, Ready}
      /\ \A x \in Sym \ {s} : \/ symState'[x] = symState[x]
                              \/ symState[x] = Emitted /\ symState'[x] = Ready
  BY <1>0 DEF EmitSymbol, EmitTrivially, ReadyAfter
<1>4. EmittedSyms' = EmittedSyms \cup {s} /\ s \notin EmittedSyms
  BY <1>0, <1>2, <1>3 DEF EmittedSyms
<1>5. ReadySyms' = UNION {S \in SUBSET (EmittedSyms' \ hasError') : \A x \in S : declared'[x] \subseteq S}
  BY <1>1 DEF ReadyIsClosed, Readiness!Closed
<1>6. ReadySyms' = UNION {S \in SUBSET (EmittedSyms' \ hasError) : \A x \in S : declared[x] \subseteq S}
  BY <1>1, <1>5
<1> QED
  BY <1>1, <1>2, <1>4, <1>6 DEF Readiness!Emit, Readiness!Closed, EmittedSyms, ReadySyms

LEMMA DependImplements ==
  ASSUME Core, MovingInv, NEW n \in Sym, AddDependencies(n)
  PROVE  Readiness!Depend(n, newDeps \ {n})
<1>0. TypeOK /\ newDeps \subseteq Sym
  BY DEF Core, Base, TypeOK, LockType
<1>1. /\ UNCHANGED symState /\ n \notin hasError /\ symState[n] \in {Materializing, Resolved}
      /\ declared' = [declared EXCEPT ![n] = @ \cup (newDeps \ {n})]
      /\ hasError' = IF \E d \in newDeps : symState[d] # Ready /\ d \in hasError
                     THEN hasError \cup {n} ELSE hasError
  BY DEF AddDependencies, MovingInv, RegisteringInv
<1>2. (\E d \in newDeps : symState[d] # Ready /\ d \in hasError)
        <=> (newDeps \ {n}) \cap (hasError \ {s \in Sym : symState[s] = Ready}) # {}
  BY <1>0, <1>1
<1> QED
  BY <1>1, <1>2 DEF Readiness!Depend

LEMMA FailImplements ==
  ASSUME Core, MovingInv, section # "untrack", NEW s \in Sym, FailSymbol(s) \/ FailTrivially(s)
  PROVE  \E S \in SUBSET Sym : Readiness!Fail(S)
<1>0. TypeOK /\ dependants \in [Sym -> SUBSET Sym]
  BY DEF Core, Base, TypeOK, GraphType
<1>1. section = "fail" /\ s \in todo /\ UNCHANGED <<symState, declared>>
  BY DEF FailSymbol, FailTrivially, historyVars
<1>2. symState[s] \in Materializing .. Emitted
  BY <1>1 DEF MovingInv, FailedInv
<1>3. CASE FailSymbol(s)
  <2>1. hasError' = hasError \cup ({s} \cup dependants[s])
    BY <1>3 DEF FailSymbol
  <2>2. \A x \in dependants[s] : x \in Sym /\ symState[x] # Ready
    <3>1. \A x \in dependants[s] : x \in Sym /\ s \in unemitted[x]
      BY <1>0 DEF Core, Base, GraphInv, DepsMirrored
    <3>2. \A x \in dependants[s] : x \in mi
      BY <3>1 DEF Core, Base, GraphInv, InfoOfNodes
    <3> QED
      BY <3>1, <3>2, InfoPresent
  <2>3. Readiness!Fail({s} \cup dependants[s])
    BY <1>1, <1>2, <2>1, <2>2 DEF Readiness!Fail
  <2> QED
    BY <1>0, <2>3
<1>4. CASE FailTrivially(s)
  <2>1. hasError' = hasError \cup {s}
    BY <1>2, <1>4 DEF FailTrivially
  <2>2. Readiness!Fail({s})
    BY <1>1, <1>2, <2>1 DEF Readiness!Fail
  <2> QED
    BY <2>2
<1> QED
  BY <1>3, <1>4

\* Every step of a session without removals is one of the abstract specification,
\* or none.
LEMMA ReadinessStep ==
  ASSUME Removable = {}, Core, OwnInv, SettledInv, MovingInv, ReadyIsClosed', [Next]_vars
  PROVE  [Readiness!Next]_(Readiness!vars)
<1>1. ASSUME NEW n \in Sym, AddDependencies(n) PROVE Readiness!Next
  <2>1. newDeps \ {n} \in SUBSET Sym
    BY DEF Core, Base, TypeOK, LockType
  <2> QED
    BY <1>1, <2>1, DependImplements DEF Readiness!Next
<1>2. ASSUME NEW s \in Sym, EmitSymbol(s) \/ EmitTrivially(s) PROVE Readiness!Next
  BY <1>2, EmitImplements DEF Readiness!Next
<1>3. ASSUME NEW s \in Sym, FailSymbol(s) \/ FailTrivially(s) PROVE Readiness!Next
  BY <1>3, FailImplements DEF Readiness!Next, SettledInv, PeacefulInv
<1>4. CASE ~ \E s \in Sym : \/ AddDependencies(s) \/ EmitSymbol(s) \/ FailSymbol(s)
                            \/ EmitTrivially(s) \/ FailTrivially(s)
  <2>1. /\ UNCHANGED <<unemitted, declared, hasError>>
        /\ \A s \in Sym : symState'[s] # symState[s] =>
             symState[s] < Emitted /\ symState'[s] < Emitted
    BY <1>4, OtherSteps
  <2>2. symState \in [Sym -> 0 .. 5] /\ symState' \in [Sym -> 0 .. 5]
    BY StepType DEF Core, Base, TypeOK, TableType
  <2>3. \A s \in Sym : /\ symState'[s] >= Emitted <=> symState[s] >= Emitted
                       /\ symState'[s] = Ready <=> symState[s] = Ready
    BY <2>1, <2>2
  <2>4. EmittedSyms' = EmittedSyms /\ ReadySyms' = ReadySyms
    BY <2>3 DEF EmittedSyms, ReadySyms
  <2> QED
    BY <2>1, <2>4 DEF Readiness!vars, EmittedSyms, ReadySyms
<1> QED
  BY <1>1, <1>2, <1>3, <1>4

\* emit, failSymbols and addDependencies, which propagate the sets of symbols waited
\* for from symbol to symbol, implement readiness of everything a symbol depends on:
\* no symbol becomes ready too early, none that is ready is overlooked and failure
\* reaches nothing that is ready.  With removals the session goes on waiting for what
\* a symbol reached through an erased one, and this holds of the runs that check it.
THEOREM ReadinessCorrect ==
  ASSUME Removable = {}
  PROVE  Spec => ReadinessIsClosure
<1>1. Init => Readiness!Init
  BY DEF Init, Readiness!Init
<1>2. OverridesApart(Removable)
  BY DEF OverridesApart
<1> QED
  BY <1>1, <1>2, ReadinessStep, CoreCorrect, OwnCorrect, SettledCorrect, MovingCorrect,
     ClosedCorrect, PTL DEF Spec, ReadinessIsClosure, Readiness!Spec
-----------------------------------------------------------------------------
(***************************************************************************)
(* The session with splitting and transfer                                 *)
(***************************************************************************)

LEMMA FullCoreCorrect ==
  ASSUME Undefinable = {}
  PROVE  FullSpec => []Core
  BY FullBaseCorrect, FullShapeCorrect, PTL DEF Core

\* What replace gives back has no query, and what defineMaterializing adds was looked
\* up by nobody.
LEMMA AddedLate ==
  ASSUME Undefinable = {}, Core, LateInv, AddedStep
  PROVE  LateInv'
<1>0. UNCHANGED pending
  BY AddedKeeps DEF queryVars
<1>1. ASSUME NEW u \in Unit, Split(u) PROVE LateInv'
  <2>1. ASSUME NEW K \in SUBSET ClaimSyms[u], DefineMaterializing(u, K) PROVE LateInv'
    BY <1>0, <2>1, LateKept DEF DefineMaterializing
  <2>2. ASSUME NEW v \in Spare, NEW S \in SUBSET usyms[u], ReplaceLazily(u, v, S)
        PROVE  LateInv'
    <3>1. \A s \in S : s \in Sym => pending[s] = {}
      BY <2>2, PendingHasInfo DEF ReplaceLazily, WantedNow, Wanted
    <3>2. UNCHANGED symState /\ attached' = attached \cup S
      BY <2>2 DEF ReplaceLazily
    <3> QED
      BY <1>0, <3>1, <3>2, LateKept
  <2>3. CASE UNCHANGED <<symState, attached>>
    BY <1>0, <2>3, LateKept
  <2> QED
    BY <1>1, <2>1, <2>2, <2>3
    DEF Split, GetRequestedSymbols, vars, RequestedAssertFails, AdriftAborts, ReplaceRunning,
        Delegate, SplitRefused, DefineMaterializingFails, tableVars
<1>2. ~ \E S \in SUBSET Sym : RemoveSymbols(S)
  BY DEF RemoveSymbols
<1> QED
  BY <1>0, <1>1, <1>2, LateKept DEF AddedStep, TransferTracker, RemoveDefaultTracker, tableVars

\* A query is answered once, whatever is split off and transferred meanwhile.
THEOREM FullOnceCorrect ==
  ASSUME Undefinable = {}
  PROVE  FullSpec /\ []NoneUnwinding => []AnsweredOnce
<1>1. FullInit => AnswerInv
  BY DEF FullInit, Init, AnswerInv, AnswerOf
<1>2. AnswerInv /\ AddedStep => AnswerInv'
  BY AddedKeeps, AnswerKept DEF AnswerInv, queryVars
<1> QED
  BY <1>1, <1>2, AnswerStep, OnceOf, FullSteps, FullCoreCorrect, PTL DEF FullSpec

\* The client removes no tracker and no symbol; it may still transfer trackers.
NothingRemoved == Removable = {} /\ DefaultRemovable = FALSE /\ Undefinable = {}

HoldInv == LiveUnderTracker /\ PeacefulInv /\ OwnInv /\ StrandInv

LEMMA NextHolds ==
  ASSUME NothingRemoved, Core, NoneLate, HoldInv, [Next]_vars
  PROVE  HoldInv'
<1>1. PeacefulInv' /\ defunct' = defunct
  BY PeacefulStep DEF HoldInv, NothingRemoved
<1>2. OwnInv'
  BY OwnStep DEF HoldInv, PeacefulInv, EraseDoomed
<1>3. LiveUnderTracker'
  BY <1>1, UnitSteps DEF HoldInv, LiveUnderTracker, NoneLate
<1>4. StrandInv'
  <2>1. doomed = {} /\ NoneUnwinding' /\ ~ \E t \in Tracker : RemoveTracker(t)
    BY <1>1 DEF HoldInv, PeacefulInv, RemoveTracker, NothingRemoved
  <2> QED
    BY <2>1, StrandStep DEF HoldInv
<1> QED
  BY <1>1, <1>2, <1>3, <1>4 DEF HoldInv

\* A query that has matched keeps what it matched: nothing added here takes a
\* symbol out of the table.
LEMMA AddedPeaceful ==
  ASSUME NothingRemoved, Core, PeacefulInv, AddedStep
  PROVE  PeacefulInv'
<1>0. TypeOK
  BY DEF Core, Base
<1>1. ~ RemoveDefaultTracker /\ ~ \E S \in SUBSET Sym : RemoveSymbols(S)
  BY DEF RemoveDefaultTracker, RemoveSymbols, NothingRemoved
<1>2. Present \subseteq Present'
  <2>1. ASSUME NEW u \in Unit, NEW K \in SUBSET ClaimSyms[u], DefineMaterializing(u, K)
        PROVE  Present \subseteq Present'
    BY <2>1 DEF DefineMaterializing, Present
  <2>2. CASE UNCHANGED symState
    BY <2>2 DEF Present
  <2> QED
    BY <1>1, <2>1, <2>2, AddedStates
<1>3. section' # "untrack" /\ doomed' = doomed
  <2>1. ASSUME NEW u \in Unit, Split(u) PROVE section' # "untrack" /\ doomed' = doomed
    <3>1. CASE GetRequestedSymbols(u)
      BY <3>1 DEF GetRequestedSymbols, vars, lockVars, PeacefulInv
    <3>2. CASE RequestedAssertFails(u) \/ AdriftAborts(u)
      BY <3>2 DEF RequestedAssertFails, AdriftAborts
    <3>3. CASE UNCHANGED lockVars
      BY <3>3 DEF lockVars, PeacefulInv
    <3> QED
      BY <2>1, <3>1, <3>2, <3>3
      DEF Split, ReplaceRunning, ReplaceLazily, Delegate, SplitRefused, DefineMaterializing,
          DefineMaterializingFails
  <2>2. ASSUME NEW src \in Tracker, NEW dst \in Tracker, TransferTracker(src, dst)
        PROVE  section' # "untrack" /\ doomed' = doomed
    BY <2>2 DEF TransferTracker, lockVars, PeacefulInv
  <2> QED
    BY <1>1, <2>1, <2>2 DEF AddedStep
<1>4. UNCHANGED qphase
  BY AddedKeeps DEF queryVars
<1> QED
  BY <1>2, <1>3, <1>4 DEF PeacefulInv, NoneUnwinding, Required

\* What the steps added here keep.
HoldsOn ==
  /\ OwnInv'
  /\ LiveUnderTracker => LiveUnderTracker'
  /\ StrandInv => StrandInv'

\* replace, where a query waits, and delegate: the new unit holds what the old one
\* gives up.
LEMMA HandOver ==
  ASSUME Core, OwnInv, NEW u \in Unit, NEW v \in Spare, NEW S \in SUBSET usyms[u],
         ReplaceRunning(u, v, S) \/ Delegate(u, v, S)
  PROVE  HoldsOn
<1>0. TypeOK /\ v \in Unit /\ S \subseteq Sym
  BY SplitAssumption DEF Core, Base, TypeOK, UnitType
<1>1. /\ UNCHANGED <<tableVars, graphVars, defunct, lockVars>> /\ section = "free"
      /\ phase[u] = "running" /\ phase[v] = "new" /\ u # v /\ urt[u] \notin defunct
      /\ \A w \in Unit \ {u, v} : /\ usyms'[w] = usyms[w]
                                  /\ urt'[w] = urt[w] /\ phase'[w] = phase[w]
      /\ usyms'[u] = usyms[u] \ S /\ urt'[u] = urt[u] /\ phase'[u] = phase[u]
      /\ usyms'[v] = S /\ urt'[v] = urt[u] /\ Live(v)'
  BY <1>0 DEF ReplaceRunning, Delegate, LeftWith, Splits, Active, Unlocked, trackerVars, Live,
     TypeOK, UnitType
<1>2. \A w \in Unit \ {v} : Live(w)' <=> Live(w)
  BY <1>1 DEF Live
<1>3. ~ Live(v) /\ Live(u)
  BY <1>1 DEF Live
<1>4. LiveUnderTracker => LiveUnderTracker'
  BY <1>1, <1>2 DEF LiveUnderTracker
<1>5. \A w \in Unit, s \in Sym : Holding(w, s)' =>
        \/ w # v /\ Holding(w, s) /\ s \notin S
        \/ w = v /\ s \in S /\ Holding(u, s)
  <2> SUFFICES ASSUME NEW w \in Unit, NEW s \in Sym, Holding(w, s)'
               PROVE  \/ w # v /\ Holding(w, s) /\ s \notin S
                      \/ w = v /\ s \in S /\ Holding(u, s)
    OBVIOUS
  <2>1. s \in S => Holding(u, s)
    BY <1>1, <1>3 DEF Holding
  <2>2. CASE w = v
    BY <1>1, <2>1, <2>2 DEF Holding
  <2>3. CASE w = u
    BY <1>1, <1>3, <2>3 DEF Holding
  <2>4. CASE w \notin {u, v}
    <3>1. Holding(w, s)
      BY <1>1, <1>2, <2>4 DEF Holding
    <3> QED
      BY <2>1, <2>4, <3>1 DEF OwnInv, HeldByOne
  <2> QED
    BY <2>2, <2>3, <2>4
<1>6. DefinedAttached'
  <2>1. \A w \in Unit : phase'[w] = "defined" => w \notin {u, v} /\ phase[w] = "defined"
    BY <1>1 DEF Live
  <2> QED
    BY <1>1, <2>1 DEF OwnInv, DefinedAttached, tableVars
<1>7. HeldMoving'
  BY <1>1, <1>5 DEF OwnInv, HeldMoving, tableVars
<1>8. HeldByOne'
  BY <1>5 DEF OwnInv, HeldByOne
<1>9. EmitUnheld'
  BY <1>1 DEF EmitUnheld, lockVars
<1>10. \A s \in Sym : Held(s) => Held(s)'
  <2> SUFFICES ASSUME NEW s \in Sym, NEW w \in Unit, Holding(w, s) PROVE Held(s)'
    BY DEF Held
  <2>1. w # v
    BY <1>3 DEF Holding
  <2>2. CASE w = u /\ s \in S
    BY <1>0, <1>1, <2>2 DEF Held, Holding
  <2>3. CASE w # u \/ s \notin S
    <3>1. Holding(w, s)'
      BY <1>1, <1>2, <2>1, <2>3 DEF Holding
    <3> QED
      BY <3>1 DEF Held
  <2> QED
    BY <2>2, <2>3
<1>11. StrandInv => StrandInv'
  BY <1>1, <1>10, StrandKept DEF tableVars, graphVars, lockVars
<1> QED
  BY <1>4, <1>6, <1>7, <1>8, <1>9, <1>11 DEF OwnInv, HoldsOn

\* replace, where no query waits: what the responsibility gives up is attached to a
\* unit that waits, and nobody holds it.
LEMMA HandBack ==
  ASSUME Core, OwnInv, NEW u \in Unit, NEW v \in Spare, NEW S \in SUBSET usyms[u],
         ReplaceLazily(u, v, S)
  PROVE  HoldsOn
<1>0. TypeOK /\ v \in Unit /\ S \subseteq Sym
  BY SplitAssumption DEF Core, Base, TypeOK, UnitType
<1>1. /\ UNCHANGED <<symState, hasError, graphVars, defunct, lockVars>> /\ section = "free"
      /\ phase[u] = "running" /\ phase[v] = "new" /\ u # v /\ urt[u] \notin defunct
      /\ \A w \in Unit \ {u, v} : /\ usyms'[w] = usyms[w]
                                  /\ urt'[w] = urt[w] /\ phase'[w] = phase[w]
      /\ usyms'[u] = usyms[u] \ S /\ urt'[u] = urt[u] /\ phase'[u] = phase[u]
      /\ usyms'[v] = S /\ phase'[v] = "defined"
  BY <1>0 DEF ReplaceLazily, LeftWith, Splits, Active, Unlocked, trackerVars, TypeOK, UnitType
<1>2. /\ attached' = attached \cup S /\ S \cap attached = {}
      /\ \A s \in Sym : umi'[s] = IF s \in S THEN v ELSE umi[s]
  BY DEF ReplaceLazily
<1>3. \A w \in Unit : Live(w)' => Live(w) /\ w # v
  BY <1>1 DEF Live
<1>4. LiveUnderTracker => LiveUnderTracker'
  BY <1>1, <1>3 DEF LiveUnderTracker
<1>5. \A w \in Unit, s \in Sym : Holding(w, s)' => Holding(w, s) /\ s \notin S
  <2> SUFFICES ASSUME NEW w \in Unit, NEW s \in Sym, Holding(w, s)'
               PROVE  Holding(w, s) /\ s \notin S
    OBVIOUS
  <2>1. s \in S => Holding(u, s)
    BY <1>1 DEF Holding, Live
  <2>2. Holding(w, s) /\ (w = u => s \notin S)
    BY <1>1, <1>3 DEF Holding
  <2> QED
    BY <2>1, <2>2 DEF OwnInv, HeldByOne
<1>6. DefinedAttached'
  <2> SUFFICES ASSUME NEW w \in Unit, phase'[w] = "defined", NEW s \in usyms'[w]
               PROVE  s \in attached' /\ umi'[s] = w
    BY DEF DefinedAttached
  <2>1. CASE w = v
    BY <1>0, <1>1, <1>2, <2>1
  <2>2. CASE w # v
    <3>1. phase[w] = "defined" /\ s \in usyms[w] /\ s \in Sym
      BY <1>0, <1>1, <2>2 DEF TypeOK, UnitType
    <3>2. s \in attached /\ umi[s] = w
      BY <3>1 DEF OwnInv, DefinedAttached
    <3> QED
      BY <1>2, <3>1, <3>2
  <2> QED
    BY <2>1, <2>2
<1>7. HeldMoving'
  BY <1>1, <1>2, <1>5 DEF OwnInv, HeldMoving
<1>8. HeldByOne'
  BY <1>5 DEF OwnInv, HeldByOne
<1>9. EmitUnheld'
  BY <1>1 DEF EmitUnheld, lockVars
<1>10. \A s \in Sym : Held(s) => Held(s)' \/ s \in S
  <2> SUFFICES ASSUME NEW s \in Sym, NEW w \in Unit, Holding(w, s), s \notin S PROVE Held(s)'
    BY DEF Held
  <2>1. w # v
    BY <1>1 DEF Holding, Live
  <2>2. Holding(w, s)'
    BY <1>1, <2>1 DEF Holding, Live
  <2> QED
    BY <2>2 DEF Held
<1>11. StrandInv => StrandInv'
  BY <1>1, <1>2, <1>10 DEF StrandInv, StrandOf, graphVars, lockVars
<1> QED
  BY <1>4, <1>6, <1>7, <1>8, <1>9, <1>11 DEF OwnInv, HoldsOn

\* defineMaterializing: what a responsibility claims was not in the table, so that
\* nobody else holds it.
LEMMA Claim ==
  ASSUME Core, OwnInv, NEW u \in Unit, NEW K \in SUBSET ClaimSyms[u], DefineMaterializing(u, K)
  PROVE  HoldsOn
<1> DEFINE A == Accepted(u, K)
<1>0. TypeOK /\ A \subseteq Sym
  BY SplitAssumption DEF Core, Base, Accepted
<1>1. /\ UNCHANGED <<hasError, attached, umi, graphVars, phase, urt, defunct, lockVars>>
      /\ section = "free" /\ phase[u] = "running" /\ urt[u] \notin defunct
      /\ \A s \in Sym : symState'[s] = IF s \in A THEN Materializing ELSE symState[s]
      /\ \A w \in Unit \ {u} : usyms'[w] = usyms[w]
      /\ usyms'[u] = usyms[u] \cup A
  BY <1>0 DEF DefineMaterializing, Active, Unlocked, trackerVars, TypeOK, UnitType
<1>2. \A s \in A : symState[s] = Absent
  BY <1>0 DEF DefineMaterializing, Accepted, Present
<1> HIDE DEF A
<1>3. \A s \in A : s \notin attached /\ \A w \in Unit : ~ Holding(w, s)
  BY <1>0, <1>2 DEF OwnInv, HeldMoving, Core, Base, TableInv, AttachedHasUnit
<1>4. LiveUnderTracker => LiveUnderTracker'
  BY <1>1 DEF LiveUnderTracker, Live
<1>5. \A w \in Unit, s \in Sym : Holding(w, s)' =>
        \/ Holding(w, s) /\ s \notin A
        \/ w = u /\ s \in A
  BY <1>1, <1>3 DEF Holding, Live
<1>6. DefinedAttached'
  BY <1>1 DEF OwnInv, DefinedAttached
<1>7. HeldMoving'
  BY <1>1, <1>3, <1>5 DEF OwnInv, HeldMoving
<1>8. HeldByOne'
  BY <1>5 DEF OwnInv, HeldByOne
<1>9. EmitUnheld'
  BY <1>1 DEF EmitUnheld, lockVars
<1>10. ASSUME NEW s \in Sym, Held(s) \/ s \in A PROVE Held(s)'
  <2>1. PICK w \in Unit : Holding(w, s) \/ (w = u /\ s \in A)
    BY <1>10 DEF Held
  <2>2. Holding(w, s)'
    BY <1>1, <2>1 DEF Holding, Live
  <2> QED
    BY <2>2 DEF Held
<1>11. StrandInv => StrandInv'
  BY <1>1, <1>10 DEF StrandInv, StrandOf, graphVars, lockVars
<1> QED
  BY <1>4, <1>6, <1>7, <1>8, <1>9, <1>11 DEF OwnInv, HoldsOn

\* transferTracker: what is held stays held, under the destination.
LEMMA Transferred ==
  ASSUME Core, OwnInv, NEW src \in Tracker, NEW dst \in Tracker, TransferTracker(src, dst)
  PROVE  HoldsOn
<1>0. todo \subseteq Sym
  BY DEF Core, Base, TypeOK, LockType
<1>1. /\ UNCHANGED <<tableVars, graphVars, phase, usyms, lockVars>> /\ section = "free"
      /\ src # dst /\ dst \notin defunct /\ defunct' = defunct \cup {src}
      /\ \A u \in Unit : urt'[u] = IF u \in Moved(src) THEN dst ELSE urt[u]
  BY TransferAssumption DEF TransferTracker, Unlocked
<1>2. LiveUnderTracker => LiveUnderTracker'
  BY <1>1 DEF LiveUnderTracker, Live, Moved
<1>3. ASSUME NEW u \in Unit, NEW s \in Sym PROVE Holding(u, s)' <=> Holding(u, s)
  <2>1. phase' = phase /\ usyms' = usyms
    BY <1>1
  <2>2. Live(u) => (urt'[u] \in defunct' <=> urt[u] \in defunct)
    BY <1>1 DEF Live, Moved, TransferTracker
  <2> QED
    BY <2>1, <2>2 DEF Holding, Live
<1>4. OwnInv'
  BY <1>0, <1>1, <1>3, OwnKept DEF tableVars, lockVars
<1>5. StrandInv => StrandInv'
  <2>1. \A s \in Sym : Held(s) => Held(s)'
    BY <1>3 DEF Held
  <2> QED
    BY <1>1, <2>1, StrandKept DEF tableVars, graphVars, lockVars
<1> QED
  BY <1>2, <1>4, <1>5 DEF HoldsOn

LEMMA AddedHolds ==
  ASSUME NothingRemoved, Core, HoldInv, AddedStep
  PROVE  HoldInv'
<1>0. todo \subseteq Sym
  BY DEF Core, Base, TypeOK, LockType
<1>1. PeacefulInv'
  BY AddedPeaceful DEF HoldInv
<1>2. ASSUME UNCHANGED <<tableVars, graphVars, phase, usyms, urt, defunct, todo, doomed>>,
             section' = section \/ section' = "aborted"
      PROVE  LiveUnderTracker' /\ OwnInv' /\ StrandInv'
  <2>1. OwnInv'
    BY <1>0, <1>2, OwnKept DEF HoldInv, tableVars, Holding, Live
  <2>2. StrandInv'
    BY <1>2, StrandKept DEF HoldInv, tableVars, graphVars, Held, Holding, Live, StrandInv
  <2>3. LiveUnderTracker'
    BY <1>2 DEF HoldInv, LiveUnderTracker, Live
  <2> QED
    BY <2>1, <2>2, <2>3
<1>3. ASSUME NEW u \in Unit, Split(u) PROVE LiveUnderTracker' /\ OwnInv' /\ StrandInv'
  <2>1. CASE GetRequestedSymbols(u)
    BY <1>2, <2>1 DEF GetRequestedSymbols, vars, unitVars, trackerVars, lockVars
  <2>2. CASE RequestedAssertFails(u) \/ AdriftAborts(u)
    BY <1>2, <2>2 DEF RequestedAssertFails, AdriftAborts, unitVars, trackerVars
  <2>3. ~ \E S \in SUBSET usyms[u] : SplitRefused(u, S)
    BY DEF SplitRefused, Splits, Active, HoldInv, LiveUnderTracker, Live
  <2>4. ASSUME NEW K \in SUBSET ClaimSyms[u], DefineMaterializingFails(u, K)
        PROVE  LiveUnderTracker' /\ OwnInv' /\ StrandInv'
    BY <1>2, <2>4 DEF DefineMaterializingFails, trackerVars, lockVars
  <2> QED
    BY <1>3, <2>1, <2>2, <2>3, <2>4, HandOver, HandBack, Claim DEF Split, HoldInv, HoldsOn
<1>4. ~ RemoveDefaultTracker /\ ~ \E S \in SUBSET Sym : RemoveSymbols(S)
  BY DEF RemoveDefaultTracker, RemoveSymbols, NothingRemoved
<1> QED
  BY <1>1, <1>3, <1>4, Transferred DEF AddedStep, HoldInv, HoldsOn

LEMMA HoldInit ==
  ASSUME FullInit
  PROVE  HoldInv
<1>1. OwnInv
  BY OwnInit DEF FullInit
<1>2. LiveUnderTracker /\ PeacefulInv /\ StrandInv
  BY DEF FullInit, Init, LiveUnderTracker, Live, PeacefulInv, NoneUnwinding, StrandInv, StrandOf
<1> QED
  BY <1>1, <1>2 DEF HoldInv

LEMMA HoldCorrect ==
  ASSUME NothingRemoved
  PROVE  FullSpec /\ []NoneLate => []HoldInv
<1>1. Core /\ NoneLate /\ HoldInv /\ [FullNext]_fullVars => HoldInv'
  BY NextHolds, AddedHolds, FullSteps
<1>2. Undefinable = {}
  BY DEF NothingRemoved
<1> QED
  BY <1>1, <1>2, HoldInit, FullCoreCorrect, PTL DEF FullSpec

LEMMA HeldHolds ==
  ASSUME Core, NoneLate, OwnInv, StrandInv, section # "untrack" => doomed = {}
  PROVE  HeldOnce
<1> SUFFICES ASSUME section = "free", NEW s \in Sym,
                    symState[s] \in {Materializing, Resolved}, s \notin hasError
             PROVE  \E u \in Unit : Holders(s) = {u}
  BY DEF HeldOnce, Unlocked
<1>1. s \in attached \/ Held(s)
  BY DEF StrandInv, StrandOf
<1>2. \A u \in Holders(s) : \/ phase[u] = "defined" /\ s \in attached /\ umi[s] = u
                            \/ Holding(u, s) /\ s \notin attached
  BY DEF Holders, OwnInv, DefinedAttached, HeldMoving, Holding, Live
<1>3. \E u \in Unit : u \in Holders(s)
  <2>1. CASE s \in attached
    BY <2>1 DEF Holders, Core, Base, TableInv, AttachedHasUnit, TypeOK, TableType, NoneLate, Unlocked
  <2>2. CASE Held(s)
    BY <2>2 DEF Held, Holding, Holders, Live
  <2> QED
    BY <1>1, <2>1, <2>2
<1>4. \A u, v \in Holders(s) : u = v
  BY <1>2 DEF Holders, OwnInv, HeldByOne
<1> QED
  BY <1>3, <1>4

\* Every symbol that is being materialized has exactly one holder, a unit that waits
\* with it or a responsibility that covers it, under a live tracker: replace,
\* delegate, defineMaterializing and transferTracker neither lose a symbol nor give
\* one away twice.  The client adds nothing under a tracker it has transferred
\* (NoneLate).
THEOREM HeldCorrect ==
  ASSUME NothingRemoved
  PROVE  FullSpec /\ []NoneLate => []HeldOnce
<1>1. Core /\ NoneLate /\ HoldInv => HeldOnce
  BY HeldHolds DEF HoldInv, PeacefulInv
<1>2. Undefinable = {}
  BY DEF NothingRemoved
<1> QED
  BY <1>1, <1>2, HoldCorrect, FullCoreCorrect, PTL

\* Where trackers are not transferred either, none becomes defunct, and nothing is
\* asked of the client.
LEMMA NeverLate ==
  ASSUME NothingRemoved, Transferable = {}
  PROVE  FullSpec => []NoneLate
<1>1. FullInit => defunct = {} /\ HoldInv
  BY HoldInit DEF FullInit, Init
<1>2. Core /\ defunct = {} /\ HoldInv /\ [FullNext]_fullVars => (defunct = {})' /\ HoldInv'
  <2> SUFFICES ASSUME Core, defunct = {}, HoldInv, [FullNext]_fullVars
               PROVE  defunct' = {} /\ HoldInv'
    OBVIOUS
  <2>1. CASE [Next]_vars
    BY <2>1, NextHolds, PeacefulStep DEF NoneLate, HoldInv, NothingRemoved
  <2>2. CASE AddedStep
    <3>1. ASSUME NEW u \in Unit, Split(u) PROVE UNCHANGED defunct
      BY <3>1
      DEF Split, GetRequestedSymbols, vars, RequestedAssertFails, AdriftAborts, ReplaceRunning,
          ReplaceLazily, Delegate, SplitRefused, DefineMaterializing, DefineMaterializingFails,
          trackerVars
    <3>2. UNCHANGED defunct
      BY <2>2, <3>1
      DEF AddedStep, TransferTracker, RemoveDefaultTracker, NothingRemoved, RemoveSymbols,
          trackerVars
    <3> QED
      BY <2>2, <3>2, AddedHolds
  <2> QED
    BY <2>1, <2>2, FullSteps
<1>3. defunct = {} => NoneLate
  BY DEF NoneLate
<1>4. Undefinable = {}
  BY DEF NothingRemoved
<1> QED
  BY <1>1, <1>2, <1>3, <1>4, FullCoreCorrect, PTL DEF FullSpec

\* So no symbol is stranded or materialized twice there, and no lookup answered twice.
COROLLARY SplitSafe ==
  ASSUME NothingRemoved, Transferable = {}
  PROVE  FullSpec => [](HeldOnce /\ NoStrandedSymbol /\ OneOwner /\ AnsweredOnce)
<1>1. HoldInv => NoneUnwinding
  BY DEF HoldInv, PeacefulInv
<1>2. HoldInv => NoStrandedSymbol /\ OneOwner
  <2> SUFFICES ASSUME HoldInv PROVE NoStrandedSymbol /\ OneOwner
    OBVIOUS
  <2>1. NoStrandedSymbol
    BY HeldOwned DEF NoStrandedSymbol, Unlocked, HoldInv, StrandInv, StrandOf, PeacefulInv
  <2>2. OneOwner
    BY DEF OneOwner, HoldInv, OwnInv, HeldMoving, HeldByOne, Holding, Live
  <2> QED
    BY <2>1, <2>2
<1>3. Undefinable = {}
  BY DEF NothingRemoved
<1> QED
  BY <1>1, <1>2, <1>3, NeverLate, HoldCorrect, HeldCorrect, FullOnceCorrect, PTL

-----------------------------------------------------------------------------
(***************************************************************************)
(* Readiness in the session with splitting and transfer.                   *)
(***************************************************************************)

\* Splitting and transferring leave the graph, the queries and what has failed
\* alone; symbols are claimed out of nothing.
LEMMA AddedFrame ==
  ASSUME NothingRemoved, Core, AddedStep
  PROVE  /\ UNCHANGED <<graphVars, queryVars, hasError, historyVars, todo, newDeps>>
         /\ section' = section \/ section' = "aborted"
         /\ \A s \in Sym : \/ symState'[s] = symState[s]
                           \/ symState[s] = Absent /\ symState'[s] = Materializing
<1>1. UNCHANGED <<graphVars, queryVars>>
  BY AddedKeeps
<1>2. ~ RemoveDefaultTracker /\ ~ \E S \in SUBSET Sym : RemoveSymbols(S)
  BY DEF RemoveDefaultTracker, RemoveSymbols, NothingRemoved
<1>3. \A s \in Sym : \/ symState'[s] = symState[s]
                     \/ symState[s] = Absent /\ symState'[s] = Materializing
  <2>1. ASSUME NEW u \in Unit, NEW K \in SUBSET ClaimSyms[u], DefineMaterializing(u, K)
        PROVE  \A s \in Sym : \/ symState'[s] = symState[s]
                              \/ symState[s] = Absent /\ symState'[s] = Materializing
    BY <2>1 DEF DefineMaterializing, Accepted, Present
  <2> QED
    BY <1>2, <2>1, AddedStates
<1>4. ASSUME NEW u \in Unit, Split(u)
      PROVE  /\ UNCHANGED <<hasError, historyVars, todo, newDeps>>
             /\ section' = section \/ section' = "aborted"
  <2>1. CASE GetRequestedSymbols(u)
    BY <2>1 DEF GetRequestedSymbols, vars, tableVars, lockVars
  <2>2. CASE RequestedAssertFails(u) \/ AdriftAborts(u)
    BY <2>2 DEF RequestedAssertFails, AdriftAborts, tableVars
  <2>3. ASSUME NEW v \in Spare, NEW S \in SUBSET usyms[u],
               ReplaceRunning(u, v, S) \/ ReplaceLazily(u, v, S) \/ Delegate(u, v, S)
        PROVE  UNCHANGED <<hasError, historyVars, lockVars>>
    BY <2>3 DEF ReplaceRunning, ReplaceLazily, Delegate, tableVars
  <2>4. ASSUME NEW S \in SUBSET usyms[u], SplitRefused(u, S)
        PROVE  UNCHANGED <<hasError, historyVars, lockVars>>
    BY <2>4 DEF SplitRefused, tableVars
  <2>5. ASSUME NEW K \in SUBSET ClaimSyms[u],
               DefineMaterializing(u, K) \/ DefineMaterializingFails(u, K)
        PROVE  UNCHANGED <<hasError, historyVars, lockVars>>
    BY <2>5 DEF DefineMaterializing, DefineMaterializingFails, tableVars
  <2> QED
    BY <1>4, <2>1, <2>2, <2>3, <2>4, <2>5 DEF Split, lockVars
<1>5. ASSUME NEW src \in Tracker, NEW dst \in Tracker, TransferTracker(src, dst)
      PROVE  UNCHANGED <<hasError, historyVars, lockVars>>
  BY <1>5 DEF TransferTracker, tableVars
<1> QED
  BY <1>1, <1>2, <1>3, <1>4, <1>5 DEF AddedStep, lockVars

\* A unit that a split makes was not linking before.
LEMMA AddedLink ==
  ASSUME NothingRemoved, Core, LinkInv, AddedStep
  PROVE  LinkInv'
<1>0. TypeOK
  BY DEF Core, Base
<1>1. UNCHANGED qphase
  BY AddedKeeps DEF queryVars
<1>2. ASSUME NEW u \in Unit, NEW v \in Spare, NEW S \in SUBSET usyms[u],
             ReplaceRunning(u, v, S) \/ ReplaceLazily(u, v, S) \/ Delegate(u, v, S)
      PROVE  LinkInv'
  <2>1. /\ phase[u] = "running" /\ phase[v] = "new" /\ v \in Unit
        /\ \A w \in Unit \ {v} : phase'[w] = phase[w]
        /\ \A w \in Unit \ {u, v} : usyms'[w] = usyms[w]
    BY <1>0, <1>2, SplitAssumption
    DEF ReplaceRunning, ReplaceLazily, Delegate, Splits, Active, TypeOK, UnitType
  <2>2. \A q \in Query : LinkQuery[v] = q => qphase[q] # "matched"
    BY <2>1 DEF LinkInv
  <2> QED
    BY <1>1, <2>1, <2>2 DEF LinkInv
<1>3. ASSUME NEW u \in Unit, NEW K \in SUBSET ClaimSyms[u], DefineMaterializing(u, K)
      PROVE  LinkInv'
  <2>1. /\ phase[u] = "running" /\ UNCHANGED phase
        /\ \A w \in Unit \ {u} : usyms'[w] = usyms[w]
    BY <1>0, <1>3 DEF DefineMaterializing, Active, TypeOK, UnitType
  <2> QED
    BY <1>1, <2>1 DEF LinkInv
<1>4. ASSUME NEW u \in Unit, NEW S \in SUBSET usyms[u], SplitRefused(u, S) PROVE LinkInv'
  <2>1. phase[u] = "running" /\ UNCHANGED phase /\ \A w \in Unit \ {u} : usyms'[w] = usyms[w]
    BY <1>0, <1>4 DEF SplitRefused, Splits, Active, TypeOK, UnitType
  <2> QED
    BY <1>1, <2>1 DEF LinkInv
<1>5. CASE UNCHANGED <<phase, usyms>>
  BY <1>1, <1>5 DEF LinkInv
<1>6. ASSUME NEW u \in Unit, Split(u) PROVE LinkInv'
  <2>1. CASE \/ GetRequestedSymbols(u) \/ RequestedAssertFails(u) \/ AdriftAborts(u)
             \/ \E K \in SUBSET ClaimSyms[u] : DefineMaterializingFails(u, K)
    BY <1>5, <2>1
    DEF GetRequestedSymbols, vars, RequestedAssertFails, AdriftAborts, DefineMaterializingFails,
        unitVars
  <2> QED
    BY <1>2, <1>3, <1>4, <1>6, <2>1 DEF Split
<1> QED
  BY <1>5, <1>6 DEF AddedStep, TransferTracker, RemoveDefaultTracker, RemoveSymbols, NothingRemoved

LEMMA AddedMoving ==
  ASSUME NothingRemoved, Core, MovingInv, AddedStep
  PROVE  MovingInv'
<1>0. symState \in [Sym -> SymbolState] /\ hasError \subseteq Sym
  BY DEF Core, Base, TypeOK, TableType
<1>1. RegisteringInv /\ WaitersMoving /\ FailedInv
  BY DEF MovingInv
<1>2. /\ UNCHANGED <<mi, unemitted, hasError, todo>>
      /\ section' = section \/ section' = "aborted"
      /\ \A s \in Sym : \/ symState'[s] = symState[s]
                        \/ symState[s] = Absent /\ symState'[s] = Materializing
  BY AddedFrame DEF graphVars
<1>3. section = "fail" => section' = section
  <2>1. section = "fail" => UNCHANGED section
    BY DEF AddedStep, Split, GetRequestedSymbols, RequestedAssertFails, AdriftAborts,
       ReplaceRunning, ReplaceLazily, Delegate, SplitRefused, DefineMaterializing,
       DefineMaterializingFails, TransferTracker, RemoveDefaultTracker, RemoveSymbols, Unlocked
  <2> QED
    BY <2>1
<1>4. section' = "deps" => \A n \in todo' : symState'[n] \in {Materializing, Resolved}
  <2>1. todo \subseteq Sym
    BY DEF Core, Base, TypeOK, LockType
  <2> QED
    BY <1>1, <1>2, <2>1 DEF RegisteringInv
<1>5. section' = "emit" => todo' \cap hasError = {}
  BY <1>1, <1>2 DEF FailedInv
<1>6. section' = "fail" => \A s \in todo' : symState'[s] \in {Materializing, Resolved} \/ s \in hasError
  <2>1. todo \subseteq Sym
    BY DEF Core, Base, TypeOK, LockType
  <2> QED
    BY <1>1, <1>2, <2>1 DEF FailedInv
<1>7. RegisteringInv' /\ WaitersMoving' /\ FailedInv'
  BY <1>0, <1>1, <1>2, <1>3, <1>4, <1>5, <1>6, MovingKept
<1> QED
  BY <1>7, AddedLink DEF MovingInv

\* The invariant of readiness and of what is waited for, in the larger session.
GraphHeld == HoldInv /\ MovingInv /\ WaitsSound /\ WaitsComplete

LEMMA GraphHeldStep ==
  ASSUME NothingRemoved, Core, NoneLate, GraphHeld, [FullNext]_fullVars
  PROVE  GraphHeld'
<1>0. OwnInv /\ SettledInv /\ HoldInv /\ Removable = {} /\ MovingInv /\ WaitsSound /\ WaitsComplete
  BY DEF GraphHeld, HoldInv, SettledInv, NothingRemoved
<1>1. CASE [Next]_vars
  BY <1>0, <1>1, NextHolds, MovingStep, WaitsStep DEF GraphHeld
<1>2. CASE AddedStep
  <2>1. /\ UNCHANGED <<unemitted, declared, hasError>>
        /\ \A s \in Sym : symState[s] \in {Emitted, Ready} => symState'[s] = symState[s]
    BY <1>2, AddedFrame DEF graphVars, historyVars
  <2>2. declared \in [Sym -> SUBSET Sym]
    BY DEF Core, Base, TypeOK, HistoryType
  <2>3. WaitsSound' /\ WaitsComplete'
    BY <1>0, <2>1, <2>2, WaitsKept
  <2> QED
    BY <1>0, <1>2, <2>3, AddedHolds, AddedMoving DEF GraphHeld
<1> QED
  BY <1>1, <1>2, FullSteps

LEMMA GraphHeldInit ==
  ASSUME FullInit
  PROVE  GraphHeld
  BY HoldInit, MovingInit, WaitsInit DEF FullInit, GraphHeld

LEMMA GraphHeldCorrect ==
  ASSUME NothingRemoved
  PROVE  FullSpec /\ []NoneLate => []GraphHeld
<1>1. Undefinable = {}
  BY DEF NothingRemoved
<1> QED
  BY <1>1, GraphHeldInit, GraphHeldStep, FullCoreCorrect, PTL DEF FullSpec

\* Splitting a responsibility, claiming symbols and transferring trackers do not
\* disturb readiness: emit, failSymbols and addDependencies still implement readiness
\* of everything a symbol depends on, whichever responsibility emits it.
THEOREM FullReadinessCorrect ==
  ASSUME NothingRemoved
  PROVE  FullSpec /\ []NoneLate => ReadinessIsClosure
<1>1. FullInit => Readiness!Init
  BY DEF FullInit, Init, Readiness!Init
<1>2. Core /\ GraphHeld => ReadyIsClosed
  BY ClosureOfEmitted DEF GraphHeld, HoldInv, SettledInv
<1>3. Core /\ GraphHeld /\ ReadyIsClosed' /\ [FullNext]_fullVars
      => [Readiness!Next]_(Readiness!vars)
  <2> SUFFICES ASSUME Core, GraphHeld, ReadyIsClosed', [FullNext]_fullVars
               PROVE  [Readiness!Next]_(Readiness!vars)
    OBVIOUS
  <2>1. CASE [Next]_vars
    BY <2>1, ReadinessStep DEF GraphHeld, HoldInv, SettledInv, NothingRemoved
  <2>2. CASE AddedStep
    <3>1. /\ UNCHANGED <<declared, hasError>>
          /\ \A s \in Sym : \/ symState'[s] = symState[s]
                            \/ symState[s] = Absent /\ symState'[s] = Materializing
      BY <2>2, AddedFrame DEF historyVars
    <3>2. EmittedSyms' = EmittedSyms /\ ReadySyms' = ReadySyms
      BY <3>1 DEF EmittedSyms, ReadySyms
    <3> QED
      BY <3>1, <3>2 DEF Readiness!vars, EmittedSyms, ReadySyms
  <2> QED
    BY <2>1, <2>2, FullSteps
<1>4. Undefinable = {}
  BY DEF NothingRemoved
<1> QED
  BY <1>1, <1>2, <1>3, <1>4, GraphHeldCorrect, FullCoreCorrect,
     PTL DEF FullSpec, ReadinessIsClosure, Readiness!Spec

-----------------------------------------------------------------------------
(***************************************************************************)
(* What is waited for is not lazy again.  Where dependences are registered *)
(* by lookups only, a symbol that a sound one waits for is resolved, or a  *)
(* query is pending on it whose failure would reach the waiter: replace    *)
(* then finds the query and materializes the symbol at once.               *)
(***************************************************************************)

\* When y fails, x fails with it or has failed before.
Reaches(x, y) ==
  \/ y = x
  \/ y \in unemitted[x]
  \/ symState[y] = Emitted /\ y \notin hasError /\ unemitted[y] \subseteq unemitted[x] \cup {x}

\* Some query on d will not be detached while x is sound.
AskedFor(x, d) == \E q \in pending[d] : \A y \in Sym : q \in pending[y] => Reaches(x, y)

WaitsAsked == \A x \in Sym \ hasError : \A d \in unemitted[x] :
  d \notin attached /\ (symState[d] = Resolved \/ AskedFor(x, d))

\* The dependences that a lookup registers are on what its query is pending on.
LodgedInv == section = "deps" =>
  /\ newDeps \cap (attached \cup hasError) = {}
  /\ \E q \in Query : \A y \in Sym : q \in pending[y] <=> y \in newDeps

LazyUnasked == \A s \in attached : pending[s] = {}

AskedInv == WaitsAsked /\ LodgedInv /\ LazyUnasked

\* Where no edge changes, nothing waited for becomes lazy and a query is lost only
\* on what is resolved.
LEMMA AskedKept ==
  ASSUME WaitsAsked, unemitted \in [Sym -> SUBSET Sym], UNCHANGED unemitted,
         hasError \subseteq hasError',
         \A x \in Sym \ hasError : unemitted[x] \cap attached' = {},
         \A x \in Sym : \A d \in unemitted[x] : symState[d] = Resolved => symState'[d] = Resolved,
         \A y \in Sym : symState[y] = Emitted /\ y \notin hasError =>
           symState'[y] = Emitted /\ y \notin hasError',
         \A d \in Sym : \A p \in pending[d] :
           \/ symState'[d] = Resolved
           \/ p \in pending'[d] /\ \A y \in Sym : p \in pending'[y] => p \in pending[y]
  PROVE  WaitsAsked'
<1> SUFFICES ASSUME NEW x \in Sym, x \notin hasError', NEW d \in unemitted[x]
             PROVE  d \notin attached' /\ (symState'[d] = Resolved \/ AskedFor(x, d)')
  BY DEF WaitsAsked
<1>1. x \notin hasError /\ d \in Sym /\ d \notin attached'
  OBVIOUS
<1>2. symState[d] = Resolved \/ AskedFor(x, d)
  BY <1>1 DEF WaitsAsked
<1>3. \A y \in Sym : Reaches(x, y) => Reaches(x, y)'
  BY DEF Reaches
<1>4. CASE AskedFor(x, d) /\ symState'[d] # Resolved
  <2>1. PICK p \in pending[d] : \A y \in Sym : p \in pending[y] => Reaches(x, y)
    BY <1>4 DEF AskedFor
  <2>2. p \in pending'[d] /\ \A y \in Sym : p \in pending'[y] => p \in pending[y]
    BY <1>1, <1>4
  <2>3. AskedFor(x, d)'
    BY <1>3, <2>1, <2>2 DEF AskedFor
  <2> QED
    BY <1>1, <2>3
<1> QED
  BY <1>1, <1>2, <1>4

\* addDependencies: n comes to wait for what the query of its unit is pending on, or
\* for what an emitted symbol among these waits for.
LEMMA AddDependenciesAsked ==
  ASSUME Core, MovingInv, AskedInv, NEW n \in Sym, AddDependencies(n)
  PROVE  AskedInv'
<1>0. TypeOK /\ newDeps \subseteq Sym /\ unemitted \in [Sym -> SUBSET Sym]
  BY DEF Core, Base, TypeOK, LockType, GraphType
<1>1. /\ section = "deps" /\ n \in todo /\ n \notin hasError
      /\ UNCHANGED <<symState, attached, pending>>
      /\ unemitted'[n] = unemitted[n] \cup NewEdges(n)
      /\ \A x \in Sym \ {n} : unemitted'[x] = unemitted[x]
      /\ section' = "deps" => newDeps' = newDeps
  BY <1>0 DEF AddDependencies, Continue, queryVars
<1>2. PICK q \in Query : \A y \in Sym : q \in pending[y] <=> y \in newDeps
  BY <1>1 DEF AskedInv, LodgedInv
<1>3. /\ newDeps \cap (attached \cup hasError) = {}
      /\ \A d \in newDeps : symState[d] # Ready
  <2>1. \A d \in newDeps : d \in mi
    BY <1>0, <1>2, PendingHasInfo
  <2>2. \A d \in newDeps : symState[d] # Ready
    BY <1>0, <2>1, InfoPresent
  <2> QED
    BY <1>1, <2>2 DEF AskedInv, LodgedInv
<1>4. UNCHANGED hasError /\ InFlight(newDeps) = newDeps
  BY <1>3 DEF AddDependencies, InFlight
<1>5. symState[n] # Emitted
  BY <1>1 DEF MovingInv, RegisteringInv
<1>6. \A x, y \in Sym : Reaches(x, y) => Reaches(x, y)'
  BY <1>1, <1>4, <1>5 DEF Reaches
<1>7. \A x, d \in Sym : AskedFor(x, d) => AskedFor(x, d)'
  BY <1>1, <1>6 DEF AskedFor
<1>8. ASSUME NEW d \in NewEdges(n)
      PROVE  d \notin attached /\ (symState[d] = Resolved \/ AskedFor(n, d)')
  <2>1. CASE d \in newDeps /\ symState[d] # Emitted
    <3>1. \A y \in newDeps : Reaches(n, y)'
      <4> SUFFICES ASSUME NEW y \in newDeps PROVE Reaches(n, y)'
        OBVIOUS
      <4>1. CASE y = n
        BY <4>1 DEF Reaches
      <4>2. CASE y # n /\ symState[y] # Emitted
        <5>1. y \in NewEdges(n)
          BY <1>4, <4>2 DEF NewEdges
        <5> QED
          BY <1>1, <5>1 DEF Reaches
      <4>3. CASE y # n /\ symState[y] = Emitted
        <5>1. unemitted[y] \subseteq NewEdges(n) \cup {n}
          BY <1>4, <4>3 DEF NewEdges
        <5> QED
          BY <1>0, <1>1, <1>3, <1>4, <4>3, <5>1 DEF Reaches
      <4> QED
        BY <4>1, <4>2, <4>3
    <3>2. q \in pending'[d] /\ \A y \in Sym : q \in pending'[y] => y \in newDeps
      BY <1>0, <1>1, <1>2, <2>1
    <3>3. AskedFor(n, d)'
      BY <3>1, <3>2 DEF AskedFor
    <3> QED
      BY <1>3, <2>1, <3>3
  <2>2. CASE \E e \in newDeps : symState[e] = Emitted /\ d \in unemitted[e]
    <3>1. PICK e \in newDeps : symState[e] = Emitted /\ d \in unemitted[e]
      BY <2>2
    <3>2. e \in Sym \ hasError /\ e # n /\ unemitted'[e] = unemitted[e] /\ e \notin hasError'
      BY <1>0, <1>1, <1>3, <1>4, <1>5, <3>1
    <3>3. unemitted[e] \subseteq unemitted'[n] \cup {n}
      BY <1>1, <1>4, <3>1 DEF NewEdges
    <3>4. \A y \in Sym : Reaches(e, y) => Reaches(n, y)'
      <4> SUFFICES ASSUME NEW y \in Sym, Reaches(e, y) PROVE Reaches(n, y)'
        OBVIOUS
      <4>1. CASE y = e
        BY <1>1, <3>1, <3>2, <3>3, <4>1 DEF Reaches
      <4>2. CASE y \in unemitted[e]
        BY <3>3, <4>2 DEF Reaches
      <4>3. CASE symState[y] = Emitted /\ y \notin hasError /\ unemitted[y] \subseteq unemitted[e] \cup {e}
        <5>1. e \notin unemitted[y]
          BY <3>1 DEF Core, Base, GraphInv, WaitsForUnemitted
        <5>2. y # n /\ unemitted'[y] = unemitted[y]
          BY <1>1, <1>5, <4>3
        <5> QED
          BY <1>1, <1>4, <3>3, <4>3, <5>1, <5>2 DEF Reaches
      <4> QED
        BY <4>1, <4>2, <4>3 DEF Reaches
    <3>5. d \notin attached /\ (symState[d] = Resolved \/ AskedFor(e, d))
      BY <3>1, <3>2 DEF AskedInv, WaitsAsked
    <3>6. AskedFor(e, d) => AskedFor(n, d)'
      BY <1>1, <3>4 DEF AskedFor
    <3> QED
      BY <3>5, <3>6
  <2>3. \/ d \in newDeps /\ symState[d] # Emitted
        \/ \E e \in newDeps : symState[e] = Emitted /\ d \in unemitted[e]
    BY <1>4 DEF NewEdges
  <2> QED
    BY <2>1, <2>2, <2>3
<1>9. WaitsAsked'
  <2> SUFFICES ASSUME NEW x \in Sym, x \notin hasError, NEW d \in unemitted'[x]
               PROVE  d \notin attached /\ (symState[d] = Resolved \/ AskedFor(x, d)')
    BY <1>1, <1>4 DEF WaitsAsked
  <2>1. CASE d \in unemitted[x]
    <3>1. d \in Sym /\ d \notin attached /\ (symState[d] = Resolved \/ AskedFor(x, d))
      BY <1>0, <2>1 DEF AskedInv, WaitsAsked
    <3> QED
      BY <1>7, <3>1
  <2>2. CASE d \notin unemitted[x]
    <3>1. x = n /\ d \in NewEdges(n)
      BY <1>1, <2>2
    <3> QED
      BY <1>8, <3>1
  <2> QED
    BY <2>1, <2>2
<1>10. LodgedInv'
  BY <1>1, <1>4 DEF AskedInv, LodgedInv
<1>11. LazyUnasked'
  BY <1>1 DEF AskedInv, LazyUnasked
<1> QED
  BY <1>9, <1>10, <1>11 DEF AskedInv

\* emit: what waited for s goes on waiting for what s waits for, by the same queries.
LEMMA EmitSymbolAsked ==
  ASSUME Core, MovingInv, AskedInv, NEW s \in Sym, EmitSymbol(s)
  PROVE  AskedInv'
<1>0. /\ TypeOK /\ unemitted \in [Sym -> SUBSET Sym] /\ symState \in [Sym -> SymbolState]
      /\ pending \in [Sym -> SUBSET Query] /\ attached \subseteq Sym
  BY DEF Core, Base, TypeOK, GraphType, TableType, QueryType
<1>1. /\ section = "emit" /\ s \in todo /\ UNCHANGED <<hasError, attached>>
      /\ section' # "deps"
      /\ symState' = [x \in Sym |-> IF x \in ReadyAfter(s) THEN Ready
                                    ELSE IF x = s THEN Emitted ELSE symState[x]]
      /\ unemitted' = UnemittedAfter(s)
      /\ pending' = [z \in Sym |-> pending[z] \ TakeQueriesMeeting(ReadyAfter(s), Ready)[z]]
  BY DEF EmitSymbol, NotifyMet, Continue
<1>2. s \notin hasError /\ symState[s] = Resolved
  BY <1>1 DEF MovingInv, FailedInv, Core, Base, TableInv, EmitsResolved
<1>3. \A x \in Sym : /\ x \notin unemitted[x]
                     /\ unemitted'[x] = IF s \in unemitted[x]
                                        THEN (unemitted[x] \ {s}) \cup (unemitted[s] \ {x})
                                        ELSE unemitted[x]
  BY <1>1 DEF UnemittedAfter, Inherited, Core, Base, GraphInv, DepsMirrored, NoSelfWait
<1>4. \A z \in Sym : /\ z \in ReadyAfter(s) => z = s \/ symState[z] = Emitted
                     /\ z \in ReadyAfter(s) => pending'[z] = {}
                     /\ z \notin ReadyAfter(s) => pending'[z] = pending[z]
  <2>1. \A z \in ReadyAfter(s) : z = s \/ symState[z] = Emitted
    BY DEF ReadyAfter
  <2>2. \A q \in Query : QueryState[q] <= Ready
    BY WorkloadAssumption
  <2> QED
    BY <1>0, <1>1, <2>1, <2>2 DEF TakeQueriesMeeting
<1>5. \A x \in Sym : \A d \in unemitted[x] : d \in Sym /\ symState[d] # Emitted
  BY <1>0 DEF Core, Base, GraphInv, WaitsForUnemitted
\* What is not ready now and reached x, or reached s and x waited for s, reaches x.
<1>6. ASSUME NEW x \in Sym, NEW y \in Sym, pending'[y] # {},
             Reaches(x, y) \/ (s \in unemitted[x] /\ Reaches(s, y))
      PROVE  Reaches(x, y)'
  <2>1. y \notin ReadyAfter(s)
    BY <1>4, <1>6
  <2>2. symState'[y] = IF y = s THEN Emitted ELSE symState[y]
    BY <1>1, <2>1
  <2>3. CASE y = s /\ (x = s \/ s \in unemitted[x])
    BY <1>1, <1>2, <1>3, <2>2, <2>3 DEF Reaches
  <2>4. CASE y # s /\ (y \in unemitted[x] \/ (s \in unemitted[x] /\ y \in unemitted[s]))
    BY <1>3, <2>4 DEF Reaches
  <2>5. CASE symState[y] = Emitted /\ y \notin hasError /\ unemitted[y] \subseteq unemitted[x] \cup {x}
    <3>1. unemitted'[y] \subseteq unemitted'[x] \cup {x}
      <4>1. CASE s \notin unemitted[y]
        BY <1>3, <2>5, <4>1
      <4>2. CASE s \in unemitted[y] /\ s # x
        BY <1>3, <2>5, <4>2
      <4>3. CASE s \in unemitted[y] /\ s = x
        BY <1>3, <2>5, <4>3
      <4> QED
        BY <4>1, <4>2, <4>3
    <3> QED
      BY <1>1, <1>2, <2>2, <2>5, <3>1 DEF Reaches
  <2>6. CASE /\ s \in unemitted[x]
             /\ symState[y] = Emitted /\ y \notin hasError /\ unemitted[y] \subseteq unemitted[s] \cup {s}
    <3>1. unemitted'[y] \subseteq unemitted'[x] \cup {x}
      <4>1. unemitted[s] \subseteq unemitted'[x] \cup {x}
        BY <1>3, <2>6
      <4>2. unemitted'[y] \subseteq unemitted[s]
        <5>1. CASE s \in unemitted[y]
          <6>1. unemitted'[y] = (unemitted[y] \ {s}) \cup (unemitted[s] \ {y})
            BY <1>3, <5>1
          <6> QED
            BY <2>6, <6>1
        <5>2. CASE s \notin unemitted[y]
          <6>1. unemitted'[y] = unemitted[y]
            BY <1>3, <5>2
          <6> QED
            BY <2>6, <5>2, <6>1
        <5> QED
          BY <5>1, <5>2
      <4> QED
        BY <4>1, <4>2
    <3> QED
      BY <1>1, <1>2, <2>2, <2>6, <3>1 DEF Reaches
  <2>7. CASE y = x
    BY <2>7 DEF Reaches
  <2> QED
    BY <1>6, <2>3, <2>4, <2>5, <2>6, <2>7 DEF Reaches
<1>7. ASSUME NEW x \in Sym, NEW d \in Sym, d # s, symState[d] # Emitted,
             AskedFor(x, d) \/ (s \in unemitted[x] /\ AskedFor(s, d))
      PROVE  AskedFor(x, d)'
  <2>1. pending'[d] = pending[d]
    BY <1>4, <1>7
  <2>2. PICK q \in pending[d] : \/ \A y \in Sym : q \in pending[y] => Reaches(x, y)
                                \/ /\ s \in unemitted[x]
                                   /\ \A y \in Sym : q \in pending[y] => Reaches(s, y)
    BY <1>7 DEF AskedFor
  <2>3. \A y \in Sym : q \in pending'[y] => q \in pending[y] /\ pending'[y] # {}
    BY <1>4
  <2>4. \A y \in Sym : q \in pending'[y] => Reaches(x, y)'
    BY <1>6, <2>2, <2>3
  <2> QED
    BY <2>1, <2>4 DEF AskedFor
<1>8. WaitsAsked'
  <2> SUFFICES ASSUME NEW x \in Sym, x \notin hasError, NEW d \in unemitted'[x]
               PROVE  d \notin attached /\ (symState'[d] = Resolved \/ AskedFor(x, d)')
    BY <1>1 DEF WaitsAsked
  <2>1. \/ d \in unemitted[x]
        \/ s \in unemitted[x] /\ d \in unemitted[s]
    BY <1>3
  <2>2. d \in Sym /\ d # s /\ symState[d] # Emitted
    BY <1>2, <1>3, <1>5, <2>1
  <2>3. symState'[d] = symState[d]
    BY <1>1, <1>4, <2>2
  <2>4. /\ d \notin attached
        /\ \/ symState[d] = Resolved
           \/ AskedFor(x, d)
           \/ s \in unemitted[x] /\ AskedFor(s, d)
    BY <1>2, <2>1 DEF AskedInv, WaitsAsked
  <2> QED
    BY <1>7, <2>2, <2>3, <2>4
<1>9. LodgedInv'
  BY <1>1 DEF LodgedInv
<1>10. LazyUnasked'
  BY <1>0, <1>1 DEF AskedInv, LazyUnasked
<1> QED
  BY <1>8, <1>9, <1>10 DEF AskedInv

\* failSymbols: the query that s detaches was on nothing a sound symbol waits for,
\* unless another query is.
LEMMA FailSymbolAsked ==
  ASSUME Core, MovingInv, AskedInv, section # "untrack", NEW s \in Sym, FailSymbol(s)
  PROVE  AskedInv'
<1>0. /\ TypeOK /\ unemitted \in [Sym -> SUBSET Sym] /\ pending \in [Sym -> SUBSET Query]
      /\ attached \subseteq Sym
  BY DEF Core, Base, TypeOK, GraphType, QueryType, TableType
<1>1. /\ section = "fail" /\ section' # "deps" /\ s \in todo
      /\ UNCHANGED <<symState, attached>>
      /\ hasError' = hasError \cup {s} \cup dependants[s]
      /\ unemitted' = UnemittedWithout(s)
      /\ pending' = PendingWithout(pending[s])
  BY DEF FailSymbol, Continue, Detach
<1>2. \A x \in Sym : /\ unemitted'[x] \subseteq unemitted[x]
                     /\ x \notin hasError' => unemitted'[x] = unemitted[x]
                     /\ s \in unemitted[x] <=> x \in dependants[s]
  BY <1>1 DEF UnemittedWithout, Core, Base, GraphInv, DepsMirrored
<1>3. \A y \in Sym : pending'[y] = {q \in pending[y] : q \notin pending[s]}
  BY <1>0, <1>1 DEF PendingWithout, Core, Base, QueryInv, RegistrationsMirrored
<1>4. symState[s] = Emitted => s \in hasError
  BY <1>1 DEF MovingInv, FailedInv
<1>5. ASSUME NEW x \in Sym, x \notin hasError', NEW y \in Sym, Reaches(x, y)
      PROVE  y # s /\ Reaches(x, y)'
  <2>1. x # s /\ s \notin unemitted[x] /\ unemitted'[x] = unemitted[x]
    BY <1>1, <1>2, <1>5
  <2>2. CASE y = x \/ y \in unemitted[x]
    BY <2>1, <2>2 DEF Reaches
  <2>3. CASE symState[y] = Emitted /\ y \notin hasError /\ unemitted[y] \subseteq unemitted[x] \cup {x}
    <3>1. y # s /\ s \notin unemitted[y]
      BY <1>4, <2>1, <2>3
    <3>2. y \notin hasError'
      BY <1>1, <1>2, <2>3, <3>1
    <3> QED
      BY <1>1, <1>2, <2>1, <2>3, <3>1, <3>2 DEF Reaches
  <2> QED
    BY <1>5, <2>2, <2>3 DEF Reaches
<1>6. WaitsAsked'
  <2> SUFFICES ASSUME NEW x \in Sym, x \notin hasError', NEW d \in unemitted'[x]
               PROVE  d \notin attached /\ (symState[d] = Resolved \/ AskedFor(x, d)')
    BY <1>1 DEF WaitsAsked
  <2>1. x \notin hasError /\ d \in unemitted[x] /\ d \in Sym
    BY <1>0, <1>1, <1>2
  <2>2. d \notin attached /\ (symState[d] = Resolved \/ AskedFor(x, d))
    BY <2>1 DEF AskedInv, WaitsAsked
  <2>3. AskedFor(x, d) => AskedFor(x, d)'
    <3> SUFFICES ASSUME NEW q \in pending[d], \A y \in Sym : q \in pending[y] => Reaches(x, y)
                 PROVE  AskedFor(x, d)'
      BY DEF AskedFor
    <3>1. q \notin pending[s]
      BY <1>5
    <3>2. q \in pending'[d] /\ \A y \in Sym : q \in pending'[y] => q \in pending[y]
      BY <1>3, <2>1, <3>1
    <3> QED
      BY <1>5, <3>2 DEF AskedFor
  <2> QED
    BY <2>2, <2>3
<1>7. LodgedInv'
  BY <1>1 DEF LodgedInv
<1>8. LazyUnasked'
  BY <1>0, <1>1, <1>3 DEF AskedInv, LazyUnasked
<1> QED
  BY <1>6, <1>7, <1>8 DEF AskedInv

\* notifyResolved: a query that it takes was on what is resolved now.
LEMMA ResolvedAsked ==
  ASSUME Core, AskedInv, NEW u \in Unit, NEW R \in SUBSET Sym, NotifyResolved(u, R)
  PROVE  AskedInv'
<1>0. unemitted \in [Sym -> SUBSET Sym] /\ pending \in [Sym -> SUBSET Query] /\ attached \subseteq Sym
  BY DEF Core, Base, TypeOK, GraphType, QueryType, TableType
<1>1. /\ section' = "free" /\ UNCHANGED <<hasError, attached, unemitted>>
      /\ \A s \in R : symState[s] = Materializing
      /\ \A s \in Sym : symState'[s] = IF s \in R THEN Resolved ELSE symState[s]
      /\ \A s \in Sym : pending'[s] \subseteq pending[s]
      /\ \A s \in Sym \ R : pending'[s] = pending[s]
  BY <1>0 DEF NotifyResolved, NotifyMet, TakeQueriesMeeting, Unlocked, lockVars, graphVars
<1>2. \A d \in Sym : \A p \in pending[d] :
        \/ symState'[d] = Resolved
        \/ p \in pending'[d] /\ \A y \in Sym : p \in pending'[y] => p \in pending[y]
  BY <1>1
<1>3. \A x \in Sym \ hasError : unemitted[x] \cap attached = {}
  BY DEF AskedInv, WaitsAsked
<1>4. WaitsAsked'
  BY <1>0, <1>1, <1>2, <1>3, AskedKept DEF AskedInv
<1>5. LodgedInv' /\ LazyUnasked'
  BY <1>0, <1>1 DEF AskedInv, LodgedInv, LazyUnasked
<1> QED
  BY <1>4, <1>5 DEF AskedInv

\* A lookup that fails has not registered its query yet; one that succeeds registers
\* it where it starts what is lazy.
LEMMA LookUpAsked ==
  ASSUME Core, OwnInv, PeacefulInv, AskedInv, NEW q \in Query, LookUp(q)
  PROVE  AskedInv'
<1>0. /\ unemitted \in [Sym -> SUBSET Sym] /\ pending \in [Sym -> SUBSET Query]
      /\ attached \subseteq Sym /\ TypeOK
  BY DEF Core, Base, TypeOK, GraphType, QueryType, TableType
<1>1. (\A S \in SUBSET Sym : Waiting(q, S) \in SUBSET Sym) /\ Found(q) \in SUBSET Sym
  BY WorkloadAssumption DEF Waiting, Found
<1>2. \A x \in Sym \ hasError : unemitted[x] \cap attached = {}
  BY DEF AskedInv, WaitsAsked
<1>3. qphase[q] \in {"idle", "matched"} => \A s \in Sym : q \notin pending[s]
  BY DEF Core, Base, QueryInv, RegistrationsMirrored, UnlodgedUnregistered
<1>4. CASE LookupMatched(q) \/ MatchAssertFails(q)
  <2>1. /\ UNCHANGED <<symState, hasError, attached, unemitted, pending>> /\ section' # "deps"
    BY <1>4 DEF LookupMatched, MatchAssertFails, tableVars, graphVars, queryVars, lockVars, Unlocked
  <2>2. WaitsAsked'
    BY <1>0, <1>2, <2>1, AskedKept DEF AskedInv
  <2> QED
    BY <2>1, <2>2 DEF AskedInv, LodgedInv, LazyUnasked
<1>5. CASE LookupFails(q) \/ \E S \in SUBSET Sym : LodgeFails(q, S)
  <2>1. /\ UNCHANGED <<hasError, attached, unemitted>> /\ section' = "free"
        /\ qphase[q] \in {"idle", "matched"} /\ pending' = PendingWithout({q})
    <3>1. CASE LookupFails(q)
      BY <3>1 DEF LookupFails, Detach, tableVars, graphVars, lockVars, Unlocked
    <3>2. ASSUME NEW S \in SUBSET Sym, LodgeFails(q, S) PROVE UNCHANGED attached
      <4>1. PICK W : W = Waiting(q, S)
        OBVIOUS
      <4> QED
        BY <3>2, <4>1, PutBackApart DEF OwnInv
    <3>3. CASE \E S \in SUBSET Sym : LodgeFails(q, S)
      BY <3>2, <3>3 DEF LodgeFails, Detach, graphVars, lockVars, Unlocked
    <3> QED
      BY <1>5, <3>1, <3>3
  <2>2. \A s \in Sym : pending'[s] = pending[s]
    BY <1>0, <1>3, <2>1 DEF PendingWithout
  <2>3. \A s \in Sym : \/ symState'[s] = symState[s]
                       \/ symState[s] \in {NeverSearched, Materializing} /\ symState'[s] = Materializing
    BY LookUpSwept, StartedMoving
  <2>4. /\ \A x \in Sym : symState[x] = Resolved => symState'[x] = Resolved
        /\ \A x \in Sym : symState[x] = Emitted => symState'[x] = Emitted
    BY <2>3
  <2>5. WaitsAsked'
    <3>1. \A d \in Sym : \A p \in pending[d] :
            p \in pending'[d] /\ \A y \in Sym : p \in pending'[y] => p \in pending[y]
      BY <2>2
    <3>2. /\ \A x \in Sym \ hasError : unemitted[x] \cap attached' = {}
          /\ \A x \in Sym : \A d \in unemitted[x] :
               symState[d] = Resolved => symState'[d] = Resolved
          /\ \A y \in Sym : symState[y] = Emitted /\ y \notin hasError =>
               symState'[y] = Emitted /\ y \notin hasError'
      BY <1>0, <1>2, <2>1, <2>4
    <3>3. UNCHANGED unemitted /\ hasError \subseteq hasError'
      BY <2>1
    <3> QED
      BY <1>0, <3>1, <3>2, <3>3, AskedKept DEF AskedInv
  <2> QED
    BY <1>0, <2>1, <2>2, <2>5 DEF AskedInv, LodgedInv, LazyUnasked
<1>6. CASE LodgeQuery(q)
  <2>0. PICK W : W = Waiting(q, Found(q))
    OBVIOUS
  <2>1. /\ UNCHANGED <<hasError, unemitted>> /\ section = "free" /\ qphase[q] = "matched"
        /\ attached' = attached \ Covered(Collected(W)) /\ W \cap attached \subseteq Covered(Collected(W))
        /\ \A s \in Sym : pending'[s] = IF s \in W THEN pending[s] \cup {q} ELSE pending[s]
        /\ section' = "deps" => newDeps' = W
        /\ InError(q) = {}
    <3>1. LodgeApart(q, W, "outstanding")
      BY <1>6, <2>0, QueryApart DEF OwnInv
    <3>2. section = "free" /\ (section' = "deps" => newDeps' = W)
      BY <1>6, <2>0, QueryApart DEF OwnInv, LodgeQuery, Unlocked, lockVars
    <3> QED
      BY <1>6, <2>0, <3>1, <3>2 DEF LodgeQuery, LodgeApart, Lodge, Unlocked
  <2>2. W \in SUBSET Sym /\ W \subseteq Found(q)
    BY <1>1, <2>0 DEF Waiting
  <2>3. W \cap attached' = {} /\ W \cap hasError = {}
    BY <2>1, <2>2 DEF InError
  <2>4. \A s \in Sym : \/ symState'[s] = symState[s]
                       \/ symState[s] \in {NeverSearched, Materializing} /\ symState'[s] = Materializing
    BY LookUpSwept, StartedMoving
  <2>5. \A s \in Sym : q \notin pending[s]
    BY <1>3, <2>1
  <2>6. \A d \in Sym : \A p \in pending[d] :
          p \in pending'[d] /\ \A y \in Sym : p \in pending'[y] => p \in pending[y]
    BY <2>1, <2>5
  <2>7. WaitsAsked'
    BY <1>0, <1>2, <2>1, <2>4, <2>6, AskedKept DEF AskedInv
  <2>8. LodgedInv'
    <3>1. \A y \in Sym : q \in pending'[y] <=> y \in W
      BY <2>1, <2>5
    <3> QED
      BY <2>1, <2>3, <3>1 DEF LodgedInv
  <2>9. LazyUnasked'
    BY <1>0, <2>1, <2>3 DEF AskedInv, LazyUnasked
  <2> QED
    BY <2>7, <2>8, <2>9 DEF AskedInv
<1>7. ~ LodgeNotFound(q) /\ ~ UnwindLookup(q)
  BY DEF LodgeNotFound, UnwindLookup, PeacefulInv, NoneUnwinding
<1> QED
  BY <1>4, <1>5, <1>6, <1>7 DEF LookUp

\* What is defined was never searched for, so that nothing waits for it.
LEMMA DefineAsked ==
  ASSUME Core, MovingInv, AskedInv, NEW u \in Unit, Define(u)
  PROVE  AskedInv'
<1>0. /\ unemitted \in [Sym -> SUBSET Sym] /\ pending \in [Sym -> SUBSET Query]
      /\ attached \subseteq Sym /\ TypeOK
  BY DEF Core, Base, TypeOK, GraphType, QueryType, TableType
<1>1. Defined(u) \subseteq Sym /\ \A s \in Defined(u) : symState[s] \in {Absent, NeverSearched}
  BY <1>0 DEF Define, Duplicates, Defined, Existing, Present, TypeOK, TableType, UnitType
<1>2. /\ UNCHANGED <<unemitted, pending>> /\ section' = "free"
      /\ hasError' = hasError \ Defined(u) /\ attached' = attached \cup Defined(u)
      /\ \A s \in Sym : symState'[s] = IF s \in Defined(u) THEN NeverSearched ELSE symState[s]
  BY DEF Define, Unlocked, lockVars, graphVars, queryVars
<1>3. hasError' = hasError
  BY <1>1, <1>2 DEF MovingInv, FailedInv
<1>4. \A x \in Sym : unemitted[x] \cap Defined(u) = {}
  BY <1>0, <1>1 DEF Core, ShapeInv, GraphShape
<1>5. \A x \in Sym \ hasError : unemitted[x] \cap attached' = {}
  BY <1>2, <1>4 DEF AskedInv, WaitsAsked
<1>6. WaitsAsked'
  BY <1>0, <1>1, <1>2, <1>3, <1>4, <1>5, AskedKept DEF AskedInv
<1>7. \A s \in Defined(u) : pending[s] = {}
  <2> SUFFICES ASSUME NEW s \in Defined(u), pending[s] # {} PROVE FALSE
    OBVIOUS
  <2>1. s \in mi /\ s \in Sym
    BY <1>1, PendingHasInfo
  <2>2. symState[s] = NeverSearched
    BY <1>1, <2>1, InfoPresent
  <2> QED
    BY <2>1, <2>2 DEF Core, Base, TableInv, NeverSearchedAttached, AskedInv, LazyUnasked
<1> QED
  BY <1>2, <1>6, <1>7 DEF AskedInv, LodgedInv, LazyUnasked

LEMMA TrivialAsked ==
  ASSUME Core, MovingInv, AskedInv, section # "untrack",
         NEW s \in Sym, EmitTrivially(s) \/ FailTrivially(s)
  PROVE  AskedInv'
<1>0. /\ unemitted \in [Sym -> SUBSET Sym] /\ symState \in [Sym -> SymbolState]
  BY DEF Core, Base, TypeOK, GraphType, TableType
<1>1. UNCHANGED <<unemitted, pending, attached>> /\ section' # "deps" /\ s \in todo
  BY DEF EmitTrivially, FailTrivially, Continue, graphVars, queryVars
<1>2. \A x \in Sym \ hasError : unemitted[x] \cap attached' = {}
  BY <1>1 DEF AskedInv, WaitsAsked
<1>3. /\ hasError \subseteq hasError'
      /\ \A x \in Sym : \A d \in unemitted[x] : symState[d] = Resolved => symState'[d] = Resolved
      /\ \A y \in Sym : symState[y] = Emitted /\ y \notin hasError =>
           symState'[y] = Emitted /\ y \notin hasError'
  <2>1. CASE EmitTrivially(s)
    <3>1. symState[s] = Resolved /\ UNCHANGED hasError
      BY <1>1, <2>1 DEF EmitTrivially, Core, Base, TableInv, EmitsResolved
    <3>2. \A x \in Sym : s \notin unemitted[x]
      BY <2>1, TargetsHaveInfo DEF EmitTrivially, Core
    <3> QED
      BY <1>0, <2>1, <3>1, <3>2 DEF EmitTrivially
  <2>2. CASE FailTrivially(s)
    <3>1. symState[s] \in {Materializing, Resolved} \/ s \in hasError
      BY <2>2 DEF FailTrivially, MovingInv, FailedInv
    <3> QED
      BY <1>0, <2>2, <3>1 DEF FailTrivially
  <2> QED
    BY <2>1, <2>2
<1>4. WaitsAsked'
  BY <1>0, <1>1, <1>2, <1>3, AskedKept DEF AskedInv
<1> QED
  BY <1>1, <1>4 DEF AskedInv, LodgedInv, LazyUnasked

\* The steps of OrcSession.
LEMMA NextAsked ==
  ASSUME Removable = {}, Declarable = {}, Core, OwnInv, PeacefulInv, MovingInv, AskedInv, [Next]_vars
  PROVE  AskedInv'
<1>0. unemitted \in [Sym -> SUBSET Sym]
  BY DEF Core, Base, TypeOK, GraphType
<1>1. ASSUME UNCHANGED <<symState, hasError, attached, unemitted, pending>>,
             section' = "deps" => section = "deps" /\ newDeps' = newDeps
      PROVE  AskedInv'
  <2>1. \A x \in Sym \ hasError : unemitted[x] \cap attached = {}
    BY DEF AskedInv, WaitsAsked
  <2>2. WaitsAsked'
    BY <1>0, <1>1, <2>1, AskedKept DEF AskedInv
  <2> QED
    BY <1>1, <2>2 DEF AskedInv, LodgedInv, LazyUnasked
<1>2. ASSUME NEW u \in Unit, Materialize(u) PROVE AskedInv'
  <2>1. ASSUME NEW R \in SUBSET Sym, NotifyResolved(u, R) PROVE AskedInv'
    BY <2>1, ResolvedAsked
  <2>2. ASSUME NEW n \in Sym, NEW D \in Declarable, OL_AddDependencies(u, n, D) PROVE AskedInv'
    OBVIOUS
  <2>3. CASE \/ \E R \in SUBSET Sym : NotifyRefused(u, R)
             \/ DestroyResponsibility(u)
    BY <1>1, <2>3
    DEF NotifyRefused, DestroyResponsibility, tableVars, graphVars, queryVars, lockVars
  <2>4. CASE NotifyEmitted(u) \/ NotifyAssertFails(u) \/ FailMaterialization(u)
    BY <1>1, <2>4
    DEF NotifyEmitted, NotifyAssertFails, FailMaterialization, tableVars, graphVars, queryVars,
        Unlocked
  <2> QED
    BY <1>2, <2>1, <2>2, <2>3, <2>4 DEF Materialize
<1>3. ASSUME NEW n \in Sym, SkipDependencies(n) \/ DependenciesAssertFails(n) PROVE AskedInv'
  <2>1. CASE SkipDependencies(n)
    BY <1>1, <2>1 DEF SkipDependencies, Continue, tableVars, graphVars, queryVars
  <2>2. CASE DependenciesAssertFails(n)
    BY <1>1, <2>2 DEF DependenciesAssertFails, tableVars, graphVars, queryVars
  <2> QED
    BY <1>3, <2>1, <2>2
<1>4. ~ EraseDoomed /\ section # "untrack"
  BY DEF EraseDoomed, PeacefulInv
<1>5. \A t \in Tracker : ~ RemoveTracker(t) /\ ~ RemoveAssertFails(t)
  BY DEF RemoveTracker, RemoveAssertFails
<1>6. CASE LockedStep
  BY <1>3, <1>4, <1>6, AddDependenciesAsked, EmitSymbolAsked, FailSymbolAsked, TrivialAsked
  DEF LockedStep
<1>7. CASE \/ \E u \in Unit : DispatchUnit(u)
           \/ \E q \in Query, o \in Outcomes : NotifyComplete(q, o)
           \/ UNCHANGED vars
  BY <1>1, <1>7 DEF DispatchUnit, NotifyComplete, vars, tableVars, graphVars, queryVars, lockVars
<1> QED
  BY <1>2, <1>5, <1>6, <1>7, LookUpAsked, DefineAsked DEF Next, AtRest

\* replace finds the query that any sound waiter has on what it gives back.
LEMMA AddedAsked ==
  ASSUME NothingRemoved, Core, AskedInv, AddedStep
  PROVE  AskedInv'
<1>0. unemitted \in [Sym -> SUBSET Sym]
  BY DEF Core, Base, TypeOK, GraphType
<1>1. /\ UNCHANGED <<unemitted, pending, hasError, newDeps>>
      /\ section' = section \/ section' = "aborted"
      /\ \A s \in Sym : \/ symState'[s] = symState[s]
                        \/ symState[s] = Absent /\ symState'[s] = Materializing
  BY AddedFrame DEF graphVars, queryVars
<1>2. ASSUME attached' \cap UNION {unemitted[x] : x \in Sym \ hasError} = {},
             \A s \in attached' : pending[s] = {},
             section' = "deps" => attached' = attached
      PROVE  AskedInv'
  <2>1. \A x \in Sym \ hasError : unemitted[x] \cap attached' = {}
    BY <1>2
  <2>2. WaitsAsked'
    BY <1>0, <1>1, <2>1, AskedKept DEF AskedInv
  <2> QED
    BY <1>1, <1>2, <2>2 DEF AskedInv, LodgedInv, LazyUnasked
<1>3. ASSUME NEW u \in Unit, NEW v \in Spare, NEW S \in SUBSET usyms[u], ReplaceLazily(u, v, S)
      PROVE  AskedInv'
  <2>1. /\ attached' = attached \cup S /\ section' = "free" /\ Wanted(S) = {}
        /\ \A s \in S : symState[s] = Materializing
    BY <1>3 DEF ReplaceLazily, WantedNow, Unlocked, lockVars
  <2>2. S \subseteq Sym
    BY DEF Core, Base, TypeOK, UnitType
  <2>3. \A s \in S : pending[s] = {}
    BY <2>1, <2>2, PendingHasInfo DEF Wanted
  <2>4. \A x \in Sym \ hasError : unemitted[x] \cap (attached \cup S) = {}
    BY <2>1, <2>3 DEF AskedInv, WaitsAsked, AskedFor
  <2>5. attached' \cap UNION {unemitted[x] : x \in Sym \ hasError} = {}
    BY <2>1, <2>4
  <2> QED
    BY <1>2, <2>1, <2>3, <2>5 DEF AskedInv, LazyUnasked
<1>4. CASE UNCHANGED attached
  BY <1>2, <1>4 DEF AskedInv, WaitsAsked, LazyUnasked
<1>5. ASSUME NEW u \in Unit, Split(u) PROVE AskedInv'
  BY <1>3, <1>4, <1>5
  DEF Split, GetRequestedSymbols, vars, RequestedAssertFails, AdriftAborts, ReplaceRunning,
      Delegate, SplitRefused, DefineMaterializing, DefineMaterializingFails, tableVars
<1> QED
  BY <1>4, <1>5
  DEF AddedStep, TransferTracker, RemoveDefaultTracker, RemoveSymbols, NothingRemoved, tableVars

LEMMA AskedCorrect ==
  ASSUME NothingRemoved, Declarable = {}
  PROVE  FullSpec /\ []NoneLate => []AskedInv
<1>1. FullInit => AskedInv
  <2> SUFFICES ASSUME Init PROVE AskedInv
    BY DEF FullInit
  <2>1. /\ unemitted = [s \in Sym |-> {}] /\ pending = [s \in Sym |-> {}] /\ section = "free"
        /\ attached \subseteq Sym
    BY WorkloadAssumption DEF Init
  <2> QED
    BY <2>1 DEF AskedInv, WaitsAsked, LodgedInv, LazyUnasked
<1>2. Core /\ GraphHeld /\ AskedInv /\ [FullNext]_fullVars => AskedInv'
  BY NextAsked, AddedAsked, FullSteps DEF GraphHeld, HoldInv, NothingRemoved
<1>3. Undefinable = {}
  BY DEF NothingRemoved
<1> QED
  BY <1>1, <1>2, <1>3, GraphHeldCorrect, FullCoreCorrect, PTL DEF FullSpec

\* Nothing that has not failed waits for a symbol that replace made lazy again, where
\* dependences come from lookups: with addDependencies a materializer may register
\* one on a symbol that no query is pending on (Declarable).
THEOREM FullWaitsCorrect ==
  ASSUME NothingRemoved, Declarable = {}
  PROVE  FullSpec /\ []NoneLate => []WaitsForOwned
<1>1. AskedInv => WaitsForOwned
  BY DEF AskedInv, WaitsAsked, WaitsForOwned
<1> QED
  BY <1>1, AskedCorrect, PTL

\* So no lookup waits for nobody, however its symbols are split up and handed on:
\* what a query waits for is covered by a responsibility, or is emitted and waits for
\* symbols that are.
THEOREM FullWaitersCorrect ==
  ASSUME NothingRemoved, Declarable = {}
  PROVE  FullSpec /\ []NoneLate => []NoStrandedQuery
<1>1. Core /\ GraphHeld /\ AskedInv => NoStrandedQuery
  <2> SUFFICES ASSUME Core, GraphHeld, AskedInv, section = "free",
                      NEW s \in Sym, pending[s] # {}
               PROVE  \/ Owned(s)
                      \/ /\ symState[s] = Emitted /\ unemitted[s] # {}
                         /\ \A d \in unemitted[s] : Owned(d)
    BY DEF NoStrandedQuery, Unlocked
  <2>1. \A x \in Sym \ attached : x \in mi /\ symState[x] \in {Materializing, Resolved} => Owned(x)
    BY HeldOwned DEF GraphHeld, HoldInv, PeacefulInv, StrandInv, StrandOf
  <2>2. s \in mi /\ s \notin attached /\ symState[s] \in Materializing .. Emitted
    <3>1. s \in mi /\ s \notin attached
      BY PendingHasInfo DEF AskedInv, LazyUnasked
    <3>2. symState[s] \in NeverSearched .. Emitted
      BY <3>1, InfoPresent
    <3>3. symState[s] # NeverSearched
      BY <3>1 DEF Core, Base, TableInv, NeverSearchedAttached
    <3> QED
      BY <3>1, <3>2, <3>3
  <2>3. CASE symState[s] = Emitted
    <3>1. s \notin hasError
      BY <2>2, <2>3 DEF GraphHeld, MovingInv, FailedInv
    <3>2. unemitted[s] # {} /\ \A d \in unemitted[s] : symState[d] \in {Materializing, Resolved}
      BY <2>2, <2>3 DEF Core, ShapeInv, GraphShape, BeingFailed
    <3>3. \A d \in unemitted[s] : d \in Sym /\ d \in mi /\ d \notin attached
      BY <3>1, TargetsHaveInfo DEF Core, AskedInv, WaitsAsked
    <3> QED
      BY <2>1, <2>3, <3>2, <3>3
  <2> QED
    BY <2>1, <2>2, <2>3
<1>2. Undefinable = {}
  BY DEF NothingRemoved
<1> QED
  BY <1>1, <1>2, AskedCorrect, GraphHeldCorrect, FullCoreCorrect, PTL

\* Where nothing is transferred either, the ready symbols are the closed ones whatever
\* the client and the materializers do.
COROLLARY SplitReady ==
  ASSUME NothingRemoved, Transferable = {}
  PROVE  FullSpec => ReadinessIsClosure
BY NeverLate, FullReadinessCorrect, PTL

\* And what is waited for is somebody's responsibility.
COROLLARY SplitWaits ==
  ASSUME NothingRemoved, Transferable = {}, Declarable = {}
  PROVE  FullSpec => [](WaitsForOwned /\ NoStrandedQuery)
BY NeverLate, FullWaitsCorrect, FullWaitersCorrect, PTL

-----------------------------------------------------------------------------
(***************************************************************************)
(* Removal, transfer and splitting together                                *)
(***************************************************************************)

\* What the client leaves undone: it removes no symbol by name (Undefinable), neither
\* removes nor transfers the default tracker, its materializers claim no symbols, and
\* nothing overrides a weak definition of another tracker.  It may remove and transfer
\* the other trackers, and split responsibilities, at any time.
TidySession ==
  /\ Undefinable = {} /\ DefaultRemovable = FALSE
  /\ \A p \in Transferable : p[1] # DefaultTracker
  /\ \A u \in Unit : ClaimSyms[u] = {}
  /\ OverridesApart(Listing)

\* A split hands on what a unit under a live tracker kept, and lists nothing.
LEMMA SplitFrame ==
  ASSUME Core, TidySession, NEW u \in Unit, Split(u)
  PROVE  /\ UNCHANGED <<symState, weak, trackerSyms, defunct, doomed>>
         /\ section = "free" /\ section' \in {"free", "aborted"}
         /\ \A w \in Unit : phase'[w] = "new" =>
              phase[w] = "new" /\ usyms'[w] = usyms[w] /\ urt'[w] = urt[w]
         /\ \A w \in Unit : phase[w] = "defined" => urt'[w] = urt[w]
         /\ \A w \in Unit : phase'[w] = "defined" =>
              urt'[w] \notin defunct \/ (phase[w] = "defined" /\ urt'[w] = urt[w])
         /\ \A w \in Unit : Keeping(w)' =>
              \E z \in Unit : Keeping(z) /\ usyms'[w] \subseteq usyms[z] /\ urt'[w] = urt[z]
         /\ \A s \in attached' : (s \in attached /\ umi'[s] = umi[s]) \/ symState[s] = Materializing
<1>0. TypeOK
  BY DEF Core, Base
<1>1. CASE GetRequestedSymbols(u)
  BY <1>1
  DEF GetRequestedSymbols, vars, tableVars, unitVars, trackerVars, lockVars, Unlocked, Keeping, Live
<1>2. CASE RequestedAssertFails(u) \/ AdriftAborts(u)
  BY <1>2
  DEF RequestedAssertFails, AdriftAborts, tableVars, unitVars, trackerVars, Unlocked, Keeping, Live
<1>3. ASSUME NEW v \in Spare, NEW S \in SUBSET usyms[u],
             ReplaceRunning(u, v, S) \/ ReplaceLazily(u, v, S) \/ Delegate(u, v, S)
      PROVE  /\ UNCHANGED <<symState, weak, trackerSyms, defunct, doomed>>
             /\ section = "free" /\ section' \in {"free", "aborted"}
             /\ \A w \in Unit : phase'[w] = "new" =>
                  phase[w] = "new" /\ usyms'[w] = usyms[w] /\ urt'[w] = urt[w]
             /\ \A w \in Unit : phase[w] = "defined" => urt'[w] = urt[w]
             /\ \A w \in Unit : phase'[w] = "defined" =>
                  urt'[w] \notin defunct \/ (phase[w] = "defined" /\ urt'[w] = urt[w])
             /\ \A w \in Unit : Keeping(w)' =>
                  \E z \in Unit : Keeping(z) /\ usyms'[w] \subseteq usyms[z] /\ urt'[w] = urt[z]
             /\ \A s \in attached' :
                  (s \in attached /\ umi'[s] = umi[s]) \/ symState[s] = Materializing
  <2>0. v \in Unit /\ S \subseteq Sym
    BY <1>0, SplitAssumption DEF TypeOK, UnitType
  <2>1. /\ UNCHANGED <<symState, weak, trackerSyms, defunct, lockVars>> /\ section = "free"
        /\ phase[u] = "running" /\ phase[v] = "new" /\ u # v /\ urt[u] \notin defunct
        /\ \A w \in Unit \ {u, v} : /\ usyms'[w] = usyms[w]
                                    /\ urt'[w] = urt[w] /\ phase'[w] = phase[w]
        /\ usyms'[u] \subseteq usyms[u] /\ urt'[u] = urt[u] /\ phase'[u] = phase[u]
        /\ usyms'[v] = S /\ urt'[v] = urt[u] /\ phase'[v] \in {"outstanding", "defined", "running"}
    BY <1>0, <1>3, <2>0
    DEF ReplaceRunning, ReplaceLazily, Delegate, LeftWith, Splits, Active, Unlocked, trackerVars,
        tableVars, TypeOK, UnitType
  <2>2. Keeping(u)
    BY <2>1 DEF Keeping, Live
  <2>3. \A s \in attached' : (s \in attached /\ umi'[s] = umi[s]) \/ symState[s] = Materializing
    BY <1>0, <1>3, <2>0
    DEF ReplaceRunning, ReplaceLazily, Delegate, tableVars, TypeOK, TableType
  <2>4. ASSUME NEW w \in Unit, Keeping(w)'
        PROVE  \E z \in Unit : Keeping(z) /\ usyms'[w] \subseteq usyms[z] /\ urt'[w] = urt[z]
    <3>1. CASE w = v
      BY <2>1, <2>2, <3>1
    <3>2. CASE w = u
      BY <2>1, <2>2, <3>2
    <3>3. CASE w \notin {u, v}
      <4>1. usyms'[w] = usyms[w] /\ urt'[w] = urt[w] /\ phase'[w] = phase[w] /\ defunct' = defunct
        BY <2>1, <3>3
      <4>2. Keeping(w)
        BY <2>4, <4>1 DEF Keeping, Live
      <4> QED
        BY <4>1, <4>2
    <3> QED
      BY <3>1, <3>2, <3>3
  <2> QED
    BY <2>1, <2>3, <2>4 DEF lockVars
<1>4. ASSUME NEW S \in SUBSET usyms[u], SplitRefused(u, S)
      PROVE  /\ UNCHANGED <<tableVars, phase, urt, trackerVars, lockVars>> /\ section = "free"
             /\ phase[u] = "running"
             /\ \A w \in Unit : usyms'[w] \subseteq usyms[w] /\ (w # u => usyms'[w] = usyms[w])
  BY <1>0, <1>4 DEF SplitRefused, Splits, Active, Unlocked, LeftWith, TypeOK, UnitType
<1>5. ASSUME NEW K \in SUBSET ClaimSyms[u],
             DefineMaterializing(u, K) \/ DefineMaterializingFails(u, K)
      PROVE  FALSE
  BY <1>5 DEF DefineMaterializing, DefineMaterializingFails, TidySession
<1>6. ASSUME NEW S \in SUBSET usyms[u], SplitRefused(u, S)
      PROVE  /\ UNCHANGED <<symState, weak, trackerSyms, defunct, doomed>>
             /\ section = "free" /\ section' \in {"free", "aborted"}
             /\ \A w \in Unit : phase'[w] = "new" =>
                  phase[w] = "new" /\ usyms'[w] = usyms[w] /\ urt'[w] = urt[w]
             /\ \A w \in Unit : phase[w] = "defined" => urt'[w] = urt[w]
             /\ \A w \in Unit : phase'[w] = "defined" =>
                  urt'[w] \notin defunct \/ (phase[w] = "defined" /\ urt'[w] = urt[w])
             /\ \A w \in Unit : Keeping(w)' =>
                  \E z \in Unit : Keeping(z) /\ usyms'[w] \subseteq usyms[z] /\ urt'[w] = urt[z]
             /\ \A s \in attached' :
                  (s \in attached /\ umi'[s] = umi[s]) \/ symState[s] = Materializing
  BY <1>4, <1>6 DEF tableVars, trackerVars, lockVars, Keeping, Live
<1> QED
  BY <1>1, <1>2, <1>3, <1>5, <1>6 DEF Split

\* A split keeps the lists: what it hands on stays under its tracker.
LEMMA SplitTrack ==
  ASSUME Core, TidySession, TrackInv(Listing), WeakInv, NEW u \in Unit, Split(u)
  PROVE  TrackInv(Listing)' /\ WeakInv'
<1>1. /\ UNCHANGED <<symState, weak, trackerSyms, defunct, doomed>>
      /\ section = "free" /\ section' \in {"free", "aborted"}
      /\ \A w \in Unit : phase'[w] = "new" =>
           phase[w] = "new" /\ usyms'[w] = usyms[w] /\ urt'[w] = urt[w]
      /\ \A w \in Unit : phase[w] = "defined" => urt'[w] = urt[w]
      /\ \A w \in Unit : Keeping(w)' =>
           \E z \in Unit : Keeping(z) /\ usyms'[w] \subseteq usyms[z] /\ urt'[w] = urt[z]
      /\ \A s \in attached' : (s \in attached /\ umi'[s] = umi[s]) \/ symState[s] = Materializing
  BY SplitFrame
<1>2. doomed = {}
  BY <1>1 DEF TrackInv, DoomedApart
<1>3. ListsPresent(Listing)' /\ ListsDisjoint(Listing)' /\ DoomedApart(Listing)'
  BY <1>1, <1>2 DEF TrackInv, ListsPresent, ListsDisjoint, DoomedApart, Present
<1>4. KeepersListed(Listing)'
  <2> SUFFICES ASSUME NEW t \in Listing, NEW w \in Unit, Keeping(w)',
                      usyms'[w] \cap trackerSyms'[t] # {}
               PROVE  urt'[w] = t
    BY DEF KeepersListed
  <2>1. PICK z \in Unit : Keeping(z) /\ usyms'[w] \subseteq usyms[z] /\ urt'[w] = urt[z]
    BY <1>1
  <2>2. usyms[z] \cap trackerSyms[t] # {}
    BY <1>1, <2>1
  <2> QED
    BY <2>1, <2>2 DEF TrackInv, KeepersListed
<1>5. ASSUME NEW w \in Unit, Keeping(w)', urt'[w] # DefaultTracker
      PROVE  usyms'[w] \subseteq trackerSyms'[urt'[w]]
  <2>1. PICK z \in Unit : Keeping(z) /\ usyms'[w] \subseteq usyms[z] /\ urt'[w] = urt[z]
    BY <1>1, <1>5
  <2>2. usyms[z] \subseteq trackerSyms[urt[z]]
    BY <1>2, <1>5, <2>1 DEF TrackInv, DefinedListed, LiveListed, Keeping
  <2> QED
    BY <1>1, <2>1, <2>2
<1>6. DefinedListed' /\ LiveListed'
  BY <1>1, <1>5 DEF DefinedListed, LiveListed, Keeping
<1>7. NewFixed' /\ DefaultTracker \notin defunct'
  BY <1>1 DEF WeakInv, NewFixed
<1>8. WeakOf'
  <2> SUFFICES ASSUME NEW s \in attached', s \in weak', symState'[s] = NeverSearched
               PROVE  /\ s \in UnitSyms[umi'[s]] \cap UnitWeak[umi'[s]]
                      /\ urt'[umi'[s]] = UnitTracker[umi'[s]] \/ UnitTracker[umi'[s]] \in defunct'
    BY DEF WeakOf
  <2>1. s \in attached /\ s \in weak /\ symState[s] = NeverSearched /\ umi'[s] = umi[s]
    BY <1>1
  <2>2. umi[s] \in Unit /\ phase[umi[s]] = "defined"
    BY <2>1 DEF Core, Base, TypeOK, TableType, TableInv, AttachedHasUnit
  <2> QED
    BY <1>1, <2>1, <2>2 DEF WeakInv, WeakOf
<1> QED
  BY <1>3, <1>4, <1>6, <1>7, <1>8 DEF TrackInv, WeakInv

\* transferTracker moves a list with the units and responsibilities it is of.
LEMMA TransferTrack ==
  ASSUME Core, TidySession, TrackInv(Listing), WeakInv,
         NEW src \in Tracker, NEW dst \in Tracker, TransferTracker(src, dst)
  PROVE  TrackInv(Listing)' /\ WeakInv'
<1>0. TypeOK
  BY DEF Core, Base
<1>1. /\ UNCHANGED <<tableVars, phase, usyms, lockVars>> /\ section = "free"
      /\ src # dst /\ src \notin defunct /\ dst \notin defunct /\ defunct' = defunct \cup {src}
      /\ \A u \in Unit : urt'[u] = IF u \in Moved(src) THEN dst ELSE urt[u]
  BY TransferAssumption DEF TransferTracker, Unlocked
<1>2. src # DefaultTracker
  BY DEF TransferTracker, TidySession
<1>3. doomed = {} /\ doomed' = doomed /\ section' = section
  BY <1>1 DEF TrackInv, DoomedApart, lockVars
<1>4. trackerSyms' = IF dst = DefaultTracker THEN [trackerSyms EXCEPT ![src] = {}]
                     ELSE [trackerSyms EXCEPT ![src] = {}, ![dst] = @ \cup trackerSyms[src]]
  BY <1>2 DEF TransferTracker, ListsAfter
<1>5. /\ trackerSyms'[src] = {}
      /\ \A t \in Listing \ {src, dst} : trackerSyms'[t] = trackerSyms[t]
      /\ dst \in Listing => trackerSyms'[dst] = trackerSyms[dst] \cup trackerSyms[src]
  BY <1>0, <1>1, <1>4 DEF Listing, TypeOK, TrackerType
<1>6. src \in Listing /\ \A t \in Listing : t \in Tracker /\ t # DefaultTracker
  BY <1>2 DEF Listing
<1>7. \A u \in Unit : urt[u] \in Tracker
  BY <1>0 DEF TypeOK, UnitType
<1>8. \A u \in Unit : Keeping(u)' => Keeping(u) /\ (urt[u] = src => urt'[u] = dst)
                                                /\ (urt[u] # src => urt'[u] = urt[u])
  BY <1>1 DEF Keeping, Live, Moved
<1>9. ListsPresent(Listing)'
  <2> SUFFICES ASSUME NEW t \in Listing PROVE trackerSyms'[t] \subseteq Present
    BY <1>1 DEF ListsPresent, Present, tableVars
  <2> QED
    BY <1>5, <1>6 DEF TrackInv, ListsPresent
<1>10. ListsDisjoint(Listing)'
  BY <1>5, <1>6 DEF TrackInv, ListsDisjoint
<1>11. KeepersListed(Listing)'
  <2> SUFFICES ASSUME NEW t \in Listing, NEW u \in Unit, Keeping(u)', NEW s \in usyms[u],
                      s \in trackerSyms'[t]
               PROVE  urt'[u] = t
    BY <1>1 DEF KeepersListed
  <2>1. \A w \in Listing : s \in trackerSyms[w] => urt[u] = w
    BY <1>8 DEF TrackInv, KeepersListed
  <2> QED
    BY <1>1, <1>5, <1>6, <1>8, <2>1
<1>12. ASSUME NEW u \in Unit, Keeping(u)', urt'[u] # DefaultTracker
       PROVE  usyms'[u] \subseteq trackerSyms'[urt'[u]]
  <2>1. Keeping(u) /\ urt[u] \in Tracker /\ urt[u] # DefaultTracker
    BY <1>2, <1>7, <1>8, <1>12
  <2>2. usyms[u] \subseteq trackerSyms[urt[u]]
    BY <1>3, <2>1 DEF TrackInv, DefinedListed, LiveListed, Keeping
  <2>3. CASE urt[u] = src
    BY <1>1, <1>5, <1>8, <1>12, <2>2, <2>3 DEF Listing
  <2>4. CASE urt[u] # src
    BY <1>1, <1>5, <1>8, <1>12, <2>1, <2>2, <2>4 DEF Listing
  <2> QED
    BY <2>3, <2>4
<1>13. DefinedListed' /\ LiveListed'
  BY <1>12 DEF DefinedListed, LiveListed, Keeping
<1>14. DoomedApart(Listing)'
  BY <1>1, <1>3 DEF DoomedApart
<1>15. NewFixed' /\ DefaultTracker \notin defunct'
  BY <1>1, <1>2 DEF WeakInv, NewFixed, Moved
<1>16. WeakOf'
  <2> SUFFICES ASSUME NEW s \in attached, s \in weak, symState[s] = NeverSearched
               PROVE  /\ s \in UnitSyms[umi[s]] \cap UnitWeak[umi[s]]
                      /\ urt'[umi[s]] = UnitTracker[umi[s]] \/ UnitTracker[umi[s]] \in defunct'
    BY <1>1 DEF WeakOf, tableVars
  <2>1. umi[s] \in Unit
    BY <1>0 DEF Core, Base, TableInv, AttachedHasUnit, TypeOK, TableType
  <2>2. /\ s \in UnitSyms[umi[s]] \cap UnitWeak[umi[s]]
        /\ urt[umi[s]] = UnitTracker[umi[s]] \/ UnitTracker[umi[s]] \in defunct
    BY DEF WeakInv, WeakOf
  <2> QED
    BY <1>1, <2>1, <2>2 DEF Moved
<1> QED
  BY <1>9, <1>10, <1>11, <1>13, <1>14, <1>15, <1>16 DEF TrackInv, WeakInv

\* Nor does it move a symbol out of somebody's hands; where the tracker is gone, what
\* replace and delegate forget was nobody's.
LEMMA SplitHolds ==
  ASSUME Core, TidySession, OwnInv, NEW u \in Unit, Split(u)
  PROVE  OwnInv' /\ (StrandInv => StrandInv')
<1>0. TypeOK /\ todo \subseteq Sym
  BY DEF Core, Base, TypeOK, LockType
<1>1. ASSUME UNCHANGED <<tableVars, graphVars, phase, urt, defunct, todo, doomed>>,
             section' \in {section, "aborted"}, section = "free",
             \A w \in Unit : usyms'[w] = usyms[w] \/ (usyms'[w] \subseteq usyms[w] /\ w = u),
             usyms'[u] = usyms[u] \/ (urt[u] \in defunct /\ phase[u] = "running")
      PROVE  OwnInv' /\ (StrandInv => StrandInv')
  <2>1. \A w \in Unit, s \in Sym : Holding(w, s)' <=> Holding(w, s)
    BY <1>1 DEF Holding, Live
  <2>2. \A w \in Unit : phase'[w] = "defined" => phase[w] = "defined" /\ usyms'[w] = usyms[w]
    BY <1>1
  <2>3. OwnInv'
    BY <1>0, <1>1, <2>1, <2>2, OwnKept DEF tableVars
  <2>4. \A s \in Sym : Held(s) => Held(s)'
    BY <2>1 DEF Held
  <2> QED
    BY <1>1, <2>3, <2>4, StrandKept DEF tableVars, graphVars
<1>2. CASE GetRequestedSymbols(u)
  BY <1>1, <1>2 DEF GetRequestedSymbols, vars, unitVars, trackerVars, lockVars, Unlocked
<1>3. CASE RequestedAssertFails(u) \/ AdriftAborts(u)
  BY <1>1, <1>3 DEF RequestedAssertFails, AdriftAborts, unitVars, trackerVars, Unlocked
<1>4. ASSUME NEW S \in SUBSET usyms[u], SplitRefused(u, S)
      PROVE  OwnInv' /\ (StrandInv => StrandInv')
  <2>1. /\ UNCHANGED <<tableVars, graphVars, phase, urt, trackerVars, lockVars>> /\ section = "free"
        /\ phase[u] = "running" /\ urt[u] \in defunct
        /\ \A w \in Unit : usyms'[w] = usyms[w] \/ (usyms'[w] \subseteq usyms[w] /\ w = u)
    BY <1>0, <1>4 DEF SplitRefused, Splits, Active, Unlocked, LeftWith, TypeOK, UnitType
  <2> QED
    BY <1>1, <2>1 DEF trackerVars, lockVars
<1>5. ASSUME NEW K \in SUBSET ClaimSyms[u],
             DefineMaterializing(u, K) \/ DefineMaterializingFails(u, K)
      PROVE  FALSE
  BY <1>5 DEF DefineMaterializing, DefineMaterializingFails, TidySession
<1> QED
  BY <1>2, <1>3, <1>4, <1>5, HandOver, HandBack DEF Split, HoldsOn

TidyInv == OwnInv /\ TrackInv(Listing) /\ WeakInv

LEMMA TidyAdded ==
  ASSUME Core, TidySession, TidyInv, AddedStep
  PROVE  TidyInv' /\ (StrandInv => StrandInv')
<1>1. ~ RemoveDefaultTracker /\ ~ \E S \in SUBSET Sym : RemoveSymbols(S)
  BY DEF RemoveDefaultTracker, RemoveSymbols, TidySession
<1>2. ASSUME NEW u \in Unit, Split(u) PROVE TidyInv' /\ (StrandInv => StrandInv')
  BY <1>2, SplitTrack, SplitHolds DEF TidyInv
<1>3. ASSUME NEW src \in Tracker, NEW dst \in Tracker, TransferTracker(src, dst)
      PROVE  TidyInv' /\ (StrandInv => StrandInv')
  BY <1>3, TransferTrack, Transferred DEF TidyInv, HoldsOn
<1> QED
  BY <1>1, <1>2, <1>3 DEF AddedStep

LEMMA TidyBase ==
  ASSUME Core, TidySession, TidyInv, NoneLate', [Next]_vars
  PROVE  TidyInv'
<1>1. Listing \in SUBSET Tracker /\ Removable \subseteq Listing /\ OverridesApart(Listing)
  BY WorkloadAssumption DEF Listing, TidySession
<1>2. WeakInv'
  BY WeakStep DEF TidyInv
<1>3. TrackInv(Listing)' /\ OwnInv'
  BY <1>1, TrackStep DEF TidyInv
<1> QED
  BY <1>2, <1>3 DEF TidyInv

LEMMA TidyInit ==
  ASSUME FullInit
  PROVE  TidyInv
<1>1. Listing \in SUBSET Tracker
  BY DEF Listing
<1> QED
  BY <1>1, OwnInit, TrackInit, WeakInit DEF FullInit, TidyInv

LEMMA TidyCorrect ==
  ASSUME TidySession
  PROVE  FullSpec /\ []NoneLate => []TidyInv
<1>1. Core /\ TidyInv /\ NoneLate' /\ [FullNext]_fullVars => TidyInv'
  BY TidyBase, TidyAdded, FullSteps
<1>2. Undefinable = {}
  BY DEF TidySession
<1> QED
  BY <1>1, <1>2, TidyInit, FullCoreCorrect, PTL DEF FullSpec

\* The units keep to what the table holds where nothing is removed, and in a tidy session.
LEMMA FullOwnCorrect ==
  ASSUME NothingRemoved \/ TidySession
  PROVE  FullSpec /\ []NoneLate => []OwnInv
<1>1. CASE NothingRemoved
  <2>1. HoldInv => OwnInv
    BY DEF HoldInv
  <2> QED
    BY <1>1, <2>1, HoldCorrect, PTL
<1>2. CASE TidySession
  <2>1. TidyInv => OwnInv
    BY DEF TidyInv
  <2> QED
    BY <1>2, <2>1, TidyCorrect, PTL
<1> QED
  BY <1>1, <1>2

\* A query waits for nothing that has happened, and for nothing lazy: what replace gives
\* back has no query, and what a failing lookup puts back (Core.cpp:2831-2844) is what it
\* has collected itself.  This takes units that list no symbol of another, as everywhere
\* where nothing is removed, and under removals where nothing overrides a definition of
\* another tracker.
THEOREM FullLateCorrect ==
  ASSUME QueriesSkipEmitted, NothingRemoved \/ TidySession
  PROVE  FullSpec /\ []NoneLate => []NoLateQuery
<1>1. FullInit => LateInv
  BY DEF FullInit, Init, LateInv
<1>2. LateInv => NoLateQuery
  BY DEF LateInv, NoLateQuery
<1>3. Undefinable = {}
  BY DEF NothingRemoved, TidySession
<1>4. Core /\ OwnInv /\ LateInv /\ [FullNext]_fullVars => LateInv'
  BY <1>3, LateStep, AddedLate, FullSteps
<1> QED
  BY <1>1, <1>2, <1>3, <1>4, FullOwnCorrect, FullCoreCorrect, PTL DEF FullSpec

\* Trackers removed and transferred, responsibilities split: at most one responsibility
\* under a live tracker covers a symbol, and none while a unit waits with it.
THEOREM TidyOwners ==
  ASSUME TidySession
  PROVE  FullSpec /\ []NoneLate => []OneOwner
<1>1. Core /\ TidyInv => OneOwner
  BY DEF TidyInv, OwnInv, HeldMoving, HeldByOne, Holding, Live, OneOwner
<1>2. Undefinable = {}
  BY DEF TidySession
<1> QED
  BY <1>1, <1>2, TidyCorrect, FullCoreCorrect, PTL

\* transferTracker moves the list of the source with its units, and replace returns a
\* symbol under the tracker it came from: a symbol that waits is listed by the tracker
\* of its unit and by no other.
THEOREM TidyTracked ==
  ASSUME TidySession
  PROVE  FullSpec /\ []NoneLate => []TrackedByUnit
<1>1. Core /\ TidyInv => TrackedByUnit
  BY ListedTracked DEF TidyInv
<1>2. Undefinable = {}
  BY DEF TidySession
<1> QED
  BY <1>1, <1>2, TidyCorrect, FullCoreCorrect, PTL

LEMMA TidyStrand ==
  ASSUME TidySession
  PROVE  FullSpec /\ []NoneLate /\ []NoneDestroyed => []StrandInv
<1>1. FullInit => StrandInv
  BY DEF FullInit, Init, StrandInv, StrandOf
<1>2. Core /\ TidyInv /\ NoneLate /\ NoneDestroyed /\ StrandInv /\ [FullNext]_fullVars => StrandInv'
  <2> SUFFICES ASSUME Core, TidyInv, NoneLate, NoneDestroyed, StrandInv, [FullNext]_fullVars
               PROVE  StrandInv'
    OBVIOUS
  <2>1. CASE [Next]_vars
    BY <2>1, StrandStep DEF TidyInv, TrackInv, DoomedApart
  <2>2. CASE AddedStep
    BY <2>2, TidyAdded
  <2> QED
    BY <2>1, <2>2, FullSteps
<1>3. Undefinable = {}
  BY DEF TidySession
<1> QED
  BY <1>1, <1>2, <1>3, TidyCorrect, FullCoreCorrect, PTL DEF FullSpec

\* A symbol that is being materialized has exactly one holder, whatever trackers are
\* removed and transferred meanwhile; and no symbol is left to nobody.
THEOREM TidyHeld ==
  ASSUME TidySession
  PROVE  FullSpec /\ []NoneLate /\ []NoneDestroyed => [](HeldOnce /\ NoStrandedSymbol)
<1>1. Core /\ NoneLate /\ TidyInv /\ StrandInv => HeldOnce
  BY HeldHolds DEF TidyInv, TrackInv, DoomedApart
<1>2. TidyInv /\ StrandInv => NoStrandedSymbol
  BY HeldOwned
  DEF NoStrandedSymbol, Unlocked, StrandInv, StrandOf, TidyInv, TrackInv, DoomedApart
<1>3. Undefinable = {}
  BY DEF TidySession
<1> QED
  BY <1>1, <1>2, <1>3, TidyCorrect, TidyStrand, FullCoreCorrect, PTL

LEMMA TidyStarted ==
  ASSUME TidySession, Splitter = {}
  PROVE  FullSpec /\ []NoneLate => []StartedInv
<1>1. FullInit => StartedInv
  BY StartedInit DEF FullInit
<1>2. Core /\ StartedInv /\ AddedStep => StartedInv'
  <2> SUFFICES ASSUME Core, StartedInv, AddedStep PROVE StartedInv'
    OBVIOUS
  <2>0. attached \subseteq Sym
    BY DEF Core, Base, TypeOK, TableType
  <2>1. UNCHANGED <<pending, unemitted>>
    BY AddedKeeps DEF graphVars, queryVars
  <2>2. ASSUME NEW u \in Unit, Split(u) PROVE attached' = attached /\ section' # "deps"
    <3>1. AdriftAborts(u)
      BY <2>2
      DEF Split, GetRequestedSymbols, RequestedAssertFails, ReplaceRunning, ReplaceLazily, Delegate,
          SplitRefused, Splits, DefineMaterializing, DefineMaterializingFails, TidySession
    <3> QED
      BY <3>1 DEF AdriftAborts, tableVars
  <2>3. ASSUME NEW src \in Tracker, NEW dst \in Tracker, TransferTracker(src, dst)
        PROVE  attached' = attached /\ section' # "deps"
    BY <2>3 DEF TransferTracker, tableVars, lockVars, Unlocked
  <2>4. attached' = attached /\ section' # "deps"
    BY <2>2, <2>3 DEF AddedStep, RemoveDefaultTracker, RemoveSymbols, TidySession
  <2> QED
    BY <2>0, <2>1, <2>4, StartedKept
<1>3. Undefinable = {}
  BY DEF TidySession
<1>4. Core /\ TidyInv /\ StartedInv /\ [Next]_vars => StartedInv'
  BY StartedStep DEF TidyInv
<1> QED
  BY <1>1, <1>2, <1>3, <1>4, TidyCorrect, FullSteps, FullCoreCorrect, PTL DEF FullSpec

\* And whatever a query waits for is somebody's responsibility, where no materializer
\* makes symbols lazy again.
THEOREM TidyWaiters ==
  ASSUME TidySession, Splitter = {}
  PROVE  FullSpec /\ []NoneLate /\ []NoneDestroyed => []NoStrandedQuery
<1>1. Core /\ TidyInv /\ StartedInv /\ StrandInv => NoStrandedQuery
  BY WaitersOwned DEF TidyInv, TrackInv, DoomedApart
<1>2. Undefinable = {}
  BY DEF TidySession
<1> QED
  BY <1>1, <1>2, TidyCorrect, TidyStrand, TidyStarted, FullCoreCorrect, PTL

\* A client that has added what it will remove or transfer before anything is looked
\* up, and looks one symbol up at a time.
Leaving == Removable \cup {p[1] : p \in Transferable}
LoadsFirst == \A u \in Unit : UnitTracker[u] \in Leaving => u \in Loaded \cup Spare
LooksOneUp == \A q \in Query : \A x, y \in QuerySyms[q] : x = y

\* A lookup of one symbol that has lost it has found no other.
LEMMA OneUpDestroysNone ==
  ASSUME LooksOneUp
  PROVE  NoneDestroyed
<1> SUFFICES ASSUME NEW q \in Query, ~ (Required(q) \subseteq Present)
             PROVE  Collected(Waiting(q, Found(q))) = {}
  BY DEF NoneDestroyed
<1>1. PICK s \in QuerySyms[q] : s \notin Present
  BY DEF Required
<1>2. Found(q) = {}
  BY <1>1 DEF Found, LooksOneUp
<1> QED
  BY <1>2 DEF Waiting, Collected

\* Only trackers the client gives up are defunct, they list nothing, and no unit waits
\* under one but those that are about to be erased.  A unit that waits has symbols.
LoadedAdded == \A u \in Loaded : phase[u] # "new"
GoneWithin == \A t \in defunct : t \in Leaving /\ trackerSyms[t] = {}
WaitersLive ==
  section # "untrack" => \A u \in Unit : phase[u] = "defined" => urt[u] \notin defunct
WaitersList == \A u \in Unit : phase[u] = "defined" => usyms[u] # {}
ClientInv == LoadedAdded /\ GoneWithin /\ WaitersLive /\ WaitersList

\* A new unit comes under a tracker that stays.
LEMMA DefinedLive ==
  ASSUME LoadsFirst, Core, WeakInv, ClientInv, NEW u \in Unit, Define(u)
  PROVE  urt[u] \notin defunct
<1>1. phase[u] = "new" /\ usyms[u] # {} /\ u \notin Loaded
  BY DEF Define, ClientInv, LoadedAdded
<1>2. usyms[u] = UnitSyms[u] /\ urt[u] = UnitTracker[u]
  BY <1>1 DEF WeakInv, NewFixed
<1>3. u \notin Spare
  BY <1>1, <1>2, SplitAssumption
<1> QED
  BY <1>1, <1>2, <1>3 DEF ClientInv, GoneWithin, LoadsFirst

\* A unit from which a definition takes all its symbols over waits no longer.
LEMMA DefineLeaves ==
  ASSUME Core, OwnInv, WaitersList, NEW u \in Unit, Define(u)
  PROVE  WaitersList'
<1>0. TypeOK
  BY DEF Core, Base
<1> SUFFICES ASSUME NEW v \in Unit, phase'[v] = "defined" PROVE usyms'[v] # {}
  BY DEF WaitersList
<1>1. CASE v = u
  BY <1>0, <1>1 DEF Define, TypeOK, UnitType
<1>2. CASE v # u
  <2>1. phase[v] = "defined" /\ v \notin Orphaned(Defined(u))
    BY <1>0, <1>2 DEF Define, Emptied, TypeOK, UnitType
  <2>2. PICK s \in usyms[v] : s \in attached /\ umi[s] = v
    BY <2>1 DEF WaitersList, OwnInv, DefinedAttached
  <2>3. PICK x \in attached \ Defined(u) : umi[x] = v
    BY <2>1, <2>2 DEF Orphaned
  <2>4. x \in usyms[v]
    BY <1>0, <2>3 DEF Core, Base, TableInv, AttachedHasUnit, TypeOK, TableType
  <2>5. usyms'[v] = usyms[v] \ Discarded(v, Defined(u))
    BY <1>2 DEF Define
  <2> QED
    BY <2>3, <2>4, <2>5 DEF Discarded
<1> QED
  BY <1>1, <1>2

\* The units that wait keep their symbols in every other step.
LEMMA WaitersKeep ==
  ASSUME Core, OwnInv, WaitersList, [Next]_vars
  PROVE  WaitersList'
<1>0. TypeOK
  BY DEF Core, Base
<1>1. ASSUME \A u \in Unit : phase'[u] = "defined" => phase[u] = "defined" /\ usyms'[u] = usyms[u]
      PROVE  WaitersList'
  BY <1>1 DEF WaitersList
<1>2. CASE LockedStep
  <2>1. CASE EraseDoomed
    BY <1>0, <1>1, <2>1 DEF EraseDoomed, TypeOK, UnitType
  <2>2. CASE UNCHANGED unitVars
    BY <1>1, <2>2 DEF unitVars
  <2> QED
    BY <1>2, <2>1, <2>2
    DEF LockedStep, AddDependencies, SkipDependencies, DependenciesAssertFails, EmitSymbol,
        EmitTrivially, FailSymbol, FailTrivially
<1>3. ASSUME NEW u \in Unit, Materialize(u) PROVE WaitersList'
  <2>1. CASE UNCHANGED <<phase, usyms>>
    BY <1>1, <2>1
  <2>2. CASE NotifyEmitted(u) \/ FailMaterialization(u)
    <3>1. phase[u] = "running" /\ \A v \in Unit : phase'[v] = "defined" => phase[v] = "defined"
      BY <1>0, <2>2 DEF NotifyEmitted, FailMaterialization, Active, TypeOK, UnitType
    <3>2. \A v \in Unit \ {u} : usyms'[v] = usyms[v]
      BY <1>0, <2>2 DEF NotifyEmitted, FailMaterialization, TypeOK, UnitType
    <3> QED
      BY <1>1, <3>1, <3>2
  <2>3. CASE DestroyResponsibility(u)
    BY <1>0, <1>1, <2>3 DEF DestroyResponsibility, TypeOK, UnitType
  <2> QED
    BY <1>3, <2>1, <2>2, <2>3
    DEF Materialize, NotifyResolved, NotifyRefused, OL_AddDependencies, NotifyAssertFails, unitVars
<1>4. ASSUME NEW q \in Query, LookUp(q) PROVE WaitersList'
  BY <1>1, <1>4, LookUpUnits
<1>5. ASSUME NEW u \in Unit, DispatchUnit(u) PROVE WaitersList'
  BY <1>0, <1>1, <1>5 DEF DispatchUnit, TypeOK, UnitType
<1>6. CASE UNCHANGED unitVars
  BY <1>1, <1>6 DEF unitVars
<1> QED
  BY <1>2, <1>3, <1>4, <1>5, <1>6, DefineLeaves
  DEF Next, AtRest, vars, unitVars, NotifyComplete, RemoveTracker, RemoveAssertFails

LEMMA ClientBase ==
  ASSUME LoadsFirst, Core, TidyInv, ClientInv, [Next]_vars
  PROVE  ClientInv'
<1>0. TypeOK
  BY DEF Core, Base
<1>1. LoadedAdded'
  BY WorkloadAssumption, NewStays DEF ClientInv, LoadedAdded
<1>2. WaitersList'
  BY WaitersKeep DEF ClientInv, TidyInv
<1>3. CASE UNCHANGED <<trackerSyms, defunct, doomed>> /\ (section' = "untrack" <=> section = "untrack")
           /\ ~ \E u \in Unit : Define(u)
  <2>1. GoneWithin'
    BY <1>3 DEF ClientInv, GoneWithin
  <2>2. WaitersLive'
    BY <1>3, UnitSteps DEF ClientInv, WaitersLive
  <2> QED
    BY <1>1, <1>2, <2>1, <2>2 DEF ClientInv
<1>4. CASE EraseDoomed
  <2>1. UNCHANGED <<trackerSyms, defunct, urt>> /\ section = "untrack"
    BY <1>4 DEF EraseDoomed, trackerVars
  <2>2. GoneWithin'
    BY <2>1 DEF ClientInv, GoneWithin
  <2>3. WaitersLive'
    <3> SUFFICES ASSUME NEW u \in Unit, phase'[u] = "defined", urt[u] \in defunct PROVE FALSE
      BY <2>1 DEF WaitersLive
    <3>1. phase[u] = "defined" /\ usyms[u] \cap doomed = {}
      BY <1>4, SurvivorsApart DEF TidyInv
    <3>2. usyms[u] # {}
      BY <3>1 DEF ClientInv, WaitersList
    <3>3. urt[u] # DefaultTracker /\ trackerSyms[urt[u]] = {}
      BY DEF TidyInv, WeakInv, ClientInv, GoneWithin
    <3>4. usyms[u] \subseteq trackerSyms[urt[u]] \cup doomed
      BY <3>1, <3>3 DEF TidyInv, TrackInv, DefinedListed
    <3> QED
      BY <3>1, <3>2, <3>3, <3>4
  <2> QED
    BY <1>1, <1>2, <2>2, <2>3 DEF ClientInv
<1>5. ASSUME NEW u \in Unit, Define(u) PROVE ClientInv'
  <2>1. /\ UNCHANGED <<urt, defunct, section>> /\ section = "free"
        /\ trackerSyms' = Tracked(u, Defined(u))
        /\ \A v \in Unit : phase'[v] = "defined" => v = u \/ phase[v] = "defined"
    BY <1>0, <1>5 DEF Define, Unlocked, lockVars
  <2>2. urt[u] \notin defunct /\ defunct \subseteq Tracker
    BY <1>0, <1>5, DefinedLive DEF TidyInv, TypeOK, TrackerType
  <2>3. \A t \in defunct : trackerSyms'[t] = trackerSyms[t]
    BY <1>0, <2>1, <2>2 DEF Tracked, TypeOK, TrackerType
  <2>4. GoneWithin'
    BY <2>1, <2>3 DEF ClientInv, GoneWithin
  <2>5. WaitersLive'
    BY <2>1, <2>2 DEF ClientInv, WaitersLive
  <2> QED
    BY <1>1, <1>2, <2>4, <2>5 DEF ClientInv
<1>6. ASSUME NEW t \in Tracker, RemoveTracker(t) PROVE ClientInv'
  <2>1. /\ t \in Removable /\ defunct' = defunct \cup {t} /\ section' = "untrack"
        /\ \A x \in Tracker : trackerSyms'[x] = IF x = t THEN {} ELSE trackerSyms[x]
        /\ defunct \subseteq Tracker
    BY <1>0, <1>6 DEF RemoveTracker, TypeOK, TrackerType
  <2>2. GoneWithin'
    BY <2>1 DEF ClientInv, GoneWithin, Leaving
  <2>3. WaitersLive'
    BY <2>1 DEF WaitersLive
  <2> QED
    BY <1>1, <1>2, <2>2, <2>3 DEF ClientInv
<1> QED
  BY <1>3, <1>4, <1>5, <1>6, ListSteps

\* replace makes a unit wait with what it gives back.
LEMMA SplitLeaves ==
  ASSUME Core, TidySession, WaitersList, NEW u \in Unit, Split(u)
  PROVE  WaitersList'
<1>0. TypeOK
  BY DEF Core, Base
<1>1. ASSUME NEW v \in Spare, NEW S \in SUBSET usyms[u],
             ReplaceRunning(u, v, S) \/ ReplaceLazily(u, v, S) \/ Delegate(u, v, S)
      PROVE  WaitersList'
  <2>1. /\ v \in Unit /\ S # {} /\ phase[u] = "running" /\ phase[v] = "new"
        /\ usyms' = [usyms EXCEPT ![u] = LeftWith(u, S), ![v] = S]
        /\ \E p \in {"outstanding", "defined", "running"} : phase' = [phase EXCEPT ![v] = p]
    BY <1>1, SplitAssumption DEF ReplaceRunning, ReplaceLazily, Delegate, Splits, Active
  <2> QED
    BY <1>0, <2>1 DEF WaitersList, TypeOK, UnitType
<1>2. ASSUME NEW S \in SUBSET usyms[u], SplitRefused(u, S) PROVE WaitersList'
  BY <1>0, <1>2 DEF SplitRefused, Splits, Active, WaitersList, TypeOK, UnitType
<1>3. CASE GetRequestedSymbols(u) \/ RequestedAssertFails(u) \/ AdriftAborts(u)
  BY <1>3 DEF GetRequestedSymbols, RequestedAssertFails, AdriftAborts, vars, unitVars, WaitersList
<1>4. ASSUME NEW K \in SUBSET ClaimSyms[u],
             DefineMaterializing(u, K) \/ DefineMaterializingFails(u, K)
      PROVE  FALSE
  BY <1>4 DEF DefineMaterializing, DefineMaterializingFails, TidySession
<1> QED
  BY <1>1, <1>2, <1>3, <1>4 DEF Split

LEMMA ClientAdded ==
  ASSUME Core, TidySession, TidyInv, ClientInv, AddedStep
  PROVE  ClientInv'
<1>0. TypeOK
  BY DEF Core, Base
<1>1. ~ RemoveDefaultTracker /\ ~ \E S \in SUBSET Sym : RemoveSymbols(S)
  BY DEF RemoveDefaultTracker, RemoveSymbols, TidySession
<1>2. ASSUME NEW u \in Unit, Split(u) PROVE ClientInv'
  <2>1. /\ UNCHANGED <<trackerSyms, defunct>> /\ section = "free"
        /\ \A w \in Unit : phase'[w] = "new" => phase[w] = "new"
        /\ \A w \in Unit : phase'[w] = "defined" =>
             urt'[w] \notin defunct \/ (phase[w] = "defined" /\ urt'[w] = urt[w])
    BY <1>2, SplitFrame
  <2>2. LoadedAdded'
    BY <2>1, WorkloadAssumption DEF ClientInv, LoadedAdded
  <2>3. GoneWithin'
    BY <2>1 DEF ClientInv, GoneWithin
  <2>4. WaitersLive'
    BY <2>1 DEF ClientInv, WaitersLive
  <2>5. WaitersList'
    BY <1>2, SplitLeaves DEF ClientInv
  <2> QED
    BY <2>2, <2>3, <2>4, <2>5 DEF ClientInv
<1>3. ASSUME NEW src \in Tracker, NEW dst \in Tracker, TransferTracker(src, dst)
      PROVE  ClientInv'
  <2>1. /\ UNCHANGED phase /\ section = "free" /\ section' = section
        /\ src # dst /\ dst \notin defunct /\ defunct' = defunct \cup {src}
        /\ \A u \in Unit : urt'[u] = IF u \in Moved(src) THEN dst ELSE urt[u]
    BY <1>3, TransferAssumption DEF TransferTracker, Unlocked, lockVars
  <2>2. src \in Leaving /\ src # DefaultTracker
    BY <1>3 DEF TransferTracker, Leaving, TidySession
  <2>3. trackerSyms'[src] = {} /\ \A t \in defunct : t # src => trackerSyms'[t] = trackerSyms[t]
    <3>1. trackerSyms' = IF dst = DefaultTracker THEN [trackerSyms EXCEPT ![src] = {}]
                         ELSE [trackerSyms EXCEPT ![src] = {}, ![dst] = @ \cup trackerSyms[src]]
      BY <1>3, <2>2 DEF TransferTracker, ListsAfter
    <3>2. defunct \subseteq Tracker
      BY <1>0 DEF TypeOK, TrackerType
    <3> QED
      BY <1>0, <2>1, <3>1, <3>2 DEF TypeOK, TrackerType
  <2>4. LoadedAdded'
    BY <2>1 DEF ClientInv, LoadedAdded
  <2>5. GoneWithin'
    BY <2>1, <2>2, <2>3 DEF ClientInv, GoneWithin
  <2>6. WaitersLive'
    BY <2>1 DEF ClientInv, WaitersLive, Moved
  <2>7. WaitersList'
    BY <1>3 DEF ClientInv, WaitersList, TransferTracker
  <2> QED
    BY <2>4, <2>5, <2>6, <2>7 DEF ClientInv
<1> QED
  BY <1>1, <1>2, <1>3 DEF AddedStep

\* Such a client adds nothing late.
LEMMA ClientCorrect ==
  ASSUME TidySession, LoadsFirst
  PROVE  FullSpec => []NoneLate
<1>1. FullInit => TidyInv /\ ClientInv
  BY TidyInit, WorkloadAssumption, LoadedAssumption
  DEF FullInit, Init, ClientInv, LoadedAdded, GoneWithin, WaitersLive, WaitersList
<1>2. ClientInv => NoneLate
  BY DEF ClientInv, WaitersLive, NoneLate, Unlocked
<1>3. Core /\ TidyInv /\ ClientInv /\ [FullNext]_fullVars => ClientInv'
  BY ClientBase, ClientAdded, FullSteps
<1>4. Core /\ TidyInv /\ NoneLate' /\ [FullNext]_fullVars => TidyInv'
  BY TidyBase, TidyAdded, FullSteps
<1>5. Undefinable = {}
  BY DEF TidySession
<1> QED
  BY <1>1, <1>2, <1>3, <1>4, <1>5, FullCoreCorrect, PTL DEF FullSpec

\* So where everything that is removed or transferred was there from the start, a symbol
\* has one owner, is listed by its tracker only, and what is added later under another
\* tracker, or split off meanwhile, is not drawn into the removal.
COROLLARY ClientOwners ==
  ASSUME TidySession, LoadsFirst
  PROVE  FullSpec => [](OneOwner /\ TrackedByUnit)
BY ClientCorrect, TidyOwners, TidyTracked, PTL

\* Where the lookups are of one symbol each, nothing is stranded either.
COROLLARY ClientHeld ==
  ASSUME TidySession, LoadsFirst, LooksOneUp
  PROVE  FullSpec => [](HeldOnce /\ NoStrandedSymbol)
<1>1. FullSpec => []NoneDestroyed
  BY OneUpDestroysNone, PTL
<1> QED
  BY <1>1, ClientCorrect, TidyHeld, PTL

\* And no lookup waits for nobody, where no materializer splits its work.
COROLLARY ClientWaiters ==
  ASSUME TidySession, LoadsFirst, LooksOneUp, Splitter = {}
  PROVE  FullSpec => []NoStrandedQuery
<1>1. FullSpec => []NoneDestroyed
  BY OneUpDestroysNone, PTL
<1> QED
  BY <1>1, ClientCorrect, TidyWaiters, PTL
=============================================================================
