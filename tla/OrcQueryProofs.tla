--------------------------- MODULE OrcQueryProofs ---------------------------
(***************************************************************************)
(* The registrations of a query and the pending lists it is on agree, for  *)
(* every workload.                                                         *)
(***************************************************************************)
EXTENDS OrcProofs

USE DEF Absent, NeverSearched, Materializing, Resolved, Emitted, Ready, SymbolState

\* A step that concerns no registration and takes no query to another phase,
\* other than from idle to matched.
LEMMA RegistrationsKept ==
  ASSUME TypeOK, QueryInv, UNCHANGED <<pending, regs, outstanding>>,
         \A q \in Query : qphase'[q] # qphase[q] => qphase[q] = "idle" /\ qphase'[q] = "matched"
  PROVE  QueryInv'
<1> USE DEF QueryInv, RegistrationsMirrored, UnlodgedUnregistered
<1>1. \A q \in Query : qphase'[q] = "issued" => qphase[q] = "issued"
  OBVIOUS
<1>2. \A q \in Query : qphase'[q] \in {"idle", "matched"} => qphase[q] \in {"idle", "matched"}
  OBVIOUS
<1> QED
  BY <1>1, <1>2

\* notifySymbolMetRequiredState and removeQueryDependence go together.
LEMMA NotifyMetRegistrations ==
  ASSUME TypeOK, QueryInv, NEW T \in [Sym -> SUBSET Query], NotifyMet(T), UNCHANGED qphase
  PROVE  QueryInv'
  BY DEF QueryInv, RegistrationsMirrored, UnlodgedUnregistered, NotifyMet, MetFor,
         TypeOK, QueryType

\* detach, whatever phase the detached queries are taken to.
LEMMA DetachRegistrations ==
  ASSUME TypeOK, QueryInv, NEW Q \in SUBSET Query, Detach(Q),
         \A q \in Query \ Q : qphase'[q] = qphase[q]
  PROVE  QueryInv'
<1> USE DEF TypeOK, QueryType, Detach, Forgotten, QueryInv
<1>1. \A q \in Query, s \in Sym : q \in pending'[s] <=> s \in regs'[q]
  BY DEF PendingWithout, RegistrationsMirrored
<1>2. \A q \in Query : qphase'[q] = "issued" => outstanding'[q] = regs'[q]
  BY DEF RegistrationsMirrored
<1>3. UnlodgedUnregistered'
  BY DEF UnlodgedUnregistered
<1> QED
  BY <1>1, <1>2, <1>3 DEF RegistrationsMirrored

\* The matching loop registers the query with every symbol it puts it on.
LEMMA LodgeRegistrations ==
  ASSUME TypeOK, QueryInv, NEW q \in Query, NEW W \in SUBSET Sym,
         pending' = [s \in Sym |-> IF s \in W THEN pending[s] \cup {q} ELSE pending[s]],
         regs' = [regs EXCEPT ![q] = @ \cup W],
         qphase[q] = "matched",
         \A p \in Query \ {q} : qphase'[p] = qphase[p] /\ outstanding'[p] = outstanding[p],
         \/ qphase'[q] = "unwinding"
         \/ qphase'[q] = "issued" /\ outstanding'[q] = W
  PROVE  QueryInv'
<1> USE DEF TypeOK, QueryType, QueryInv
<1>1. regs[q] = {} /\ regs'[q] = W
  BY DEF UnlodgedUnregistered
<1>2. \A p \in Query \ {q} : regs'[p] = regs[p]
  OBVIOUS
<1>3. \A p \in Query, s \in Sym : p \in pending'[s] <=> s \in regs'[p]
  BY <1>1, <1>2 DEF RegistrationsMirrored
<1>4. \A p \in Query : qphase'[p] = "issued" => outstanding'[p] = regs'[p]
  BY <1>1, <1>2 DEF RegistrationsMirrored
<1>5. UnlodgedUnregistered'
  BY <1>1, <1>2 DEF UnlodgedUnregistered
<1> QED
  BY <1>3, <1>4, <1>5 DEF RegistrationsMirrored

LEMMA LookUpRegistrations ==
  ASSUME TypeOK, QueryInv, NEW q \in Query, LookUp(q)
  PROVE  QueryInv'
<1> USE DEF TypeOK, QueryType
<1>1. CASE LookupMatched(q)
  BY <1>1, RegistrationsKept DEF LookupMatched
<1>2. CASE LookupFails(q)
  BY <1>2, DetachRegistrations DEF LookupFails
<1>3. ASSUME NEW S \in SUBSET Sym, LodgeFails(q, S) PROVE QueryInv'
  BY <1>3, DetachRegistrations DEF LodgeFails
<1>4. CASE MatchAssertFails(q)
  BY <1>4, RegistrationsKept DEF MatchAssertFails, queryVars
<1>5. CASE LodgeNotFound(q)
  <2>1. PICK W \in SUBSET Sym, C \in SUBSET Unit : \E p : Lodge(q, W, C, p)
    BY <1>5, Lodged
  <2>2. /\ qphase[q] = "matched" /\ qphase'[q] = "unwinding"
        /\ \A p \in Query \ {q} : qphase'[p] = qphase[p] /\ outstanding'[p] = outstanding[p]
    BY <1>5 DEF LodgeNotFound
  <2> QED
    BY <2>1, <2>2, LodgeRegistrations DEF Lodge
<1>6. CASE UnwindLookup(q)
  BY <1>6, DetachRegistrations DEF UnwindLookup
<1>7. CASE LodgeQuery(q)
  <2>1. PICK W \in SUBSET Found(q), C \in SUBSET Collected(Found(q)) :
          /\ Lodge(q, W, C, "outstanding")
          /\ outstanding' = [outstanding EXCEPT ![q] = W]
    BY <1>7 DEF LodgeQuery
  <2>2. /\ qphase[q] = "matched" /\ qphase'[q] = "issued" /\ outstanding'[q] = W
        /\ \A p \in Query \ {q} : qphase'[p] = qphase[p] /\ outstanding'[p] = outstanding[p]
    BY <1>7, <2>1 DEF LodgeQuery
  <2>3. W \in SUBSET Sym
    BY WorkloadAssumption DEF Found
  <2> QED
    BY <2>1, <2>2, <2>3, LodgeRegistrations DEF Lodge
<1> QED
  BY <1>1, <1>2, <1>3, <1>4, <1>5, <1>6, <1>7 DEF LookUp

LEMMA LockedStepRegistrations ==
  ASSUME TypeOK, QueryInv, LockedStep
  PROVE  QueryInv'
<1>1. ASSUME NEW s \in Sym, EmitSymbol(s) PROVE QueryInv'
  BY <1>1, TakeType, NotifyMetRegistrations DEF EmitSymbol, TypeOK
<1>2. ASSUME NEW s \in Sym, FailSymbol(s) PROVE QueryInv'
  <2>1. pending[s] \in SUBSET Query
    BY DEF TypeOK, QueryType
  <2> QED
    BY <1>2, <2>1, DetachRegistrations DEF FailSymbol
<1>3. CASE UNCHANGED queryVars
  BY <1>3, RegistrationsKept DEF queryVars
<1> QED
  BY <1>1, <1>2, <1>3
  DEF LockedStep, AddDependencies, SkipDependencies, DependenciesAssertFails, EmitTrivially,
      FailTrivially, EraseDoomed

LEMMA MaterializeRegistrations ==
  ASSUME TypeOK, QueryInv, NEW u \in Unit, Materialize(u)
  PROVE  QueryInv'
<1>1. ASSUME NEW R \in SUBSET Sym, NotifyResolved(u, R) PROVE QueryInv'
  BY <1>1, TakeType, NotifyMetRegistrations DEF NotifyResolved, TypeOK
<1>2. CASE UNCHANGED queryVars
  BY <1>2, RegistrationsKept DEF queryVars
<1> QED
  BY <1>1, <1>2
  DEF Materialize, NotifyRefused, OL_AddDependencies, NotifyEmitted, NotifyAssertFails,
      FailMaterialization, DestroyResponsibility

\* Each step keeps the registrations consistent.
LEMMA QueryStep ==
  ASSUME TypeOK, QueryInv, [Next]_vars
  PROVE  QueryInv'
<1>1. CASE UNCHANGED <<pending, regs, outstanding, qphase>>
  BY <1>1, RegistrationsKept
<1> QED
  BY <1>1, LockedStepRegistrations, MaterializeRegistrations, LookUpRegistrations
  DEF Next, AtRest, vars, queryVars, DispatchUnit, NotifyComplete, Define, RemoveTracker,
      RemoveAssertFails

\* A query is on the pending lists of exactly the symbols it is registered with:
\* detach leaves none behind, whichever thread detaches it and whenever.
THEOREM QueriesCorrect == Spec => []QueryInv
<1>1. Init => QueryInv
  BY DEF Init, QueryInv, RegistrationsMirrored, UnlodgedUnregistered
<1>2. TypeOK /\ QueryInv /\ [Next]_vars => QueryInv'
  BY QueryStep
<1> QED
  BY <1>1, <1>2, TypeCorrect, PTL DEF Spec

\* The part of it that the runs check.
COROLLARY QueryRecordsMirrored == Spec => []RegistrationsMirrored
  BY QueriesCorrect, PTL DEF QueryInv

-----------------------------------------------------------------------------
(* A query whose lookup has been issued is waiting, due or answered. *)

\* What keeps a query from being forgotten: outcomes and answers are added only,
\* and what loses its last registration becomes due.
LEMMA NotForgotten ==
  ASSUME TypeOK, NoForgottenQuery,
         \A q \in Query : due[q] \subseteq due'[q] \/ answer'[q] # "none",
         \A q \in Query : answer[q] # "none" => answer'[q] # "none",
         \A q \in Query : qphase'[q] = "issued" /\ qphase[q] # "issued" =>
           regs'[q] # {} \/ due'[q] # {} \/ answer'[q] # "none",
         \A q \in Query : qphase[q] = "issued" /\ regs[q] # {} =>
           regs'[q] # {} \/ due'[q] # {} \/ answer'[q] # "none"
  PROVE  NoForgottenQuery'
<1> SUFFICES ASSUME NEW q \in Query, qphase'[q] = "issued"
             PROVE  regs'[q] # {} \/ due'[q] # {} \/ answer'[q] # "none"
  BY DEF NoForgottenQuery
<1>1. CASE qphase[q] # "issued"
  BY <1>1
<1>2. CASE qphase[q] = "issued"
  BY <1>2 DEF NoForgottenQuery
<1> QED
  BY <1>1, <1>2

\* notifySymbolMetRequiredState completes the query with its last symbol.
LEMMA NotifyMetNotForgotten ==
  ASSUME TypeOK, QueryInv, NoForgottenQuery, NEW T \in [Sym -> SUBSET Query],
         \A z \in Sym : T[z] \subseteq pending[z],
         NotifyMet(T), UNCHANGED <<qphase, answer>>
  PROVE  NoForgottenQuery'
<1> USE DEF TypeOK, QueryType, NotifyMet
<1>1. \A q \in Query : due[q] \subseteq due'[q]
  OBVIOUS
<1>2. ASSUME NEW q \in Query, qphase[q] = "issued", regs[q] # {}, regs'[q] = {}
      PROVE  due'[q] # {}
  <2>1. outstanding[q] = regs[q]
    BY <1>2 DEF QueryInv, RegistrationsMirrored
  <2>2. regs[q] \subseteq MetFor(T, q)
    BY <1>2
  <2> QED
    BY <1>2, <2>1, <2>2
<1> QED
  BY <1>1, <1>2, NotForgotten

LEMMA TakeTaken ==
  ASSUME QueryType, NEW Z, NEW st
  PROVE  \A z \in Sym : TakeQueriesMeeting(Z, st)[z] \subseteq pending[z]
  BY DEF QueryType, TakeQueriesMeeting

\* detach goes with an outcome for each query it is applied to.
LEMMA DetachNotForgotten ==
  ASSUME TypeOK, NoForgottenQuery, NEW Q \in SUBSET Query, Detach(Q),
         \A q \in Query \ Q : qphase'[q] = qphase[q],
         \A q \in Query : due[q] \subseteq due'[q] /\ (answer[q] # "none" => answer'[q] # "none"),
         \A q \in Q : due'[q] # {} \/ answer'[q] # "none"
  PROVE  NoForgottenQuery'
<1>1. \A q \in Query \ Q : regs'[q] = regs[q]
  BY DEF Detach, Forgotten, TypeOK, QueryType
<1> QED
  BY <1>1, NotForgotten

LEMMA LookUpNotForgotten ==
  ASSUME TypeOK, QueryInv, NoForgottenQuery, NEW q \in Query, LookUp(q)
  PROVE  NoForgottenQuery'
<1> USE DEF TypeOK, QueryType
<1>1. CASE LookupMatched(q)
  BY <1>1, NotForgotten DEF LookupMatched
<1>2. ASSUME LookupFails(q) \/ \E S \in SUBSET Sym : LodgeFails(q, S)
      PROVE  NoForgottenQuery'
  <2>1. /\ Detach({q}) /\ UNCHANGED answer
        /\ due' = [due EXCEPT ![q] = @ \cup {"failure"}]
        /\ qphase' = [qphase EXCEPT ![q] = "issued"]
    BY <1>2 DEF LookupFails, LodgeFails
  <2>2. due'[q] # {} /\ \A p \in Query : due[p] \subseteq due'[p]
    BY <2>1
  <2>3. \A p \in Query \ {q} : qphase'[p] = qphase[p]
    BY <2>1
  <2>4. {q} \in SUBSET Query
    OBVIOUS
  <2> QED
    BY <2>1, <2>2, <2>3, <2>4, DetachNotForgotten
<1>3. CASE MatchAssertFails(q)
  BY <1>3, NotForgotten DEF MatchAssertFails, queryVars
<1>4. CASE LodgeNotFound(q)
  <2>1. qphase'[q] = "unwinding" /\ UNCHANGED <<due, answer>>
        /\ \A p \in Query \ {q} : qphase'[p] = qphase[p] /\ regs'[p] = regs[p]
    BY <1>4 DEF LodgeNotFound, Lodge
  <2>2. qphase[q] = "matched"
    BY <1>4 DEF LodgeNotFound
  <2> QED
    BY <2>1, <2>2, NotForgotten
<1>5. CASE UnwindLookup(q)
  <2>1. /\ Detach({q}) /\ UNCHANGED due /\ answer'[q] # "none"
        /\ \A p \in Query \ {q} : qphase'[p] = qphase[p] /\ answer'[p] = answer[p]
    BY <1>5 DEF UnwindLookup, Answered
  <2> QED
    BY <2>1, DetachNotForgotten
<1>6. CASE LodgeQuery(q)
  <2>0. PICK W \in SUBSET Found(q), C \in SUBSET Collected(Found(q)) :
          /\ Lodge(q, W, C, "outstanding")
          /\ due' = IF W = {} THEN [due EXCEPT ![q] = @ \cup {"success"}] ELSE due
    BY <1>6 DEF LodgeQuery
  <2>1. /\ qphase[q] = "matched" /\ UNCHANGED answer
        /\ regs'[q] = regs[q] \cup W
        /\ due' = IF W = {} THEN [due EXCEPT ![q] = @ \cup {"success"}] ELSE due
        /\ \A p \in Query \ {q} : qphase'[p] = qphase[p] /\ regs'[p] = regs[p]
    BY <1>6, <2>0 DEF LodgeQuery, Lodge
  <2>2. \A p \in Query : due[p] \subseteq due'[p]
    BY <2>1
  <2>3. regs'[q] # {} \/ due'[q] # {}
    BY <2>1
  <2> QED
    BY <2>1, <2>2, <2>3, NotForgotten
<1> QED
  BY <1>1, <1>2, <1>3, <1>4, <1>5, <1>6 DEF LookUp

\* Each step keeps issued queries waiting, due or answered.
LEMMA ForgottenStep ==
  ASSUME TypeOK, QueryInv, NoForgottenQuery, [Next]_vars
  PROVE  NoForgottenQuery'
<1>1. CASE UNCHANGED queryVars
  BY <1>1, NotForgotten DEF queryVars
<1>2. ASSUME \/ \E s \in Sym : EmitSymbol(s)
             \/ \E u \in Unit, R \in SUBSET Sym : NotifyResolved(u, R)
      PROVE  NoForgottenQuery'
  <2>1. /\ UNCHANGED <<qphase, answer>>
        /\ \E Z \in SUBSET Sym, st \in Nat : NotifyMet(TakeQueriesMeeting(Z, st))
    BY <1>2 DEF EmitSymbol, NotifyResolved, ReadyAfter, TypeOK, GraphType
  <2> QED
    BY <2>1, TakeType, TakeTaken, NotifyMetNotForgotten DEF TypeOK
<1>3. ASSUME NEW s \in Sym, FailSymbol(s) PROVE NoForgottenQuery'
  <2>1. /\ pending[s] \in SUBSET Query /\ Detach(pending[s]) /\ UNCHANGED <<qphase, answer>>
        /\ due' = [q \in Query |-> IF q \in pending[s] THEN due[q] \cup {"failure"} ELSE due[q]]
    BY <1>3 DEF FailSymbol, TypeOK, QueryType
  <2> QED
    BY <2>1, DetachNotForgotten DEF TypeOK, QueryType
<1>4. ASSUME NEW q \in Query, NEW o \in Outcomes, NotifyComplete(q, o)
      PROVE  NoForgottenQuery'
  <2>1. /\ answer'[q] # "none" /\ UNCHANGED <<qphase, regs>>
        /\ \A p \in Query \ {q} : due'[p] = due[p] /\ answer'[p] = answer[p]
    BY <1>4 DEF NotifyComplete, Answered, Outcomes, TypeOK, QueryType
  <2> QED
    BY <2>1, NotForgotten
<1> QED
  BY <1>1, <1>2, <1>3, <1>4, LookUpNotForgotten
  DEF Next, LockedStep, Materialize, AtRest, vars, AddDependencies, SkipDependencies,
      DependenciesAssertFails, EmitTrivially, FailTrivially, EraseDoomed, NotifyRefused,
      OL_AddDependencies, NotifyEmitted, NotifyAssertFails, FailMaterialization,
      DestroyResponsibility, DispatchUnit, Define, RemoveTracker, RemoveAssertFails, queryVars

\* A query whose lookup was issued is registered somewhere, has an outcome that
\* some thread hands over, or has been answered: notify, detach and the failed
\* lookup drop none, in whatever order the threads take the lock.
THEOREM ForgottenCorrect == Spec => []NoForgottenQuery
<1>1. Init => NoForgottenQuery
  BY DEF Init, NoForgottenQuery
<1>2. TypeOK /\ QueryInv /\ NoForgottenQuery /\ [Next]_vars => NoForgottenQuery'
  BY ForgottenStep
<1> QED
  BY <1>1, <1>2, TypeCorrect, QueriesCorrect, PTL DEF Spec

-----------------------------------------------------------------------------
(* The session with splitting, transfer and removal by name. *)

\* A query's registrations and the pending lists agree also when symbols change
\* hands, become lazy again or are removed under it.
THEOREM FullQueriesCorrect == FullSpec => []QueryInv
<1>1. FullInit => QueryInv
  BY DEF FullInit, Init, QueryInv, RegistrationsMirrored, UnlodgedUnregistered
<1>2. FullTypeOK /\ QueryInv /\ [FullNext]_fullVars => QueryInv'
  <2>1. TypeOK /\ QueryInv /\ UNCHANGED queryVars => QueryInv'
    BY RegistrationsKept DEF queryVars
  <2> QED
    BY <2>1, QueryStep, AddedKeeps, FullSteps DEF FullTypeOK
<1> QED
  BY <1>1, <1>2, FullTypeCorrect, PTL DEF FullSpec

\* ... and no issued query is forgotten.
THEOREM FullForgottenCorrect == FullSpec => []NoForgottenQuery
<1>1. FullInit => QueryInv /\ NoForgottenQuery
  BY DEF FullInit, Init, QueryInv, RegistrationsMirrored, UnlodgedUnregistered, NoForgottenQuery
<1>2. FullTypeOK /\ QueryInv /\ NoForgottenQuery /\ [FullNext]_fullVars
      => QueryInv' /\ NoForgottenQuery'
  <2>1. TypeOK /\ QueryInv /\ UNCHANGED queryVars => QueryInv'
    BY RegistrationsKept DEF queryVars
  <2>2. TypeOK /\ NoForgottenQuery /\ UNCHANGED queryVars => NoForgottenQuery'
    BY NotForgotten DEF queryVars
  <2> QED
    BY <2>1, <2>2, QueryStep, ForgottenStep, AddedKeeps, FullSteps DEF FullTypeOK
<1> QED
  BY <1>1, <1>2, FullTypeCorrect, PTL DEF FullSpec
=============================================================================
