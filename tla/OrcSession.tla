----------------------------- MODULE OrcSession -----------------------------
(***************************************************************************)
(* An execution session: clients that define, look up and remove, the      *)
(* threads that materialize, and the lock they share.                      *)
(***************************************************************************)
EXTENDS OrcTracker

\* The loops that hold the session lock.
LockedStep ==
  \/ \E s \in Sym : AddDependencies(s)
  \/ \E s \in Sym : SkipDependencies(s)
  \/ \E s \in Sym : DependenciesAssertFails(s)
  \/ \E s \in Sym : EmitSymbol(s)
  \/ \E s \in Sym : EmitTrivially(s)
  \/ \E s \in Sym : FailSymbol(s)
  \/ \E s \in Sym : FailTrivially(s)
  \/ EraseDoomed

\* A materializer at work on u.
Materialize(u) ==
  \/ \E R \in SUBSET Sym : NotifyResolved(u, R)
  \/ \E R \in SUBSET Sym : NotifyRefused(u, R)
  \/ \E n \in Sym, D \in Declarable : OL_AddDependencies(u, n, D)
  \/ NotifyEmitted(u)
  \/ NotifyAssertFails(u)
  \/ FailMaterialization(u)
  \/ DestroyResponsibility(u)

\* A thread in lookup.
LookUp(q) ==
  \/ LookupMatched(q)
  \/ LookupFails(q)
  \/ \E S \in SUBSET Sym : LodgeFails(q, S)
  \/ MatchAssertFails(q)
  \/ LodgeNotFound(q)
  \/ UnwindLookup(q)
  \/ LodgeQuery(q)

\* Nothing is left to do: the session may rest.
AtRest ==
  /\ section \in {"free", "aborted"}
  /\ section = "free" =>
       /\ \A q \in Query : qphase[q] \in {"idle", "issued"} /\ due[q] = {} /\ regs[q] = {}
       /\ \A u \in Unit : phase[u] \in {"new", "defined", "done", "lost"}
  /\ UNCHANGED vars

Next ==
  \/ LockedStep
  \/ \E u \in Unit : Materialize(u)
  \/ \E u \in Unit : DispatchUnit(u)
  \/ \E q \in Query : LookUp(q)
  \/ \E q \in Query, o \in Outcomes : NotifyComplete(q, o)
  \/ \E u \in Unit : Define(u)
  \/ \E t \in Tracker : RemoveTracker(t)
  \/ \E t \in Tracker : RemoveAssertFails(t)
  \/ AtRest

Spec == Init /\ [][Next]_vars

-----------------------------------------------------------------------------
(***************************************************************************)
(* Scheduling.  A thread that is inside the session goes on: loops under   *)
(* the lock end, lookups reach phase 2, dispatched tasks run, callbacks    *)
(* are made.  A materializer ends by emitting, or by failing when it was   *)
(* told of an error; it need not fail because it may, and clients need not *)
(* look anything up.                                                       *)
(***************************************************************************)
MustFail(u) == u \in erred \/ LinkFailed(u)

\* A lookup under way, or the one a running unit needs before it is linked.
Progress(q) ==
  /\ qphase[q] # "idle" \/ \E u \in Unit : LinkQuery[u] = q
  /\ LookUp(q)

Fairness ==
  /\ WF_vars(LockedStep)
  /\ \A u \in Unit :
       /\ WF_vars(DispatchUnit(u))
       /\ WF_vars(\E R \in SUBSET Sym : NotifyResolved(u, R))
       /\ WF_vars(NotifyEmitted(u))
       /\ WF_vars(\E R \in SUBSET Sym : NotifyRefused(u, R))
       /\ WF_vars(MustFail(u) /\ FailMaterialization(u))
       /\ WF_vars(DestroyResponsibility(u))
  /\ \A q \in Query :
       /\ WF_vars(Progress(q))
       /\ WF_vars(\E o \in Outcomes : NotifyComplete(q, o))

FairSpec == Spec /\ Fairness
=============================================================================
