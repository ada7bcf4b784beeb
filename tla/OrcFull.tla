------------------------------ MODULE OrcFull ------------------------------
(***************************************************************************)
(* The session of OrcSession with materializers that split their work and  *)
(* clients that transfer trackers and remove symbols by name.              *)
(***************************************************************************)
EXTENDS OrcTransfer

fullVars == <<vars, splitVars, dropped>>

FullTypeOK == TypeOK /\ SplitTypeOK /\ dropped \in BOOLEAN

FullInit == Init /\ SplitInit /\ dropped = FALSE

\* A client does not define under a default tracker that was removed (the code
\* would create a new one, which the model has no name for).
Definable(u) == urt[u] = DefaultTracker => ~ dropped

\* The steps of OrcSession.
BaseStep ==
  /\ \/ LockedStep
     \/ \E u \in Unit \ adrift : Materialize(u)
     \/ \E u \in Unit : DispatchUnit(u)
     \/ \E q \in Query : LookUp(q)
     \/ \E q \in Query, o \in Outcomes : NotifyComplete(q, o)
     \/ \E u \in Unit : Definable(u) /\ Define(u)
     \/ \E t \in Tracker : RemoveTracker(t)
     \/ \E t \in Tracker : RemoveAssertFails(t)
     \/ AtRest
  /\ UNCHANGED <<splitVars, dropped>>

SplitStep == (\E u \in Unit : Split(u)) /\ UNCHANGED dropped

FullNext ==
  \/ BaseStep
  \/ SplitStep
  \/ \E src, dst \in Tracker : TransferTracker(src, dst)
  \/ RemoveDefaultTracker
  \/ \E S \in SUBSET Sym : RemoveSymbols(S)

FullSpec == FullInit /\ [][FullNext]_fullVars

\* The scheduling of OrcSession, in the larger state.
Quietly(A) == A /\ UNCHANGED <<splitVars, dropped>>

FullFairness ==
  /\ WF_fullVars(Quietly(LockedStep))
  /\ \A u \in Unit :
       /\ WF_fullVars(Quietly(DispatchUnit(u)))
       /\ WF_fullVars(Quietly(u \notin adrift /\ \E R \in SUBSET Sym : NotifyResolved(u, R)))
       /\ WF_fullVars(Quietly(u \notin adrift /\ NotifyEmitted(u)))
       /\ WF_fullVars(Quietly(u \notin adrift /\ \E R \in SUBSET Sym : NotifyRefused(u, R)))
       /\ WF_fullVars(Quietly(u \notin adrift /\ MustFail(u) /\ FailMaterialization(u)))
       /\ WF_fullVars(Quietly(u \notin adrift /\ DestroyResponsibility(u)))
  /\ \A q \in Query :
       /\ WF_fullVars(Quietly(Progress(q)))
       /\ WF_fullVars(Quietly(\E o \in Outcomes : NotifyComplete(q, o)))

FullFairSpec == FullSpec /\ FullFairness

-----------------------------------------------------------------------------
\* The unit that waits with s, or the responsibility that covers it.
Holders(s) ==
  {u \in Unit : phase[u] \in {"defined", "outstanding", "running"}
                 /\ s \in usyms[u] /\ urt[u] \notin defunct}

\* Splitting, claiming, transferring and removing lose no symbol and give none
\* away twice (replace, delegate, defineMaterializing, transferTracker): a symbol
\* that is being materialized has one holder, under a live tracker.
HeldOnce ==
  Unlocked => \A s \in Sym :
    symState[s] \in {Materializing, Resolved} /\ s \notin hasError =>
      \E u \in Unit : Holders(s) = {u}

\* Nothing waits for a symbol that is lazy again: replace returns a symbol only
\* when no query is pending against it, and whatever came to depend on it did so
\* through a query ("If any symbol has pending queries against it then we need to
\* materialize MU immediately").  Only what has failed may still wait for it: the
\* query was detached when another of its symbols failed.
WaitsForOwned ==
  Unlocked => \A s \in Sym \ hasError : unemitted[s] \cap attached = {}
=============================================================================
