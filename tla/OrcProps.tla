------------------------------ MODULE OrcProps ------------------------------
(***************************************************************************)
(* What the session promises its clients, and the conditions its tables    *)
(* keep between any two steps.                                             *)
(***************************************************************************)
EXTENDS OrcSession

\* Some thread is responsible for s: its unit waits to be dispatched or its
\* responsibility still covers it.
Owned(s) == \E u \in Unit : phase[u] \in {"outstanding", "running"} /\ s \in usyms[u]

-----------------------------------------------------------------------------
(***************************************************************************)
(* The dependence graph                                                    *)
(***************************************************************************)

\* s is on the worklist of failSymbols.
BeingFailed(s) == section \in {"fail", "untrack"} /\ s \in todo

\* Dependants and UnemittedDependencies are two records of one relation; emit
\* and failSymbols assert each record from the other.
DepsMirrored ==
  \A x, y \in Sym : x \in unemitted[y] <=> y \in dependants[x]

\* Only a symbol with a MaterializingInfo is in the graph or has queries, and it
\* is in the table and not ready; what a symbol waits for is being materialized;
\* and an emitted symbol that still has an info waits for something while nothing
\* waits for it, unless failSymbols is about to take it out.
GraphShape ==
  \A s \in Sym :
    /\ s \notin mi => unemitted[s] = {} /\ dependants[s] = {} /\ pending[s] = {}
    /\ s \in mi => symState[s] \in NeverSearched .. Emitted
    /\ \A d \in unemitted[s] : d # s /\ symState[d] \in {Materializing, Resolved}
    /\ s \in mi /\ symState[s] = Emitted /\ ~ BeingFailed(s) =>
         unemitted[s] # {} /\ dependants[s] = {}

\* What keeps the two records mirrored: emit drops the dependants of a symbol that
\* it emits or makes ready, which is right because nothing waits for an emitted
\* symbol, because no symbol waits for itself, and because what has no
\* MaterializingInfo is not in the graph.
NoSelfWait == \A x \in Sym : x \notin unemitted[x]
WaitsForUnemitted == \A x \in Sym : \A d \in unemitted[x] : symState[d] < Emitted
InfoOfNodes == \A s \in Sym \ mi : unemitted[s] = {} /\ dependants[s] = {}
GraphInv == DepsMirrored /\ NoSelfWait /\ WaitsForUnemitted /\ InfoOfNodes

\* Readiness propagated along UnemittedDependencies is readiness of the whole
\* closure: emit, failSymbols, addDependencies and removeTracker implement the
\* abstract operations of OrcReadiness.
Readiness == INSTANCE OrcReadiness WITH
  emitted <- {s \in Sym : symState[s] >= Emitted},
  ready   <- {s \in Sym : symState[s] = Ready},
  failed  <- hasError,
  deps    <- declared

ReadinessIsClosure == Readiness!Spec

\* The same of the symbols that the link of its definition matched, whether or
\* not a dependence on them was registered: SymbolState::Ready is "ready and safe
\* for clients to access", Emitted is "waiting on transitive dependencies".
ReadyIsSafe ==
  Unlocked => \A s \in Sym : symState[s] = Ready =>
                \A d \in needs[s] : symState[d] = Ready

-----------------------------------------------------------------------------
(***************************************************************************)
(* Queries                                                                 *)
(***************************************************************************)

\* A query is on the pending list of exactly the symbols it is registered with,
\* and it waits for nothing else once its lookup is lodged.
RegistrationsMirrored ==
  /\ \A q \in Query, s \in Sym : q \in pending[s] <=> s \in regs[q]
  /\ \A q \in Query : qphase[q] = "issued" => outstanding[q] = regs[q]

\* A lookup registers its query in phase 2 and not before.
UnlodgedUnregistered ==
  \A q \in Query : qphase[q] \in {"idle", "matched"} => regs[q] = {}
QueryInv == RegistrationsMirrored /\ UnlodgedUnregistered

\* No query waits for a symbol that has reached the state it requires.
NoLateQuery ==
  Unlocked => \A s \in Sym : \A q \in pending[s] :
                symState[s] < QueryState[q] /\ s \notin attached

\* A query is answered once: handleComplete and handleFailed hand NotifyComplete
\* one outcome and then reset it, so that a second call would be of no function.
AnsweredOnce ==
  \A q \in Query : answer[q] # "twice" /\ (answer[q] # "none" => due[q] = {})
                   /\ Cardinality(due[q]) <= 1

\* A query that a lookup has lodged is waiting, about to be answered or
\* answered: it is never forgotten.
NoForgottenQuery ==
  \A q \in Query : qphase[q] = "issued" =>
    regs[q] # {} \/ due[q] # {} \/ answer[q] # "none"

\* Whatever a query waits for is in somebody's hands: a responsibility covers
\* it, or it is emitted and waits for symbols that are.
NoStrandedQuery ==
  Unlocked => \A s \in Sym : pending[s] # {} =>
    \/ Owned(s)
    \/ /\ symState[s] = Emitted /\ unemitted[s] # {}
       /\ \A d \in unemitted[s] : Owned(d)

\* A query is reported complete only when every symbol it asked for (but a weakly
\* referenced one that was not there) has reached the required state.
CompletionMeansReached ==
  [][\A q \in Query : "success" \in due'[q] \ due[q] =>
       \A s \in Required(q) \cup regs[q] :
         symState'[s] >= QueryState[q] \/ symState'[s] = Absent]_vars

-----------------------------------------------------------------------------
(***************************************************************************)
(* The symbol table                                                        *)
(***************************************************************************)

\* A symbol that is neither waiting for a first lookup nor finished is covered
\* by a responsibility or in the error state.
NoStrandedSymbol ==
  Unlocked => \A s \in Sym :
    symState[s] \in {Materializing, Resolved} =>
      s \in attached \/ s \in hasError \/ Owned(s)

\* At most one responsibility covers a symbol, and an attached symbol none.
OneOwner ==
  \A u, v \in Unit, s \in Sym :
    /\ phase[u] \in {"outstanding", "running"} /\ s \in usyms[u] /\ urt[u] \notin defunct
    => /\ s \notin attached
       /\ phase[v] \in {"outstanding", "running"} /\ s \in usyms[v]
            /\ urt[v] \notin defunct => u = v

\* "Lazy symbol should have UnmaterializedInfo", and the other way round.
AttachedHasUnit ==
  \A s \in Sym :
    /\ s \in attached <=> umi[s] # None
    /\ s \in attached =>
         /\ phase[umi[s]] = "defined" /\ s \in usyms[umi[s]]
         /\ symState[s] \in {NeverSearched, Materializing}

\* A symbol that was never searched for has its materializer attached.
NeverSearchedAttached ==
  \A s \in Sym : symState[s] = NeverSearched => s \in attached

\* What the loops rely on while they hold the lock: emit handles resolved symbols
\* only, addDependencies registers dependences on symbols already in motion, and
\* removeTracker erases no symbol that is still in the graph.
EmitsResolved == section = "emit" => \A s \in todo : symState[s] = Resolved
DependsOnMoving == section = "deps" => \A d \in newDeps : symState[d] >= Materializing
ErasesOutsideGraph == section = "untrack" => doomed \cap mi \subseteq todo

\* An emitted symbol leaves the graph by becoming ready or by failing.
EmittedOutsideFailed ==
  \A s \in Sym \ mi : symState[s] = Emitted => s \in hasError
ShapeInv == GraphShape /\ EmittedOutsideFailed /\ ErasesOutsideGraph

TableInv == AttachedHasUnit /\ NeverSearchedAttached /\ EmitsResolved /\ DependsOnMoving

\* A definition advances through the states in order and leaves the table only
\* when its tracker is removed.
StatesAdvance ==
  [][\A s \in Sym :
       \/ symState'[s] >= symState[s]
       \/ symState'[s] = Absent /\ s \in doomed]_vars

-----------------------------------------------------------------------------
(***************************************************************************)
(* Trackers                                                                *)
(***************************************************************************)

\* A symbol yet to be materialized is on the list of the tracker its unit was
\* added under, and on no other.
TrackedByUnit ==
  Unlocked => \A s \in attached, t \in Tracker \ {DefaultTracker} :
    s \in trackerSyms[t] <=> urt[umi[s]] = t

\* TrackerMRs lists the live responsibilities of each tracker.
ResponsibilitiesTracked ==
  \A t \in Tracker :
    trackerMRs[t] = {u \in Unit : phase[u] \in {"outstanding", "running"} /\ urt[u] = t}

-----------------------------------------------------------------------------
(***************************************************************************)
(* Progress                                                                *)
(***************************************************************************)

\* Every lookup that has begun is answered, through whatever chain of units,
\* cycles of references included, its symbols depend on.
EveryLookupAnswered ==
  \A q \in Query : qphase[q] # "idle" ~> answer[q] # "none"

\* An emitted symbol does not wait for ever: it becomes ready, fails or is
\* removed.
EmittedSettles ==
  \A s \in Sym :
    symState[s] = Emitted ~> symState[s] \in {Ready, Absent} \/ s \in hasError

=============================================================================
