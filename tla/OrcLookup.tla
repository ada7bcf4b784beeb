------------------------------ MODULE OrcLookup ------------------------------
(***************************************************************************)
(* ExecutionSession::lookup: the two phases of a lookup, the dispatch of   *)
(* the units it sets in motion and the callbacks of its query.             *)
(*                                                                         *)
(* Phase 1 (OL_applyQueryPhase1) only looks for the symbols and releases   *)
(* the lock; phase 2 (OL_completeLookup) takes it again and searches       *)
(* afresh, so that the tables may differ from what phase 1 saw.  A slot    *)
(* names its JITDylib, so a search order visits each slot of the query     *)
(* once.                                                                   *)
(***************************************************************************)
EXTENDS OrcMaterialize

\* The symbols a lookup cannot do without.
Required(q) == QuerySyms[q] \ QueryWeak[q]

\* A unit looks its symbols up while it is materializing; other lookups may
\* be made at any time.
MayLookUp(q) == \A u \in Unit : LinkQuery[u] = q => Active(u)

\* The symbols of the query that are in the table, and those of them in the
\* error state.
Found(q) == QuerySyms[q] \cap Present
InError(q) == Found(q) \cap hasError

\* IL_updateCandidatesFor finds every required symbol and none in the error state.
Matched(q) == Required(q) \subseteq Present /\ InError(q) = {}

\* OL_applyQueryPhase1 succeeds: on to phase 2.
LookupMatched(q) ==
  /\ Unlocked /\ qphase[q] = "idle" /\ MayLookUp(q)
  /\ Matched(q)
  /\ qphase' = [qphase EXCEPT ![q] = "matched"]
  /\ UNCHANGED <<tableVars, graphVars, pending, outstanding, regs, due, answer,
                 unitVars, trackerVars, lockVars, historyVars>>

\* ... or not, and the lookup fails with SymbolsNotFound or FailedToMaterialize,
\* detaching the query.
LookupFails(q) ==
  /\ Unlocked /\ qphase[q] = "idle" /\ MayLookUp(q)
  /\ ~ Matched(q)
  /\ qphase' = [qphase EXCEPT ![q] = "issued"]
  /\ due' = [due EXCEPT ![q] = @ \cup {"failure"}]
  /\ Detach({q})
  /\ UNCHANGED <<tableVars, graphVars, answer, unitVars, trackerVars, lockVars,
                 historyVars>>

-----------------------------------------------------------------------------
(***************************************************************************)
(* OL_completeLookup                                                       *)
(***************************************************************************)
\* Matched symbols of S that do not meet the required state yet.
Waiting(q, S) == {s \in S : symState[s] < QueryState[q]}

\* Faulty variant: symbols that another unit took over are covered still.
CoveredOnce(C) == UNION {UnitSyms[u] : u \in C}

\* The units attached to symbols of W, and every symbol that units of C list.  A
\* unit goes on listing a symbol that the removal of another tracker erased, also
\* when a new definition of it has been added.
Collected(W) == {u \in Unit : \E s \in W \cap attached : umi[s] = u}
Covered(C) == UNION {usyms[u] : u \in C}

\* The units that no UnmaterializedInfo refers to once those of the symbols of K
\* are gone.
Orphaned(K) == {umi[s] : s \in K \cap attached} \ {umi[s] : s \in attached \ K}

\* The units of C can be collected in some order: each is still attached to a
\* symbol of W after those before it have detached what they list.
InTurn(C, W) ==
  \A D \in SUBSET C \ {{}} : \E u \in D, s \in W \cap attached :
    umi[s] = u /\ s \notin Covered(D \ {u})

\* What the matching loop may come to when it visits the symbols of V, in any
\* order: the query waits at those of W, and the units of C are collected.  A
\* symbol that meets the required state is waited for all the same when a unit
\* that lists it was collected before.
Matching(q, V, W, C) ==
  /\ Waiting(q, V) \subseteq W /\ W \subseteq Waiting(q, V) \cup Covered(C)
  /\ V \cap attached \subseteq Covered(C)
  /\ InTurn(C, V)

\* Faulty variant: what other units took over is moved too.
StartedOnce(C) ==
  [s \in Sym |-> IF s \in CoveredOnce(C) THEN Materializing ELSE symState[s]]

\* "Move all symbols associated with this MaterializationUnit into
\* materializing state."
Started(C) ==
  [s \in Sym |-> IF s \in Covered(C) THEN Materializing ELSE symState[s]]

\* Two collected units list a symbol in common.
Overlap(C) == \E u, v \in C : u # v /\ usyms[u] \cap usyms[v] # {}

\* Faulty variant: a unit is put back for the symbols that were looked up.
PutBackVisited(W, C) == {s \in W : \E u \in C : s \in usyms[u]}

\* "Replace the MUs": a unit is put back for every symbol it lists.
PutBack(W, C) == {s \in Sym : \E u \in C : s \in usyms[u]}

\* A matched symbol is in the error state: the query is detached and the units
\* collected at the symbols S visited before it are put back.
LodgeFails(q, S) ==
  /\ Unlocked /\ qphase[q] = "matched"
  /\ InError(q) # {} /\ S \subseteq Found(q) \ hasError
  /\ \E W \in SUBSET S, C \in SUBSET Collected(S) :
       /\ Matching(q, S, W, C)
       /\ Covered(C) \subseteq Present /\ ~ Overlap(C)
       /\ symState' = Started(C)
       /\ mi' = mi \cup W
       /\ attached' = (attached \ Covered(C)) \cup PutBack(W, C)
       /\ umi' = [s \in Sym |->
            IF s \in PutBack(W, C) THEN CHOOSE u \in C : s \in usyms[u]
            ELSE IF s \in Covered(C) THEN None ELSE umi[s]]
       /\ phase' = [u \in Unit |-> IF u \in Orphaned(Covered(C)) \ C THEN "lost"
                                   ELSE phase[u]]
  /\ Detach({q})
  /\ due' = [due EXCEPT ![q] = @ \cup {"failure"}]
  /\ qphase' = [qphase EXCEPT ![q] = "issued"]
  /\ UNCHANGED <<hasError, weak, dependants, unemitted, answer, usyms, urt, erred,
                 trackerVars, lockVars, historyVars>>

\* The assertions "No entry for symbol covered by MaterializationUnit" and, when
\* units are put back, "Unexpected materializer in map".
MatchAssertFails(q) ==
  /\ Unlocked /\ qphase[q] = "matched"
  /\ \E S \in SUBSET (Found(q) \ hasError) : \E C \in SUBSET Collected(S) :
       /\ InTurn(C, S)
       /\ \/ ~ (Covered(C) \subseteq Present)
          \/ InError(q) # {} /\ S \cap attached \subseteq Covered(C) /\ Overlap(C)
  /\ section' = "aborted"
  /\ UNCHANGED <<tableVars, graphVars, queryVars, unitVars, trackerVars, todo,
                 doomed, newDeps, historyVars>>

\* What both remaining outcomes of the matching loop do: the query waits at
\* the symbols of W, the units of C leave the tables and go on as p says.
Lodge(q, W, C, p) ==
  /\ symState' = Started(C)
  /\ attached' = attached \ Covered(C)
  /\ umi' = [s \in Sym |-> IF s \in Covered(C) THEN None ELSE umi[s]]
  /\ phase' = [u \in Unit |-> IF u \in C THEN p
                              ELSE IF u \in Orphaned(Covered(C)) THEN "lost" ELSE phase[u]]
  /\ mi' = mi \cup W
  /\ pending' = [s \in Sym |-> IF s \in W THEN pending[s] \cup {q} ELSE pending[s]]
  /\ regs' = [regs EXCEPT ![q] = @ \cup W]

\* A required symbol that phase 1 saw has gone.  The lookup fails with
\* SymbolsNotFound; the collected units are destroyed with CollectedUMIs.
LodgeNotFound(q) ==
  /\ Unlocked /\ qphase[q] = "matched"
  /\ InError(q) = {} /\ ~ (Required(q) \subseteq Present)
  /\ \E W \in SUBSET Found(q), C \in SUBSET Collected(Found(q)) :
       /\ Matching(q, Found(q), W, C)
       /\ Covered(C) \subseteq Present
       /\ Lodge(q, W, C, "lost")
       /\ outstanding' = [outstanding EXCEPT ![q] =
            (@ \ (Found(q) \ W)) \ (QueryWeak[q] \ Present)]
  /\ qphase' = [qphase EXCEPT ![q] = "unwinding"]
  /\ UNCHANGED <<hasError, weak, dependants, unemitted, due, answer, usyms, urt,
                 erred, trackerVars, lockVars, historyVars>>

\* NotifyComplete is called with outcome o; it is reset after the first call.
Answered(before, o) == IF before = "none" THEN o ELSE "twice"

\* The lock has been released: the failed lookup detaches its query and calls
\* handleFailed.
UnwindLookup(q) ==
  /\ Unlocked /\ qphase[q] = "unwinding"
  /\ Detach({q})
  /\ answer' = [answer EXCEPT ![q] = Answered(@, "failure")]
  /\ qphase' = [qphase EXCEPT ![q] = "issued"]
  /\ UNCHANGED <<tableVars, graphVars, due, unitVars, trackerVars, lockVars,
                 historyVars>>

\* The symbols of the unit on whose behalf the lookup is made.
Linked(q) == UNION {usyms[u] : u \in {v \in Unit : LinkQuery[v] = q}}

\* The lookup is lodged: responsibilities are made for the collected units, and
\* the symbols of the unit on whose behalf it is made come to depend on the
\* symbols it waits for (RegisterDependencies, called under the lock).
LodgeQuery(q) ==
  /\ Unlocked /\ qphase[q] = "matched"
  /\ InError(q) = {} /\ Required(q) \subseteq Present
  /\ \E W \in SUBSET Found(q), C \in SUBSET Collected(Found(q)) :
       /\ Matching(q, Found(q), W, C)
       /\ Covered(C) \subseteq Present
       /\ Lodge(q, W, C, "outstanding")
       /\ outstanding' = [outstanding EXCEPT ![q] = W]
       /\ due' = IF W = {} THEN [due EXCEPT ![q] = @ \cup {"success"}] ELSE due
       /\ trackerMRs' = [t \in Tracker |-> trackerMRs[t] \cup {u \in C : urt[u] = t}]
       /\ IF Linked(q) # {} /\ W # {}
          THEN section' = "deps" /\ todo' = Linked(q) /\ newDeps' = W
          ELSE UNCHANGED <<section, todo, newDeps>>
  /\ qphase' = [qphase EXCEPT ![q] = "issued"]
  /\ needs' = [s \in Sym |-> IF s \in Linked(q) THEN needs[s] \cup (Found(q) \ {s})
                             ELSE needs[s]]
  /\ UNCHANGED <<hasError, weak, dependants, unemitted, answer, usyms, urt,
                 erred, trackerSyms, relisted, defunct, doomed, declared>>

-----------------------------------------------------------------------------
\* dispatchOutstandingMUs takes the unit off the list and its task starts.
DispatchUnit(u) ==
  /\ phase[u] = "outstanding"
  /\ phase' = [phase EXCEPT ![u] = "running"]
  /\ UNCHANGED <<tableVars, graphVars, queryVars, usyms, urt, erred, trackerVars,
                 lockVars, historyVars>>

\* handleComplete or handleFailed, after the lock has been released.
NotifyComplete(q, o) ==
  /\ Unlocked /\ o \in due[q]
  /\ due' = [due EXCEPT ![q] = @ \ {o}]
  /\ answer' = [answer EXCEPT ![q] = Answered(@, o)]
  /\ UNCHANGED <<tableVars, graphVars, pending, qphase, outstanding, regs,
                 unitVars, trackerVars, lockVars, historyVars>>
=============================================================================
