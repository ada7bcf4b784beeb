--------------------------- MODULE OrcMaterialize ---------------------------
(***************************************************************************)
(* What a MaterializationResponsibility does to the symbols it covers:     *)
(* notifyResolved, addDependencies, notifyEmitted, failMaterialization and *)
(* its destruction.                                                        *)
(*                                                                         *)
(* Each operation takes the session lock.  The loops of addDependencies,   *)
(* emit and failSymbols are executed one iteration per step while section  *)
(* names the loop that holds the lock, so that no other operation runs in  *)
(* between; the order of the iterations is free, as it is in the code      *)
(* (DenseMap order).  The outcome of a query is recorded in due inside the *)
(* critical section and handed to NotifyComplete after it.                 *)
(***************************************************************************)
EXTENDS OrcState

\* A responsibility its materializer is still working on.
Active(u) == phase[u] = "running" /\ u \notin erred /\ usyms[u] # {}

\* The lookup made on behalf of u, if it makes one, has succeeded (failed).
LinkSucceeded(u) ==
  LinkQuery[u] # None => answer[LinkQuery[u]] = "success"
LinkFailed(u) ==
  LinkQuery[u] # None /\ answer[LinkQuery[u]] \in {"failure", "twice"}

\* Faulty variant: the error state of a symbol is not looked at.
RefusedForTrackerOnly(u, R) == urt[u] \in defunct

\* resolve and emit report an error: the tracker is gone, or some symbol of
\* R was moved to the error state when a dependence of it failed.
Refused(u, R) == urt[u] \in defunct \/ R \cap hasError # {}

\* The loop that holds the lock has finished with s and goes on with more.
Continue(s, more) ==
  /\ todo' = (todo \ {s}) \cup more
  /\ section' = IF todo' = {} /\ section # "untrack" THEN "free" ELSE section
  /\ newDeps' = IF section' = "free" THEN {} ELSE newDeps

-----------------------------------------------------------------------------
(***************************************************************************)
(* Queries: takeQueriesMeeting, notifySymbolMetRequiredState and detach.   *)
(***************************************************************************)

\* Faulty variants: a query is taken only past the state it requires, or
\* whatever state it requires.
TakeQueriesPast(Z, st) ==
  [z \in Sym |-> IF z \in Z THEN {q \in pending[z] : QueryState[q] < st} ELSE {}]
TakeAllQueries(Z, st) ==
  [z \in Sym |-> IF z \in Z THEN pending[z] ELSE {}]

\* The queries on a symbol of Z that are content with state st.  OrcPending says why
\* popping them from the back of a sorted list comes to the same.
TakeQueriesMeeting(Z, st) ==
  [z \in Sym |-> IF z \in Z THEN {q \in pending[z] : QueryState[q] <= st} ELSE {}]

\* The symbols that the taken queries T tell q about.
MetFor(T, q) == {z \in Sym : q \in T[z]}

\* Faulty variant: completion is tested before the count is decremented.
NotifyMetTestedEarly(T) ==
  /\ pending' = [z \in Sym |-> pending[z] \ T[z]]
  /\ regs' = [q \in Query |-> regs[q] \ MetFor(T, q)]
  /\ outstanding' = [q \in Query |-> outstanding[q] \ MetFor(T, q)]
  /\ due' = [q \in Query |->
       IF MetFor(T, q) # {} /\ outstanding[q] = {} THEN due[q] \cup {"success"} ELSE due[q]]

\* The taken queries learn of their symbols; one with none left is complete.
NotifyMet(T) ==
  /\ pending' = [z \in Sym |-> pending[z] \ T[z]]
  /\ regs' = [q \in Query |-> regs[q] \ MetFor(T, q)]
  /\ outstanding' = [q \in Query |-> outstanding[q] \ MetFor(T, q)]
  /\ due' = [q \in Query |->
       IF MetFor(T, q) # {} /\ outstanding[q] \subseteq MetFor(T, q)
       THEN due[q] \cup {"success"} ELSE due[q]]

\* Faulty variant: a detached query stays on the pending lists.
PendingStill(Q) == pending

\* AsynchronousSymbolQuery::detach for each query of Q: it leaves every
\* MaterializingInfo it is registered with and forgets its symbols.
PendingWithout(Q) ==
  [z \in Sym |-> {q \in pending[z] : ~ (q \in Q /\ z \in regs[q])}]
Forgotten(f, Q) == [q \in Query |-> IF q \in Q THEN {} ELSE f[q]]

Detach(Q) ==
  /\ pending' = PendingWithout(Q)
  /\ regs' = Forgotten(regs, Q)
  /\ outstanding' = Forgotten(outstanding, Q)

-----------------------------------------------------------------------------
(***************************************************************************)
(* notifyResolved                                                          *)
(***************************************************************************)

\* The flags that the symbols are resolved with are those they were defined
\* with, Common excepted: a weak definition stays weak.
NotifyResolved(u, R) ==
  /\ Unlocked /\ Active(u)
  /\ R # {} /\ R \subseteq usyms[u]
  /\ ~ Refused(u, R)
  /\ \A s \in R : symState[s] = Materializing /\ s \notin attached
  /\ symState' = [s \in Sym |-> IF s \in R THEN Resolved ELSE symState[s]]
  /\ NotifyMet(TakeQueriesMeeting(R \cap mi, Resolved))
  /\ UNCHANGED <<hasError, weak, attached, umi, graphVars, qphase, answer, unitVars,
                 trackerVars, lockVars, historyVars>>

\* notifyResolved or notifyEmitted returned an error, and the materializer is
\* bound to call failMaterialization.
NotifyRefused(u, R) ==
  /\ Unlocked /\ Active(u)
  /\ R # {} /\ R \subseteq usyms[u]
  /\ Refused(u, R)
  /\ erred' = erred \cup {u}
  /\ UNCHANGED <<tableVars, graphVars, queryVars, phase, usyms, urt,
                 trackerVars, lockVars, historyVars>>

\* The assertions of resolve ("Symbol not found", "Symbol should be
\* materializing") and emit ("No symbol table entry for Name", "Emitting from
\* state other than Resolved"): the entry of a symbol that u covers is gone, or
\* is another definition's, or another responsibility covers it and was faster.
NotifyAssertFails(u) ==
  /\ Unlocked /\ Active(u) /\ urt[u] \notin defunct
  /\ \E s \in usyms[u] :
       \/ symState[s] \notin {Materializing, Resolved} \/ s \in attached
       \/ symState[s] = Resolved /\ \E v \in Unit \ {u} :
            phase[v] = "running" /\ s \in usyms[v] /\ urt[v] \notin defunct
  /\ section' = "aborted"
  /\ UNCHANGED <<tableVars, graphVars, queryVars, unitVars, trackerVars, todo,
                 doomed, newDeps, historyVars>>

-----------------------------------------------------------------------------
(***************************************************************************)
(* addDependencies                                                         *)
(***************************************************************************)

\* The dependences still in flight: neither ready nor failed.
InFlight(D) == {d \in D : symState[d] # Ready /\ d \notin hasError}

\* What n ends up waiting for: an emitted dependence is replaced by what it
\* waits for itself, and no symbol waits for itself.
NewEdges(n) ==
  ({d \in InFlight(newDeps) : symState[d] # Emitted}
     \cup UNION {unemitted[d] : d \in {e \in InFlight(newDeps) : symState[e] = Emitted}})
  \ {n}

\* Materializers register dependences on symbols that a lookup has already
\* set in motion (QueryRegistrations, or symbols of their own).
InMotion(d) == symState[d] >= Materializing /\ d \notin attached

\* MaterializationResponsibility::addDependencies takes the lock for one name
\* that it covers; addDependenciesForAll does so for every name, one after the
\* other.
OL_AddDependencies(u, n, D) ==
  /\ Unlocked /\ Active(u) /\ n \in usyms[u]
  /\ D # {} /\ \A d \in D : InMotion(d)
  /\ section' = "deps" /\ todo' = {n} /\ newDeps' = D
  /\ UNCHANGED <<tableVars, graphVars, queryVars, unitVars, trackerVars, doomed,
                 historyVars>>

\* JITDylib::addDependencies for one name of the responsibility.
AddDependencies(n) ==
  /\ section = "deps" /\ n \in todo
  /\ symState[n] \in NeverSearched .. Resolved
  /\ n \notin hasError
  /\ mi' = mi \cup {n} \cup InFlight(newDeps)
  /\ unemitted' = [unemitted EXCEPT ![n] = @ \cup NewEdges(n)]
  /\ dependants' = [d \in Sym |->
       IF d \in NewEdges(n) THEN dependants[d] \cup {n} ELSE dependants[d]]
  /\ hasError' = IF \E d \in newDeps : symState[d] # Ready /\ d \in hasError
                 THEN hasError \cup {n} ELSE hasError
  /\ declared' = [declared EXCEPT ![n] = @ \cup (newDeps \ {n})]
  /\ Continue(n, {})
  /\ UNCHANGED <<symState, weak, attached, umi, queryVars, unitVars,
                 trackerVars, doomed, needs>>

\* The early return for a name that is in the error state already.
SkipDependencies(n) ==
  /\ section = "deps" /\ n \in todo
  /\ symState[n] \in NeverSearched .. Resolved
  /\ n \in hasError
  /\ Continue(n, {})
  /\ UNCHANGED <<tableVars, graphVars, queryVars, unitVars, trackerVars, doomed,
                 historyVars>>

\* The assertions "Name not in symbol table" and "Can not add dependencies for
\* a symbol that is not materializing" end the program.
DependenciesAssertFails(n) ==
  /\ section = "deps" /\ n \in todo
  /\ symState[n] \notin NeverSearched .. Resolved
  /\ section' = "aborted" /\ todo' = {} /\ newDeps' = {}
  /\ UNCHANGED <<tableVars, graphVars, queryVars, unitVars, trackerVars, doomed,
                 historyVars>>

-----------------------------------------------------------------------------
(***************************************************************************)
(* notifyEmitted                                                           *)
(***************************************************************************)

\* OL_notifyEmitted, up to the loop of JITDylib::emit.  SymbolFlags is cleared
\* when emit returns; only the caller's thread reads it.
NotifyEmitted(u) ==
  /\ Unlocked /\ Active(u)
  /\ LinkSucceeded(u)
  /\ ~ Refused(u, usyms[u])
  /\ \A s \in usyms[u] : symState[s] = Resolved
  /\ section' = "emit" /\ todo' = usyms[u]
  /\ usyms' = [usyms EXCEPT ![u] = {}]
  /\ UNCHANGED <<tableVars, graphVars, queryVars, phase, urt, erred,
                 trackerVars, doomed, newDeps, historyVars>>

\* Faulty variants: the dependant takes nothing over, or itself too when s and
\* x wait for each other.
InheritedNothing(s, x) == unemitted[x] \ {s}
InheritedWithSelf(s, x) == (unemitted[x] \ {s}) \cup unemitted[s]

\* transferEmittedNodeDependencies: what the dependant x of s waits for once
\* s is emitted.
Inherited(s, x) == (unemitted[x] \ {s}) \cup (unemitted[s] \ {x})

\* Faulty variant: the dependants of s are not looked at.
ReadyAlone(s) == {x \in {s} : unemitted[s] = {}}

\* The emitted symbols with nothing left to wait for once s is emitted.
ReadyAfter(s) ==
  {x \in dependants[s] : symState[x] = Emitted /\ Inherited(s, x) = {}}
    \cup {x \in {s} : unemitted[s] = {}}

UnemittedAfter(s) ==
  [x \in Sym |-> IF x \in dependants[s] THEN Inherited(s, x) ELSE unemitted[x]]

DependantsAfter(s) ==
  [y \in Sym |->
     IF y = s \/ y \in ReadyAfter(s) THEN {}
     ELSE IF y \in unemitted[s] THEN dependants[y] \cup (dependants[s] \ {y})
     ELSE dependants[y]]

\* One iteration of emit for a symbol that has a MaterializingInfo.
EmitSymbol(s) ==
  /\ section = "emit" /\ s \in todo /\ s \in mi
  /\ symState' = [x \in Sym |-> IF x \in ReadyAfter(s) THEN Ready
                                ELSE IF x = s THEN Emitted ELSE symState[x]]
  /\ mi' = mi \ ReadyAfter(s)
  /\ unemitted' = UnemittedAfter(s)
  /\ dependants' = DependantsAfter(s)
  /\ NotifyMet(TakeQueriesMeeting(ReadyAfter(s), Ready))
  /\ Continue(s, {})
  /\ UNCHANGED <<hasError, weak, attached, umi, qphase, answer, unitVars,
                 trackerVars, doomed, historyVars>>

\* "If this symbol has no MaterializingInfo then it's trivially ready."
EmitTrivially(s) ==
  /\ section = "emit" /\ s \in todo /\ s \notin mi
  /\ symState' = [symState EXCEPT ![s] = Ready]
  /\ Continue(s, {})
  /\ UNCHANGED <<hasError, weak, attached, umi, graphVars, queryVars, unitVars,
                 trackerVars, doomed, historyVars>>

-----------------------------------------------------------------------------
(***************************************************************************)
(* failMaterialization                                                     *)
(***************************************************************************)

\* OL_notifyFailed: SymbolFlags is cleared first; nothing else happens when the
\* tracker is already defunct.
FailMaterialization(u) ==
  /\ Unlocked /\ phase[u] = "running" /\ usyms[u] # {}
  /\ u \in erred \/ u \in Faulty \/ LinkFailed(u)
  /\ usyms' = [usyms EXCEPT ![u] = {}]
  /\ IF urt[u] \in defunct THEN UNCHANGED <<section, todo>>
     ELSE section' = "fail" /\ todo' = usyms[u]
  /\ UNCHANGED <<tableVars, graphVars, queryVars, phase, urt, erred,
                 trackerVars, doomed, newDeps, historyVars>>

\* Faulty variants: the entry of s is erased from the map that later reads, or
\* s goes on waiting.
UnemittedErased(s) ==
  [x \in Sym \ {s} |-> IF x \in dependants[s] THEN unemitted[x] \ {s} ELSE unemitted[x]]
UnemittedOfDependants(s) ==
  [x \in Sym |-> IF x \in dependants[s] THEN unemitted[x] \ {s} ELSE unemitted[x]]

\* failSymbols takes s out of the graph, in both directions.
UnemittedWithout(s) ==
  [x \in Sym |-> IF x = s THEN {}
                ELSE IF x \in dependants[s] THEN unemitted[x] \ {s}
                ELSE unemitted[x]]
DependantsWithout(s) ==
  [y \in Sym |-> IF y = s THEN {}
                ELSE IF y \in unemitted[s] THEN dependants[y] \ {s}
                ELSE dependants[y]]

\* Faulty variant: the failure stops at the direct dependants.
NoCascade(s) == {}

\* The emitted dependants of s, which no responsibility covers any more.
Cascade(s) == {x \in dependants[s] : symState[x] = Emitted}

\* One iteration of failSymbols for a symbol that has a MaterializingInfo: its
\* dependants fail with it, and the emitted ones among them join the worklist.
FailSymbol(s) ==
  /\ section \in {"fail", "untrack"} /\ s \in todo
  /\ symState[s] # Absent /\ s \in mi
  /\ hasError' = hasError \cup {s} \cup dependants[s]
  /\ mi' = mi \ {s}
  /\ unemitted' = UnemittedWithout(s)
  /\ dependants' = DependantsWithout(s)
  /\ Detach(pending[s])
  /\ due' = [q \in Query |-> IF q \in pending[s] THEN due[q] \cup {"failure"} ELSE due[q]]
  /\ Continue(s, Cascade(s))
  /\ UNCHANGED <<symState, weak, attached, umi, qphase, answer, unitVars,
                 trackerVars, doomed, historyVars>>

\* An iteration that finds no table entry, or no MaterializingInfo.
FailTrivially(s) ==
  /\ section \in {"fail", "untrack"} /\ s \in todo
  /\ symState[s] = Absent \/ s \notin mi
  /\ hasError' = IF symState[s] = Absent THEN hasError ELSE hasError \cup {s}
  /\ Continue(s, {})
  /\ UNCHANGED <<symState, weak, attached, umi, graphVars, queryVars, unitVars,
                 trackerVars, doomed, historyVars>>

\* unlinkMaterializationResponsibility.
UnlinkMR(u) == [trackerMRs EXCEPT ![urt[u]] = @ \ {u}]

\* ~MaterializationResponsibility: "All symbols should have been explicitly
\* materialized or failed".
DestroyResponsibility(u) ==
  /\ Unlocked /\ phase[u] = "running" /\ usyms[u] = {}
  /\ phase' = [phase EXCEPT ![u] = "done"]
  /\ erred' = erred \ {u}
  /\ trackerMRs' = UnlinkMR(u)
  /\ UNCHANGED <<tableVars, graphVars, queryVars, usyms, urt, trackerSyms,
                 relisted, defunct, lockVars, historyVars>>
=============================================================================
