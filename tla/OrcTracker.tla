----------------------------- MODULE OrcTracker -----------------------------
(***************************************************************************)
(* Adding definitions to a JITDylib under a resource tracker, and removing *)
(* a tracker with everything it tracks.                                    *)
(***************************************************************************)
EXTENDS OrcLookup

\* The symbols of a new unit that have a table entry already.
Existing(u) == usyms[u] \cap Present

\* A strong definition of a symbol that is strongly defined, or already
\* searched for, is a duplicate.
Duplicates(u) ==
  {s \in Existing(u) \ UnitWeak[u] : s \notin weak \/ symState[s] > NeverSearched}

\* Faulty variant: the weak definitions of existing symbols are kept.
DefinedAnyway(u) == usyms[u]

\* The symbols u will define: its weak definitions of existing symbols are
\* discarded, its strong ones override weak ones.
Defined(u) == usyms[u] \ (Existing(u) \cap UnitWeak[u])

\* The symbols of K that are taken over from v: doDiscard is called on the unit
\* that the UnmaterializedInfo of the overridden definition refers to, and on no
\* other that lists the symbol.
Discarded(v, K) == {s \in K \cap attached : umi[s] = v}

\* Faulty variant: a unit is gone when it loses any symbol.
Overridden(K) == {umi[s] : s \in K \cap attached}

\* The units that lose their last symbol when those of K are taken over.
Emptied(K) == Orphaned(K)

\* installMaterializationUnit lists the symbols under a tracker that is not the
\* default one.
Tracked(u, K) ==
  IF urt[u] = DefaultTracker THEN trackerSyms
  ELSE [trackerSyms EXCEPT ![urt[u]] = @ \cup K]

\* JITDylib::define: defineImpl and installMaterializationUnit under one lock.
\* With a duplicate it returns an error and changes nothing.
Define(u) ==
  LET K == Defined(u) IN
  /\ Unlocked /\ phase[u] = "new" /\ usyms[u] # {}
  /\ Duplicates(u) = {}
  /\ symState' = [s \in Sym |-> IF s \in K THEN NeverSearched ELSE symState[s]]
  /\ hasError' = hasError \ K
  /\ weak' = (weak \ K) \cup (K \cap UnitWeak[u])
  /\ attached' = attached \cup K
  /\ umi' = [s \in Sym |-> IF s \in K THEN u ELSE umi[s]]
  /\ usyms' = [v \in Unit |-> IF v = u THEN K ELSE usyms[v] \ Discarded(v, K)]
  /\ phase' = [v \in Unit |->
       IF v = u THEN IF K = {} THEN "lost" ELSE "defined"
       ELSE IF v \in Emptied(K) THEN "lost" ELSE phase[v]]
  /\ trackerSyms' = Tracked(u, K)
  /\ relisted' = IF urt[u] = DefaultTracker THEN relisted
                 ELSE [relisted EXCEPT ![urt[u]] = @ \cup (K \cap trackerSyms[urt[u]])]
  /\ UNCHANGED <<graphVars, queryVars, urt, erred, trackerMRs, defunct,
                 lockVars, historyVars>>

-----------------------------------------------------------------------------
(***************************************************************************)
(* ResourceTracker::remove                                                 *)
(***************************************************************************)

\* A symbol listed for t has left the table under another tracker, or is listed
\* twice and will have left it when its second turn comes.
ListIsStale(t) == ~ (trackerSyms[t] \subseteq Present) \/ relisted[t] # {}

\* The tracker becomes defunct and the symbols it tracks that are being
\* materialized go to the worklist of failSymbols.
RemoveTracker(t) ==
  /\ Unlocked /\ t \in Removable \ defunct
  /\ ~ ListIsStale(t)
  /\ defunct' = defunct \cup {t}
  /\ section' = "untrack"
  /\ doomed' = trackerSyms[t]
  /\ todo' = trackerSyms[t] \cap mi
  /\ trackerSyms' = [trackerSyms EXCEPT ![t] = {}]
  /\ UNCHANGED <<tableVars, graphVars, queryVars, unitVars, relisted, trackerMRs,
                 newDeps, historyVars>>

\* The assertions "Symbol not in symbol table" and "Symbol not present in
\* table" end the program.
RemoveAssertFails(t) ==
  /\ Unlocked /\ t \in Removable \ defunct
  /\ ListIsStale(t)
  /\ section' = "aborted"
  /\ UNCHANGED <<tableVars, graphVars, queryVars, unitVars, trackerVars, todo,
                 doomed, newDeps, historyVars>>

\* "Removed symbols should be taken out of the table altogether."  The units go on
\* listing them ("FIXME: Should this discard the symbols?").
EraseDoomed ==
  /\ section = "untrack" /\ todo = {}
  /\ symState' = [s \in Sym |-> IF s \in doomed THEN Absent ELSE symState[s]]
  /\ hasError' = hasError \ doomed
  /\ weak' = weak \ doomed
  /\ attached' = attached \ doomed
  /\ umi' = [s \in Sym |-> IF s \in doomed /\ s \in attached THEN None ELSE umi[s]]
  /\ phase' = [u \in Unit |-> IF u \in Orphaned(doomed) THEN "lost" ELSE phase[u]]
  /\ declared' = [s \in Sym |-> IF s \in doomed THEN {} ELSE declared[s] \ doomed]
  /\ needs' = [s \in Sym |-> IF s \in doomed THEN {} ELSE needs[s] \ doomed]
  /\ section' = "free" /\ doomed' = {}
  /\ UNCHANGED <<graphVars, queryVars, usyms, urt, erred, trackerVars, todo,
                 newDeps>>
=============================================================================
