---------------------------- MODULE OrcTransfer ----------------------------
(***************************************************************************)
(* What else clients do to definitions: transfer a tracker's resources to  *)
(* another tracker, remove the default tracker, remove symbols by name.    *)
(***************************************************************************)
EXTENDS OrcSplit

CONSTANTS
  Transferable,      \* pairs <<source, destination>> of trackers
  DefaultRemovable,  \* whether the client removes the default tracker
  Undefinable        \* sets of symbols the client removes by name

ASSUME TransferAssumption ==
  /\ Transferable \subseteq {p \in Tracker \X Tracker : p[1] # p[2]}
  /\ DefaultRemovable \in BOOLEAN
  /\ Undefinable \subseteq SUBSET Sym

VARIABLE dropped  \* JITDylib::DefaultTracker has been reset

\* The symbols listed under no tracker are the default tracker's.
Untracked == Present \ UNION {trackerSyms[t] : t \in Tracker}

-----------------------------------------------------------------------------
\* Faulty variant: the source's symbols are forgotten.
ListsCleared(src, dst) == [trackerSyms EXCEPT ![src] = {}]

\* The lists of symbols after transferTracker.  From the default tracker, the
\* destination's list becomes the untracked symbols, and only those.
ListsAfter(src, dst) ==
  IF dst = DefaultTracker THEN [trackerSyms EXCEPT ![src] = {}]
  ELSE IF src = DefaultTracker THEN [trackerSyms EXCEPT ![dst] = Untracked]
  ELSE [trackerSyms EXCEPT ![src] = {}, ![dst] = @ \cup trackerSyms[src]]

\* What occurs twice in the destination's list afterwards.
RelistedAfter(src, dst) ==
  IF dst = DefaultTracker THEN [relisted EXCEPT ![src] = {}]
  ELSE IF src = DefaultTracker THEN [relisted EXCEPT ![dst] = {}]
  ELSE [relisted EXCEPT ![src] = {},
          ![dst] = @ \cup relisted[src] \cup (trackerSyms[dst] \cap trackerSyms[src])]

\* Faulty variant: units that wait to be materialized keep the source tracker.
MovedRunning(src) == {u \in Unit : phase[u] \in {"outstanding", "running"} /\ urt[u] = src}

\* The unmaterialized units and the responsibilities of the source.
Moved(src) == {u \in Unit : phase[u] \in {"defined", "outstanding", "running"} /\ urt[u] = src}

\* Faulty variant: the responsibilities stay linked under the source.
MRsKept(src, dst) == trackerMRs

\* TrackerMRs after transferTracker.
MRsAfter(src, dst) == [trackerMRs EXCEPT ![src] = {}, ![dst] = @ \cup trackerMRs[src]]

\* ResourceTracker::transferTo, and the destruction of the last reference to a
\* tracker, which transfers to the default one.  Nothing looks at the destination:
\* that it is not defunct is the client's obligation.
TransferTracker(src, dst) ==
  /\ Unlocked /\ src \notin defunct /\ dst \notin defunct
  /\ <<src, dst>> \in Transferable
  /\ src = DefaultTracker \/ dst = DefaultTracker => ~ dropped
  /\ defunct' = defunct \cup {src}
  /\ urt' = [u \in Unit |-> IF u \in Moved(src) THEN dst ELSE urt[u]]
  /\ trackerMRs' = MRsAfter(src, dst)
  /\ trackerSyms' = ListsAfter(src, dst)
  /\ relisted' = RelistedAfter(src, dst)
  /\ UNCHANGED <<tableVars, graphVars, queryVars, phase, usyms, erred, lockVars,
                 historyVars, splitVars, dropped>>

\* ResourceTracker::remove of the default tracker: everything that no other
\* tracker lists goes, and DefaultTracker is reset.
RemoveDefaultTracker ==
  /\ Unlocked /\ DefaultRemovable /\ DefaultTracker \notin defunct
  /\ defunct' = defunct \cup {DefaultTracker}
  /\ section' = "untrack"
  /\ doomed' = Untracked
  /\ todo' = Untracked \cap mi
  /\ dropped' = TRUE
  /\ UNCHANGED <<tableVars, graphVars, queryVars, unitVars, trackerSyms, relisted,
                 trackerMRs, newDeps, historyVars, splitVars>>

-----------------------------------------------------------------------------
\* Faulty variant: what is being materialized may be removed.
AnyPresent(S) == S \subseteq Present

\* Neither missing nor "in the process of being materialized".
Undefinables(S) == \A s \in S : symState[s] \in {NeverSearched, Ready}

\* JITDylib::remove by name; with an error it changes nothing.  The unit attached
\* to a symbol discards it; the lists of the trackers are left as they are.
RemoveSymbols(S) ==
  /\ Unlocked /\ S # {} /\ S \in Undefinable
  /\ Undefinables(S)
  /\ symState' = [s \in Sym |-> IF s \in S THEN Absent ELSE symState[s]]
  /\ hasError' = hasError \ S
  /\ weak' = weak \ S
  /\ attached' = attached \ S
  /\ umi' = [s \in Sym |-> IF s \in S THEN None ELSE umi[s]]
  /\ usyms' = [u \in Unit |-> usyms[u] \ Discarded(u, S)]
  /\ phase' = [u \in Unit |-> IF u \in Orphaned(S) THEN "lost" ELSE phase[u]]
  /\ declared' = [s \in Sym |-> IF s \in S THEN {} ELSE declared[s] \ S]
  /\ needs' = [s \in Sym |-> IF s \in S THEN {} ELSE needs[s] \ S]
  /\ UNCHANGED <<graphVars, queryVars, urt, erred, trackerVars, lockVars, splitVars,
                 dropped>>
=============================================================================
