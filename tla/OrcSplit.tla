------------------------------ MODULE OrcSplit ------------------------------
(***************************************************************************)
(* Materializers that break their work up: a responsibility asks which of  *)
(* its symbols are wanted, returns the others to the JITDylib as a unit of *)
(* their own (replace), hands some to a new responsibility (delegate), or  *)
(* claims symbols it did not define (defineMaterializing).                 *)
(*                                                                         *)
(* A unit of Spare has no symbols when the session starts; it is the       *)
(* MaterializationUnit or the responsibility that a split creates.         *)
(***************************************************************************)
EXTENDS OrcProps

CONSTANTS
  Spare,       \* units that only splitting creates
  Splitter,    \* units whose materializer splits its responsibility
  ClaimSyms,   \* the symbols the materializer of a unit may claim
  ClaimWeak    \* those of them it claims weakly

ASSUME SplitAssumption ==
  /\ Spare \subseteq Unit \ Loaded
  /\ \A v \in Spare : UnitSyms[v] = {}
  /\ Splitter \subseteq Unit
  /\ ClaimSyms \in [Unit -> SUBSET Sym]
  /\ ClaimWeak \in [Unit -> SUBSET Sym]

VARIABLES
  asked,   \* what getRequestedSymbols last told the materializer
  adrift   \* responsibilities whose RT pointer was moved into an error

splitVars == <<asked, adrift>>

\* asked and adrift: a local of the materializer, and a null RT.
SplitTypeOK ==
  /\ asked \in [Unit -> SUBSET Sym]
  /\ adrift \in SUBSET Unit

SplitInit ==
  /\ asked = [u \in Unit |-> {}]
  /\ adrift = {}

\* A responsibility that may be split.
Splits(u) == Active(u) /\ u \in Splitter \ adrift

\* The symbols of S with queries pending.
Wanted(S) == {s \in S \cap mi : pending[s] # {}}

-----------------------------------------------------------------------------
\* JITDylib::getRequestedSymbols: the answer is a copy, and the lock is released.
GetRequestedSymbols(u) ==
  /\ Unlocked /\ Splits(u)
  /\ \A s \in usyms[u] : symState[s] \in Materializing .. Emitted
  /\ asked' = [asked EXCEPT ![u] = Wanted(usyms[u])]
  /\ UNCHANGED <<vars, adrift>>

\* Its assertions ("JITDylib does not cover this symbol?", "getRequestedSymbols can
\* only be called for symbols that have started materializing"): it does not look
\* at the tracker, which may have been removed with the symbols.
RequestedAssertFails(u) ==
  /\ Unlocked /\ Splits(u)
  /\ \E s \in usyms[u] : symState[s] \notin Materializing .. Emitted
  /\ section' = "aborted"
  /\ UNCHANGED <<tableVars, graphVars, queryVars, unitVars, trackerVars, todo,
                 doomed, newDeps, historyVars, splitVars>>

\* Faulty variant: the queries that came since getRequestedSymbols are not
\* looked for.
WantedWhenAsked(u, S) == {s \in S : s \in asked[u]}

\* The symbols of S that must be materialized at once.
WantedNow(u, S) == Wanted(S)

\* Faulty variant: the returned symbols keep their former owner.
KeptBy(u, S) == usyms[u]

\* What u still covers when it gives S away.
LeftWith(u, S) == usyms[u] \ S

\* replace: "If any symbol has pending queries against it then we need to
\* materialize MU immediately".  The new unit is dispatched outside the lock.
ReplaceRunning(u, v, S) ==
  /\ Unlocked /\ Splits(u) /\ v \in Spare /\ phase[v] = "new"
  /\ S # {} /\ S \subseteq usyms[u] \ asked[u]
  /\ urt[u] \notin defunct
  /\ \A s \in S : symState[s] = Materializing /\ s \notin attached
  /\ WantedNow(u, S) # {}
  /\ usyms' = [usyms EXCEPT ![u] = LeftWith(u, S), ![v] = S]
  /\ urt' = [urt EXCEPT ![v] = urt[u]]
  /\ phase' = [phase EXCEPT ![v] = "outstanding"]
  /\ trackerMRs' = [trackerMRs EXCEPT ![urt[u]] = @ \cup {v}]
  /\ UNCHANGED <<tableVars, graphVars, queryVars, erred, trackerSyms, relisted,
                 defunct, lockVars, historyVars, splitVars>>

\* ... "Otherwise, make MU responsible for all the symbols": they are lazy again,
\* in state Materializing.
ReplaceLazily(u, v, S) ==
  /\ Unlocked /\ Splits(u) /\ v \in Spare /\ phase[v] = "new"
  /\ S # {} /\ S \subseteq usyms[u] \ asked[u]
  /\ urt[u] \notin defunct
  /\ \A s \in S : symState[s] = Materializing /\ s \notin attached
  /\ WantedNow(u, S) = {}
  /\ usyms' = [usyms EXCEPT ![u] = LeftWith(u, S), ![v] = S]
  /\ urt' = [urt EXCEPT ![v] = urt[u]]
  /\ phase' = [phase EXCEPT ![v] = "defined"]
  /\ attached' = attached \cup S
  /\ umi' = [s \in Sym |-> IF s \in S THEN v ELSE umi[s]]
  /\ UNCHANGED <<symState, hasError, weak, graphVars, queryVars, erred,
                 trackerVars, lockVars, historyVars, splitVars>>

\* delegate: the new responsibility works beside the old one.
Delegate(u, v, S) ==
  /\ Unlocked /\ Splits(u) /\ v \in Spare /\ phase[v] = "new"
  /\ S # {} /\ S \subseteq usyms[u]
  /\ urt[u] \notin defunct
  /\ usyms' = [usyms EXCEPT ![u] = LeftWith(u, S), ![v] = S]
  /\ urt' = [urt EXCEPT ![v] = urt[u]]
  /\ phase' = [phase EXCEPT ![v] = "running"]
  /\ trackerMRs' = [trackerMRs EXCEPT ![urt[u]] = @ \cup {v}]
  /\ UNCHANGED <<tableVars, graphVars, queryVars, erred, trackerSyms, relisted,
                 defunct, lockVars, historyVars, splitVars>>

\* replace and delegate with a defunct tracker: the symbols are forgotten and
\* the error takes FromMR.RT with it.
SplitRefused(u, S) ==
  /\ Unlocked /\ Splits(u)
  /\ S # {} /\ S \subseteq usyms[u]
  /\ urt[u] \in defunct
  /\ usyms' = [usyms EXCEPT ![u] = LeftWith(u, S)]
  /\ adrift' = adrift \cup {u}
  /\ UNCHANGED <<tableVars, graphVars, queryVars, phase, urt, erred, trackerVars,
                 lockVars, historyVars, asked>>

\* What the materializer does next reads the null RT: failMaterialization
\* dereferences it, and the destructor asserts "No MRs in TrackerMRs list for RT".
AdriftAborts(u) ==
  /\ Unlocked /\ u \in adrift /\ phase[u] = "running"
  /\ section' = "aborted"
  /\ UNCHANGED <<tableVars, graphVars, queryVars, unitVars, trackerVars, todo,
                 doomed, newDeps, historyVars, splitVars>>

-----------------------------------------------------------------------------
\* Faulty variant: an existing symbol is claimed too when the claim is weak.
AcceptedAnyway(u, K) == K

\* The claims of K that are kept: a weak claim on an existing symbol is dropped.
Accepted(u, K) == K \ (ClaimWeak[u] \cap Present)

\* defineMaterializing: new entries, already materializing, covered by u.
DefineMaterializing(u, K) ==
  LET A == Accepted(u, K) IN
  /\ Unlocked /\ Active(u) /\ u \notin adrift
  /\ K # {} /\ K \subseteq ClaimSyms[u]
  /\ urt[u] \notin defunct
  /\ (K \ ClaimWeak[u]) \cap Present = {}
  /\ symState' = [s \in Sym |-> IF s \in A THEN Materializing ELSE symState[s]]
  /\ weak' = (weak \ A) \cup (A \cap ClaimWeak[u])
  /\ usyms' = [usyms EXCEPT ![u] = @ \cup A]
  /\ UNCHANGED <<hasError, attached, umi, graphVars, queryVars, phase, urt, erred,
                 trackerVars, lockVars, historyVars, splitVars>>

\* A strong claim on an existing symbol, or a defunct tracker: the entries added
\* so far are taken back and the materializer has to fail.
DefineMaterializingFails(u, K) ==
  /\ Unlocked /\ Active(u) /\ u \notin adrift
  /\ K # {} /\ K \subseteq ClaimSyms[u]
  /\ urt[u] \in defunct \/ (K \ ClaimWeak[u]) \cap Present # {}
  /\ erred' = erred \cup {u}
  /\ UNCHANGED <<tableVars, graphVars, queryVars, phase, usyms, urt, trackerVars,
                 lockVars, historyVars, splitVars>>

\* One step of a materializer that splits or claims.
Split(u) ==
  \/ GetRequestedSymbols(u)
  \/ RequestedAssertFails(u)
  \/ \E v \in Spare, S \in SUBSET usyms[u] : ReplaceRunning(u, v, S)
  \/ \E v \in Spare, S \in SUBSET usyms[u] : ReplaceLazily(u, v, S)
  \/ \E v \in Spare, S \in SUBSET usyms[u] : Delegate(u, v, S)
  \/ \E S \in SUBSET usyms[u] : SplitRefused(u, S)
  \/ AdriftAborts(u)
  \/ \E K \in SUBSET ClaimSyms[u] : DefineMaterializing(u, K)
  \/ \E K \in SUBSET ClaimSyms[u] : DefineMaterializingFails(u, K)
=============================================================================
