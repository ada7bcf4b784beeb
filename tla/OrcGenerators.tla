--------------------------- MODULE OrcGenerators ---------------------------
(***************************************************************************)
(* Phase 1 of a lookup with definition generators: the lookup walks its    *)
(* search order; in each JITDylib it asks the generators for the names     *)
(* that have no definition.  A generator serves one lookup at a time, and  *)
(* may take a lookup away to continue it later.                            *)
(*                                                                         *)
(* Every lookup matches exported symbols only.  A section of the code that *)
(* holds the session lock, or a generator's mutex, is one action.          *)
(***************************************************************************)
EXTENDS Integers, Sequences, FiniteSets, SequencesExt

CONSTANTS
  Name, Dylib, Gen, Lookup,
  SearchOrder,   \* the JITDylibs each lookup searches, in order
  LookupSet,     \* the names it looks for
  WeaklyRef,     \* those of them it references weakly
  DefGenerators, \* the generators of each JITDylib at the start
  Makes,         \* the names each generator can define
  Capturing,     \* generators that may take the LookupState
  Erring,        \* generators that may return an error
  Removable,     \* generators the client may remove
  Loaded,        \* the definitions there are at the start
  Hidden,        \* symbols that are not exported
  Fallible       \* definitions that may fail to materialize

ASSUME GeneratorAssumption ==
  /\ SearchOrder \in [Lookup -> Seq(Dylib)]
  /\ LookupSet \in [Lookup -> SUBSET Name]
  /\ WeaklyRef \in [Lookup -> SUBSET Name]
  /\ DefGenerators \in [Dylib -> Seq(Gen)]
  /\ Makes \in [Gen -> SUBSET Name]
  /\ Capturing \cup Erring \cup Removable \subseteq Gen
  /\ Loaded \cup Hidden \cup Fallible \subseteq Dylib \X Name

VARIABLES
  symbols,   \* the symbols in the tables of the JITDylibs
  errors,    \* those of them in the error state
  gens,      \* JITDylib::DefGenerators
  gone,      \* generators that have been destroyed
  inUse,     \* DefinitionGenerator::InUse
  queue,     \* DefinitionGenerator::PendingLookups
  at,        \* where each lookup is
  index,     \* CurSearchOrderIndex
  entering,  \* NewJITDylib
  cands,     \* DefGeneratorCandidates
  nonCands,  \* DefGeneratorNonCandidates
  stack,     \* CurDefGeneratorStack; the last element is the next to run
  genState,  \* GenState
  err,       \* the lookup has been handed an error
  result     \* what the lookup came to

tables    == <<symbols, errors>>
genVars   == <<gens, gone, inUse, queue>>
progress  == <<index, entering, cands, nonCands, stack>>
lookVars  == <<at, progress, genState, err, result>>
genVarsAll == <<tables, genVars, lookVars>>

Places == {"idle", "visit", "search", "generating", "captured", "returned",
           "continued", "refilter", "queued", "tasked", "done"}

GenTypes ==
  /\ symbols \subseteq Dylib \X Name /\ errors \subseteq symbols
  /\ gens \in [Dylib -> Seq(Gen)]
  /\ gone \subseteq Gen /\ inUse \subseteq Gen \ gone
  /\ queue \in [Gen -> Seq(Lookup)]
  /\ at \in [Lookup -> Places]
  /\ index \in [Lookup -> Nat]
  /\ \A l \in Lookup : index[l] \in 1 .. Len(SearchOrder[l]) + 1
  /\ stack \in [Lookup -> Seq(Gen)]
  /\ entering \in [Lookup -> BOOLEAN]
  /\ cands \in [Lookup -> SUBSET Name] /\ nonCands \in [Lookup -> SUBSET Name]
  /\ genState \in [Lookup -> {"not", "resumed", "in"}]
  /\ err \in [Lookup -> BOOLEAN]
  /\ result \in [Lookup -> {"none", "found", "notFound", "failed"}]

\* The types; the lookups that wait are those in the queue of a generator in use,
\* whatever resumes, fails or turns away the others.
GenTypeOK ==
  /\ GenTypes
  /\ \A l \in Lookup : at[l] = "queued" <=> \E g \in inUse : l \in ToSet(queue[g])

GenInit ==
  /\ symbols = Loaded /\ errors = {}
  /\ gens = DefGenerators /\ gone = {} /\ inUse = {}
  /\ queue = [g \in Gen |-> <<>>]
  /\ at = [l \in Lookup |-> "idle"]
  /\ index = [l \in Lookup |-> 1]
  /\ entering = [l \in Lookup |-> TRUE]
  /\ cands = LookupSet
  /\ nonCands = [l \in Lookup |-> {}]
  /\ stack = [l \in Lookup |-> <<>>]
  /\ genState = [l \in Lookup |-> "not"]
  /\ err = [l \in Lookup |-> FALSE]
  /\ result = [l \in Lookup |-> "none"]

\* The JITDylib the lookup is in, and the generator it is to run or runs.
Here(l) == SearchOrder[l][index[l]]
Top(l) == Last(stack[l])

Searching(l) == index[l] <= Len(SearchOrder[l])

\* The lookup goes to p; it ends with outcome o.
GoTo(l, p) == at' = [at EXCEPT ![l] = p] /\ UNCHANGED result
End(l, o) == at' = [at EXCEPT ![l] = "done"] /\ result' = [result EXCEPT ![l] = o]

-----------------------------------------------------------------------------
\* A lookup starts.
StartLookup(l) ==
  /\ at[l] = "idle"
  /\ GoTo(l, "visit")
  /\ UNCHANGED <<tables, genVars, progress, genState, err>>

\* "If we've just reached a new JITDylib then perform some setup."
EnterDylib(l) ==
  /\ at[l] = "visit" /\ Searching(l) /\ ~ err[l] /\ entering[l]
  /\ cands' = [cands EXCEPT ![l] = @ \cup nonCands[l]]
  /\ nonCands' = [nonCands EXCEPT ![l] = {}]
  /\ stack' = [stack EXCEPT ![l] = @ \o Reverse(gens[Here(l)])]
  /\ entering' = [entering EXCEPT ![l] = FALSE]
  /\ UNCHANGED <<tables, genVars, at, index, genState, err, result>>

\* The candidates that have an entry here: hidden, in the error state, or found.
HiddenHere(l) == {n \in cands[l] : <<Here(l), n>> \in symbols \cap Hidden}
InErrorHere(l) == {n \in cands[l] : <<Here(l), n>> \in errors \ Hidden}
FoundHere(l) == {n \in cands[l] : <<Here(l), n>> \in symbols \ Hidden}

\* Faulty variant: a hidden symbol is no candidate for the next JITDylib.
HiddenDropped(l) == {}

\* Hidden symbols are kept for the next JITDylib, if this one has generators.
SetAside(l) == IF gens[Here(l)] = <<>> THEN {} ELSE HiddenHere(l)

\* IL_updateCandidatesFor.
UpdateCandidates(l) ==
  /\ InErrorHere(l) = {}
  /\ cands' = [cands EXCEPT ![l] = @ \ (HiddenHere(l) \cup FoundHere(l))]
  /\ nonCands' = [nonCands EXCEPT ![l] = @ \cup SetAside(l)]

-----------------------------------------------------------------------------
\* Faulty variant: the generator is free although lookups wait.
FreedAlways(g) == inUse \ {g}

\* Faulty variant: the generator is never free again.
FreedNever(g) == inUse

\* "If there are no pending lookups then mark the generator as free"
FreedIfNoneWait(g) == IF queue[g] = <<>> THEN inUse \ {g} ELSE inUse

\* OL_resumeLookupAfterGeneration: l, which goes to p, leaves its generator; the
\* first lookup that waits for it, if any, is resumed by a task.
LeaveGenerator(l, p) ==
  LET g == Top(l) IN
  IF g \in gone
  THEN /\ genState' = [genState EXCEPT ![l] = "not"]
       /\ at' = [at EXCEPT ![l] = p]
       /\ UNCHANGED <<inUse, queue, stack>>
  ELSE /\ stack' = [stack EXCEPT ![l] = Front(@)]
       /\ inUse' = FreedIfNoneWait(g)
       /\ IF queue[g] = <<>>
          THEN /\ genState' = [genState EXCEPT ![l] = "not"]
               /\ at' = [at EXCEPT ![l] = p]
               /\ UNCHANGED queue
          ELSE /\ queue' = [queue EXCEPT ![g] = Tail(@)]
               /\ genState' = [genState EXCEPT ![l] = "not", ![Head(queue[g])] = "resumed"]
               /\ at' = [at EXCEPT ![l] = p, ![Head(queue[g])] = "tasked"]

\* "Remove any generation candidates that are already defined (and match) in this
\* JITDylib."
FilterCandidates(l) ==
  /\ at[l] = "visit" /\ Searching(l) /\ ~ err[l] /\ ~ entering[l]
  /\ UpdateCandidates(l)
  /\ IF genState[l] = "resumed" /\ cands'[l] = {}
     THEN LeaveGenerator(l, "search")
     ELSE at' = [at EXCEPT ![l] = "search"] /\ UNCHANGED <<inUse, queue, stack, genState>>
  /\ UNCHANGED <<tables, gens, gone, index, entering, err, result>>

\* ... and again after a generator has run.
FilterAfterGeneration(l) ==
  /\ at[l] = "refilter"
  /\ UpdateCandidates(l)
  /\ GoTo(l, "search")
  /\ UNCHANGED <<tables, genVars, index, entering, stack, genState, err>>

\* A candidate is in the error state: the lookup fails as it is.
FilterFails(l) ==
  /\ \/ at[l] = "visit" /\ Searching(l) /\ ~ err[l] /\ ~ entering[l]
     \/ at[l] = "refilter"
  /\ InErrorHere(l) # {}
  /\ End(l, "failed")
  /\ UNCHANGED <<tables, genVars, progress, genState, err>>

\* "If we've been handed an error or received one back from a generator then fail
\* the query."
FailWithError(l) ==
  /\ at[l] = "visit" /\ Searching(l) /\ err[l]
  /\ End(l, "failed")
  /\ UNCHANGED <<tables, genVars, progress, genState, err>>

-----------------------------------------------------------------------------
\* There are generators to run and candidates to run them for.
MayGenerate(l) == at[l] = "search" /\ stack[l] # <<>> /\ cands[l] # {}

\* "DefinitionGenerator removed while lookup in progress"
GeneratorRemoved(l) ==
  /\ MayGenerate(l) /\ Top(l) \in gone
  /\ End(l, "failed")
  /\ UNCHANGED <<tables, genVars, progress, genState, err>>

\* The generator is in use: the lookup waits.
WaitForGenerator(l) ==
  /\ MayGenerate(l) /\ Top(l) \notin gone
  /\ genState[l] = "not" /\ Top(l) \in inUse
  /\ queue' = [queue EXCEPT ![Top(l)] = Append(@, l)]
  /\ GoTo(l, "queued")
  /\ UNCHANGED <<tables, gens, gone, inUse, progress, genState, err>>

\* The generator is free, or was handed over to this lookup.
EnterGenerator(l) ==
  /\ MayGenerate(l) /\ Top(l) \notin gone
  /\ genState[l] = "resumed" \/ Top(l) \notin inUse
  /\ inUse' = inUse \cup {Top(l)}
  /\ genState' = [genState EXCEPT ![l] = "in"]
  /\ GoTo(l, "generating")
  /\ UNCHANGED <<tables, gens, gone, queue, progress, err>>

\* The definitions the generator adds to the JITDylib it is run for.
Made(l) == {Here(l)} \X (Makes[Top(l)] \cap cands[l])

\* tryToGenerate defines what it can, or meets an error: a duplicate definition or
\* one of its own.
Generate(l, p) ==
  /\ \/ Made(l) \cap symbols = {} /\ symbols' = symbols \cup Made(l) /\ err' = err
     \/ /\ Made(l) \cap symbols # {} \/ Top(l) \in Erring
        /\ err' = [err EXCEPT ![l] = TRUE] /\ symbols' = symbols
  /\ GoTo(l, p)
  /\ UNCHANGED <<errors, genVars, progress, genState>>

GenerateInPlace(l) == at[l] = "generating" /\ Generate(l, "returned")

\* The generator takes the LookupState ...
Capture(l) ==
  /\ at[l] = "generating" /\ Top(l) \in Capturing
  /\ GoTo(l, "captured")
  /\ UNCHANGED <<tables, genVars, progress, genState, err>>

\* ... and calls LookupState::continueLookup later.
ContinueLookup(l) == at[l] = "captured" /\ Generate(l, "continued")

\* "If the lookup returned then pop the generator stack and unblock the next lookup
\* on this generator (if any)."
AfterGeneration(l) ==
  /\ \/ at[l] = "returned" /\ LeaveGenerator(l, IF err[l] THEN "visit" ELSE "refilter")
     \/ at[l] = "continued" /\ LeaveGenerator(l, "visit")
  /\ UNCHANGED <<tables, gens, gone, index, entering, cands, nonCands, err, result>>

\* LookupTask::run.
RunTask(l) ==
  /\ at[l] = "tasked"
  /\ GoTo(l, "visit")
  /\ UNCHANGED <<tables, genVars, progress, genState, err>>

-----------------------------------------------------------------------------
\* The generators of this JITDylib have been run, or nothing is left for them.
LeaveDylib(l) ==
  /\ at[l] = "search" /\ (stack[l] = <<>> \/ cands[l] = {})
  /\ IF cands[l] = {} /\ nonCands[l] = {}
     THEN index' = [index EXCEPT ![l] = Len(SearchOrder[l]) + 1] /\ UNCHANGED entering
     ELSE /\ index' = [index EXCEPT ![l] = @ + 1]
          /\ entering' = [entering EXCEPT ![l] = TRUE]
  /\ GoTo(l, "visit")
  /\ UNCHANGED <<tables, genVars, cands, nonCands, stack, genState, err>>

\* The names the lookup cannot do without, and the JITDylibs that define n for it.
Required(l) == LookupSet[l] \ WeaklyRef[l]
Definers(l, n) == {d \in ToSet(SearchOrder[l]) : <<d, n>> \in symbols \ Hidden}

\* The end of phase 1: what is left are missing symbols; phase 2 searches afresh.
CompletePhase1(l) ==
  /\ at[l] = "visit" /\ ~ Searching(l)
  /\ End(l, IF cands[l] \subseteq WeaklyRef[l] /\ \A n \in Required(l) : Definers(l, n) # {}
            THEN "found" ELSE "notFound")
  /\ UNCHANGED <<tables, genVars, progress, genState, err>>

-----------------------------------------------------------------------------
\* JITDylib::removeGenerator.
RemoveGenerator(g) ==
  /\ g \in Removable
  /\ \E d \in Dylib : \E i \in DOMAIN gens[d] :
       gens[d][i] = g /\ gens' = [gens EXCEPT ![d] = RemoveAt(@, i)]
  /\ UNCHANGED <<tables, gone, inUse, queue, lookVars>>

\* A thread that runs the generator keeps it alive.
Kept(g) == \/ \E d \in Dylib : g \in ToSet(gens[d])
           \/ \E l \in Lookup : at[l] \in {"generating", "returned"} /\ Top(l) = g

\* Faulty variant: the lookups that wait are dropped with the queue.
NoneTurnedAway(g) == {}

\* The lookups that ~DefinitionGenerator continues with an error.
TurnedAway(g) == ToSet(queue[g])

\* ~DefinitionGenerator.
DestroyGenerator(g) ==
  /\ g \notin gone /\ ~ Kept(g)
  /\ gone' = gone \cup {g}
  /\ inUse' = inUse \ {g}
  /\ queue' = [queue EXCEPT ![g] = <<>>]
  /\ at' = [l \in Lookup |-> IF l \in TurnedAway(g) THEN "visit" ELSE at[l]]
  /\ err' = [l \in Lookup |-> err[l] \/ l \in TurnedAway(g)]
  /\ UNCHANGED <<tables, gens, progress, genState, result>>

\* failSymbols, for a definition that could not be materialized.
FailSymbol(d, n) ==
  /\ <<d, n>> \in symbols \cap Fallible /\ <<d, n>> \notin errors
  /\ errors' = errors \cup {<<d, n>>}
  /\ UNCHANGED <<symbols, genVars, lookVars>>

\* A step of OL_applyQueryPhase1.
Phase1(l) ==
  \/ EnterDylib(l) \/ FilterCandidates(l) \/ FilterAfterGeneration(l)
  \/ FilterFails(l) \/ FailWithError(l)
  \/ GeneratorRemoved(l) \/ WaitForGenerator(l) \/ EnterGenerator(l)
  \/ GenerateInPlace(l) \/ Capture(l) \/ AfterGeneration(l)
  \/ LeaveDylib(l) \/ CompletePhase1(l)

\* Every lookup has ended.
AllDone == (\A l \in Lookup : at[l] = "done") /\ UNCHANGED genVarsAll

GenNext ==
  \/ \E l \in Lookup : StartLookup(l) \/ Phase1(l) \/ ContinueLookup(l) \/ RunTask(l)
  \/ \E g \in Gen : RemoveGenerator(g) \/ DestroyGenerator(g)
  \/ \E d \in Dylib, n \in Name : FailSymbol(d, n)
  \/ AllDone

\* Threads make progress, tasks are run, a generator that took a lookup continues
\* it, and one that nothing keeps alive is destroyed.
GenFairness ==
  /\ \A l \in Lookup :
       /\ WF_genVarsAll(Phase1(l)) /\ WF_genVarsAll(ContinueLookup(l))
       /\ WF_genVarsAll(RunTask(l))
  /\ \A g \in Gen : WF_genVarsAll(DestroyGenerator(g))

GenSpec == GenInit /\ [][GenNext]_genVarsAll /\ GenFairness

-----------------------------------------------------------------------------
\* InUse, PendingLookups and the hand-over by tasks make each generator a lock: one
\* lookup at a time is in it, nobody waits for a free generator, and nobody is
\* passed over while the generator goes to one that came later.
Lock == INSTANCE OrcGenLock WITH
  holder  <- [g \in Gen |-> {l \in Lookup :
               at[l] # "done" /\ genState[l] # "not" /\ Top(l) = g}],
  waiting <- [g \in Gen |-> ToSet(queue[g])]

GeneratorIsLock == Lock!Spec

\* JITDylib d offers n to lookups: it was loaded with it, or has a generator for it.
Offers(d, n) ==
  \/ <<d, n>> \in Loaded \ Hidden
  \/ \E g \in ToSet(gens[d]) : n \in Makes[g]

\* A lookup that reports symbols missing misses one that no JITDylib of its search
\* order offers: "if no existing definition of a symbol is found, then any
\* generators that have been added are run" (JITDylib::addGenerator).
MissingNowhere ==
  \A l \in Lookup : result[l] = "notFound" =>
    \E n \in Required(l) : \A d \in ToSet(SearchOrder[l]) : ~ Offers(d, n)

\* A lookup that has started ends, however it waits for generators, whether they
\* return, take it away, fail or are removed.
EveryLookupEnds == \A l \in Lookup : at[l] = "visit" ~> at[l] = "done"
=============================================================================
