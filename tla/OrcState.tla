------------------------------ MODULE OrcState ------------------------------
(***************************************************************************)
(* The state guarded by the session lock of an ORC ExecutionSession        *)
(* (llvm/ExecutionEngine/Orc/Core.h and Core.cpp): symbol tables,          *)
(* materializing infos, queries, materialization units with their          *)
(* responsibilities, and resource trackers.                                *)
(*                                                                         *)
(* A symbol slot (an element of Sym) is one name in one JITDylib, so the   *)
(* nested maps JITDylib -> name -> entry of the code are functions and     *)
(* sets over Sym.  A unit stands for a MaterializationUnit and, once it is *)
(* dispatched, for the MaterializationResponsibility that inherits its     *)
(* SymbolFlags.                                                            *)
(***************************************************************************)
EXTENDS Naturals, FiniteSets

CONSTANTS
  Sym,             \* symbol slots
  Unit,            \* materialization units and their responsibilities
  Query,           \* asynchronous symbol queries
  Tracker,         \* resource trackers
  DefaultTracker,  \* the default tracker of the JITDylibs
  None             \* no unit, no query

(***************************************************************************)
(* The workload: what clients ask of the session.                          *)
(***************************************************************************)
CONSTANTS
  UnitSyms,        \* the symbols a unit defines when it is created
  UnitWeak,        \* those of them it defines weakly
  UnitTracker,     \* the tracker the unit is added under
  Loaded,          \* the units already added to their JITDylib at the start
  QuerySyms,       \* the symbols a query looks up
  QueryWeak,       \* those of them that are weakly referenced
  QueryState,      \* the state the query requires of its symbols
  LinkQuery,       \* the lookup a unit makes for the symbols its code refers to
  Faulty,          \* units whose materializer may report a failure
  Removable,       \* trackers the client may remove
  Declarable       \* dependence sets clients register explicitly

(***************************************************************************)
(* enum class SymbolState.  A slot with no table entry is Absent (the code *)
(* has SymbolState::Invalid, "no symbol should be in this state").         *)
(***************************************************************************)
Absent        == 0
NeverSearched == 1
Materializing == 2
Resolved      == 3
Emitted       == 4
Ready         == 5
SymbolState   == Absent .. Ready

ASSUME WorkloadAssumption ==
  /\ UnitSyms \in [Unit -> SUBSET Sym]
  /\ UnitWeak \in [Unit -> SUBSET Sym]
  /\ UnitTracker \in [Unit -> Tracker]
  /\ Loaded \subseteq Unit
  /\ QuerySyms \in [Query -> SUBSET Sym]
  /\ QueryWeak \in [Query -> SUBSET Sym]
  /\ QueryState \in [Query -> {Resolved, Emitted, Ready}]
  /\ LinkQuery \in [Unit -> Query \cup {None}]
  /\ Faulty \subseteq Unit
  /\ Removable \subseteq Tracker \ {DefaultTracker}
  /\ Declarable \subseteq SUBSET Sym
  /\ DefaultTracker \in Tracker

ASSUME NoneAssumption == None \notin Unit \cup Query

\* The units already loaded have symbols (define discards an empty one) and no two
\* define the same slot.
ASSUME LoadedAssumption ==
  /\ \A u \in Loaded : UnitSyms[u] # {}
  /\ \A u, v \in Loaded : u # v => UnitSyms[u] \cap UnitSyms[v] = {}

-----------------------------------------------------------------------------
VARIABLES
  \* JITDylib::Symbols and JITDylib::UnmaterializedInfos
  symState,    \* SymbolTableEntry::State, Absent when there is no entry
  hasError,    \* slots whose flags have JITSymbolFlags::HasError
  weak,        \* slots whose table flags are weak
  attached,    \* SymbolTableEntry::MaterializerAttached
  umi,         \* UnmaterializedInfos: the unit that would define the slot
  \* JITDylib::MaterializingInfos
  mi,          \* slots that have a MaterializingInfo
  dependants,  \* MaterializingInfo::Dependants
  unemitted,   \* MaterializingInfo::UnemittedDependencies
  pending,     \* MaterializingInfo::PendingQueries (their order: OrcPending)
  \* AsynchronousSymbolQuery
  qphase,      \* where the lookup that issues the query is
  outstanding, \* symbols counted in OutstandingSymbolsCount
  regs,        \* QueryRegistrations
  due,         \* outcomes some thread still has to hand to NotifyComplete
  answer,      \* what NotifyComplete has been given
  \* MaterializationUnit and MaterializationResponsibility
  phase,       \* where the unit is in its life
  usyms,       \* SymbolFlags of the unit, then of its responsibility
  urt,         \* the tracker of the unit's info or responsibility
  erred,       \* responsibilities whose last notification returned an error
  \* ResourceTracker
  trackerSyms, \* JITDylib::TrackerSymbols, as sets
  relisted,    \* symbols that occur twice in a TrackerSymbols vector
  trackerMRs,  \* JITDylib::TrackerMRs
  defunct,     \* trackers that makeDefunct has marked
  \* the critical section a thread is executing under the session lock
  section,     \* which loop holds the lock, "free" when nobody does
  todo,        \* the worklist of that loop
  doomed,      \* slots JITDylib::removeTracker erases after failing
  newDeps,     \* the dependence map being registered
  \* history
  declared,    \* dependences registered for a slot's present definition
  needs        \* symbols the link of a slot's present definition matched

tableVars   == <<symState, hasError, weak, attached, umi>>
graphVars   == <<mi, dependants, unemitted>>
queryVars   == <<pending, qphase, outstanding, regs, due, answer>>
unitVars    == <<phase, usyms, urt, erred>>
trackerVars == <<trackerSyms, relisted, trackerMRs, defunct>>
lockVars    == <<section, todo, doomed, newDeps>>
historyVars == <<declared, needs>>

vars == <<tableVars, graphVars, queryVars, unitVars, trackerVars, lockVars,
          historyVars>>

QueryPhases == {"idle", "matched", "unwinding", "issued"}
Outcomes    == {"success", "failure"}
Answers     == {"none", "success", "failure", "twice"}
UnitPhases  == {"new", "defined", "outstanding", "running", "done", "lost"}
Sections    == {"free", "deps", "emit", "fail", "untrack", "aborted"}

\* The types of the variables: the fields of the classes named above.
TableType ==
  /\ symState \in [Sym -> SymbolState]
  /\ hasError \in SUBSET Sym
  /\ weak \in SUBSET Sym
  /\ attached \in SUBSET Sym
  /\ umi \in [Sym -> Unit \cup {None}]
GraphType ==
  /\ mi \in SUBSET Sym
  /\ dependants \in [Sym -> SUBSET Sym]
  /\ unemitted \in [Sym -> SUBSET Sym]
QueryType ==
  /\ pending \in [Sym -> SUBSET Query]
  /\ qphase \in [Query -> QueryPhases]
  /\ outstanding \in [Query -> SUBSET Sym]
  /\ regs \in [Query -> SUBSET Sym]
  /\ due \in [Query -> SUBSET Outcomes]
  /\ answer \in [Query -> Answers]
UnitType ==
  /\ phase \in [Unit -> UnitPhases]
  /\ usyms \in [Unit -> SUBSET Sym]
  /\ urt \in [Unit -> Tracker]
  /\ erred \in SUBSET Unit
TrackerType ==
  /\ trackerSyms \in [Tracker -> SUBSET Sym]
  /\ relisted \in [Tracker -> SUBSET Sym]
  /\ trackerMRs \in [Tracker -> SUBSET Unit]
  /\ defunct \in SUBSET Tracker
LockType ==
  /\ section \in Sections
  /\ todo \in SUBSET Sym
  /\ doomed \in SUBSET Sym
  /\ newDeps \in SUBSET Sym
HistoryType ==
  /\ declared \in [Sym -> SUBSET Sym]
  /\ needs \in [Sym -> SUBSET Sym]

TypeOK ==
  /\ TableType /\ GraphType /\ QueryType /\ UnitType /\ TrackerType /\ LockType
  /\ HistoryType

-----------------------------------------------------------------------------
\* The session lock is free: a public entry point may take it.
Unlocked == section = "free"

\* The slots with a symbol table entry.
Present == {s \in Sym : symState[s] # Absent}

\* The unit already loaded that defines s, if there is one.
LoaderOf(s) ==
  IF \E u \in Loaded : s \in UnitSyms[u]
  THEN CHOOSE u \in Loaded : s \in UnitSyms[u]
  ELSE None

\* A session whose JITDylibs already hold the Loaded units, as JITDylib::define
\* leaves them, and in which nothing has been looked up.
Init ==
  /\ symState = [s \in Sym |-> IF LoaderOf(s) = None THEN Absent ELSE NeverSearched]
  /\ hasError = {}
  /\ weak = UNION {UnitWeak[u] \cap UnitSyms[u] : u \in Loaded}
  /\ attached = UNION {UnitSyms[u] : u \in Loaded}
  /\ umi = [s \in Sym |-> LoaderOf(s)]
  /\ mi = {}
  /\ dependants = [s \in Sym |-> {}]
  /\ unemitted = [s \in Sym |-> {}]
  /\ pending = [s \in Sym |-> {}]
  /\ qphase = [q \in Query |-> "idle"]
  /\ outstanding = [q \in Query |-> QuerySyms[q]]
  /\ regs = [q \in Query |-> {}]
  /\ due = [q \in Query |-> {}]
  /\ answer = [q \in Query |-> "none"]
  /\ phase = [u \in Unit |-> IF u \in Loaded THEN "defined" ELSE "new"]
  /\ usyms = UnitSyms
  /\ urt = UnitTracker
  /\ erred = {}
  /\ trackerSyms = [t \in Tracker |->
       IF t = DefaultTracker THEN {}
       ELSE UNION {UnitSyms[u] : u \in {v \in Loaded : UnitTracker[v] = t}}]
  /\ relisted = [t \in Tracker |-> {}]
  /\ trackerMRs = [t \in Tracker |-> {}]
  /\ defunct = {}
  /\ section = "free"
  /\ todo = {}
  /\ doomed = {}
  /\ newDeps = {}
  /\ declared = [s \in Sym |-> {}]
  /\ needs = [s \in Sym |-> {}]
=============================================================================
