# The concurrent core of ORC: a TLA+ verification project

The repository is LLVM 18.1.8 with a calling convention for Standard ML of New Jersey
(`README.md`), plus the SML/NJ code generator (`smlnj/`). Almost all of it is a sequential
compiler. The part whose correctness depends on interleavings, failure and ordering is the
ORC just-in-time compiler in `llvm/lib/ExecutionEngine/Orc`, and this project models three
parts of it:

* the **session**: a database of symbols shared by clients that define, look up, transfer and
  remove symbols and by threads that compile them;
* the **definition generators** that a lookup calls for names nobody has defined;
* the **remote executor protocol** between the JIT and the process that runs its code.

Below, `Core.cpp` and `Core.h` are `llvm/lib/ExecutionEngine/Orc/Core.cpp` and
`llvm/include/llvm/ExecutionEngine/Orc/Core.h`.

## 1. Inventory

### The components

| Component | State | Operations |
|---|---|---|
| Symbol table (`JITDylib::Symbols`, `UnmaterializedInfos`) | per symbol: state, flags (weak, error), "materializer attached"; the unit that would define it | `define`, `remove`, `clear`, phase 2 of a lookup, `resolve`, `emit`, `failSymbols` |
| Dependence graph (`MaterializingInfos`) | per symbol: dependants, unemitted dependences, pending queries | `addDependencies`, `emit`, `failSymbols`, `transferEmittedNodeDependencies` |
| Queries (`AsynchronousSymbolQuery`) | required state, count of outstanding symbols, registrations, the callback | `lookup`, `notifySymbolMetRequiredState`, `detach`, `handleComplete`, `handleFailed` |
| Materialization units and responsibilities | the symbols they cover, their tracker | `materialize`, `notifyResolved`, `notifyEmitted`, `failMaterialization`, `addDependencies`, `replace`, `delegate`, `defineMaterializing`, `getRequestedSymbols`, destruction |
| Resource trackers | symbols and responsibilities tracked, defunct flag | `remove`, `transferTo`, destruction |
| Outstanding units (`OutstandingMUs`) | units to dispatch, under a mutex of their own | pushed by phase 2 and `replace`, drained by `dispatchOutstandingMUs` |
| Definition generators (`DefinitionGenerator`) | `InUse`, `PendingLookups`; per lookup the search position, the candidates and the stack of generators (`InProgressLookupState`) | `OL_applyQueryPhase1`, `tryToGenerate`, `continueLookup`, `OL_resumeLookupAfterGeneration`, `addGenerator`, `removeGenerator`, destruction |
| Remote executor (`SimpleRemoteEPC`, `SimpleRemoteEPCServer`, `FDSimpleRemoteEPCTransport`) | per side: pending results by sequence number, the transport's `Disconnected` flag, the listener thread; the messages in the pipes | `callWrapperAsync`, `doJITDispatch`, `handleMessage`, `listenLoop`, `handleDisconnect`, `disconnect` |
| Task dispatch (`DynamicThreadPoolTaskDispatcher`) | outstanding tasks, `Running` | `dispatch`, `shutdown` |
| Re-exports, lazy re-exports, indirection, speculation | aliases, trampolines, stubs | clients of `define` and `lookup` |
| Linking layers, platforms, LLJIT | objects, initializers | clients of the responsibilities |
| Memory mapping | reservations, allocations | reserve, initialize, release |

All public operations of the session take its recursive lock (`runSessionLocked`); the callbacks
of queries, the materializers, the generators and the dispatch of units run outside it. A lookup
takes the lock at least twice: phase 1 checks that the symbols exist and may call generators,
phase 2 searches again, registers the query, takes the units that define the symbols, registers
the dependences of the unit that asked and puts the units on the outstanding list. A unit that is
dispatched holds a responsibility for its symbols and moves them through
`NeverSearched, Materializing, Resolved, Emitted, Ready`, or to the error state.

A generator runs outside every lock but for one lookup at a time: `InUse` and `PendingLookups`,
under a mutex of its own, make it a lock that is handed over by a task. The remote executor is
reached by messages; each side has one listener thread that answers requests and results, and
the threads that make requests race with the listener's end.

### What is hard

* *Readiness.* A symbol is ready when it and everything it refers to, transitively and
  through cycles, has been emitted. The session keeps no transitive closure: each emission
  hands the emitted symbol's remaining dependences to its dependants.
* *Failure.* An emitted symbol has no responsibility any more; when something it waits for
  fails, `failSymbols` has to fail its queries, and those of whatever waits for it.
* *Two phases of a lookup.* Between them the tables may change in any way.
* *Removal and transfer.* A tracker may be removed or merged into another one while its units
  are compiled, linked, split or emitted.
* *Weak definitions.* A strong definition takes symbols over from a unit that waits.
* *Splitting.* A materializer asks what is wanted, releases the lock, and then returns what was
  not: queries arrive in between.
* *Partial failure.* A lookup that fails in phase 2 has already taken units.
* *Suspended lookups.* A lookup that waits for a generator depends on whoever has it: a lookup
  that returns, fails, is captured by the generator, or loses the generator under its feet.
* *Disconnection.* A request's result, the failure to send it, the closing of either transport
  and the executor's death may come in any order; each request has one handler to call.

What makes each part correct: the two records of the dependence graph agree; ready means
ready with everything that was registered; every symbol under way is in exactly one pair of
hands; every query is answered, once, and not early; a definition has one owner; trackers know
what they track; a generator serves one lookup at a time and every lookup gets its turn; every
request is answered once, and by its own result. `PROJECT.json` lists the hazards with their
lines.

### The rest of the repository

Not modelled, by component, with reasons, in `PROJECT.json`: the linking layers, platforms
and LLJIT (format-specific clients of the session), JITLink and RuntimeDyld (sequential data
transformation), support libraries with concurrency of their own (`ThreadPool.cpp`,
`Parallel.cpp`, `LockFileManager.cpp`, `Caching.cpp`, `MemoryMapper.cpp`: candidates for
separate modules), the machine code analyzer (a sequential simulator), the SML/NJ code generator
(a one-pass translator) and LLVM's IR, passes and targets. The repository has some three million
lines, of which ORC is about one percent.

## 2. Modules

| Module | Models |
|---|---|
| `OrcState` | constants (the workload) with their assumptions, the variables, the types, the initial states |
| `OrcMaterialize` | what a responsibility does: `notifyResolved`, `addDependencies`, `notifyEmitted`, `failMaterialization`, destruction; the queries' bookkeeping |
| `OrcLookup` | both phases of `lookup`, dispatch of units, callbacks |
| `OrcTracker` | `define` and `ResourceTracker::remove` |
| `OrcSession` | `Next`, `Spec`, the fairness, `FairSpec` of the session without splitting and transfer |
| `OrcPending` | `PendingQueries` as the sorted vector it is: `addQuery`, `removeQuery`, `takeQueriesMeeting` |
| `OrcReadiness` | the abstract specification of readiness: ready is the transitive closure of emitted |
| `OrcProps` | the properties of the session, and the refinement mapping to `OrcReadiness` |
| `OrcSplit` | `getRequestedSymbols`, `replace`, `delegate`, `defineMaterializing` |
| `OrcTransfer` | `transferTo`, removal of the default tracker, `JITDylib::remove` |
| `OrcFull` | the session with both: `FullSpec`, `FullFairSpec` |
| `OrcGenLock` | the abstract specification of a generator: a lock with a set of waiters |
| `OrcGenerators` | phase 1 of lookups over a search order with generators; the mapping to `OrcGenLock` |
| `OrcRemoteCall` | the abstract specification of a connection: one answer per request |
| `OrcRemote` | JIT and executor, the messages between them; the mapping to `OrcRemoteCall` |
| `MCGraph`, `MCDefine`, `MCLink`, `MCTracker`, `MCRemove`, `MCRace`, `MCSplit`, `MCGen`, `MCRemote` | instances for TLC |
| `OrcProofs` | type correctness of `Spec` and `FullSpec` |
| `OrcGraphProofs`, `OrcShapeProofs`, `OrcQueryProofs`, `OrcTableProofs` | the proved invariants of the session's tables: graph, queries, symbols, trackers; each first for `Spec`, then for `FullSpec` |
| `OrcSessionProofs` | what follows from them about answers, ownership, progress and readiness; the proof that the session implements `OrcReadiness`; ownership in the session with splitting and transfer |
| `OrcGenProofs` | the invariant of the generators, and the proof that they implement `OrcGenLock` |
| `OrcRemoteProofs` | the invariant of the remote executor, and the proof that it implements `OrcRemoteCall` |

`OrcSession`, `OrcGenerators` and `OrcRemote` are three separate models. The session is composed
of `OrcMaterialize`, `OrcLookup` and `OrcTracker`, and `OrcFull` adds `OrcSplit` and `OrcTransfer`
to it. `OrcGenerators` replaces the session's one-step phase 1 by the loop of
`OL_applyQueryPhase1`, and keeps only the symbol tables of the session; `OrcRemote` is below the
session and shares no state with it.

### The session

A *slot* (element of `Sym`) is one name in one JITDylib, so the nested maps from JITDylibs to
names become functions on slots. A *unit* is a materialization unit and, once it is dispatched,
the responsibility that inherits its symbols; `phase` says where it is: `new`, `defined`,
`outstanding`, `running`, `done`, or `lost` when it was destroyed without running.

| Variables | Code |
|---|---|
| `symState`, `hasError`, `weak`, `attached` | `SymbolTableEntry` (`Absent`: no entry) |
| `umi` | `UnmaterializedInfos` |
| `mi`, `dependants`, `unemitted`, `pending` | `MaterializingInfos` and their fields |
| `qphase` | the in-progress lookup state |
| `outstanding`, `regs`, `due`, `answer` | `OutstandingSymbolsCount` (as the set counted), `QueryRegistrations`, outcomes on their way to the callback, what the callback got |
| `usyms`, `urt`, `erred` | `SymbolFlags` and `RT` of the unit or responsibility; the responsibility's last notification failed |
| `trackerSyms`, `relisted`, `trackerMRs`, `defunct` | `TrackerSymbols` (a set, and what occurs twice), `TrackerMRs`, the defunct bit |
| `section`, `todo`, `doomed`, `newDeps` | the loop that holds the session lock and its locals |
| `declared`, `needs` | history: dependences registered for a definition; symbols its link matched |
| `asked` (`OrcSplit`) | what `getRequestedSymbols` returned to the materializer, a copy that grows stale |
| `adrift` (`OrcSplit`) | responsibilities whose `RT` was moved into an error |
| `dropped` (`OrcTransfer`) | `JITDylib::DefaultTracker` has been reset |

The loops of `addDependencies`, `emit` and `failSymbols` are one action per iteration while
`section` holds the lock, so no other action interleaves and the iteration order is free, as it
is in the hash maps of the code. Everything else under one acquisition of the lock is one
action. The outcome of a query is put into `due` inside the lock and handed over by
`NotifyComplete` outside it. An assertion that may fail is an action that ends in the section
`aborted`; what a build without assertions would do next is not modelled.

The units and responsibilities that splitting creates are taken from `Spare`; `Splitter` says
whose materializers split, `ClaimSyms` what a materializer may claim with `defineMaterializing`.
`Transferable`, `DefaultRemovable` and `Undefinable` say what clients do in `OrcTransfer`.

`usyms` and `umi` need not agree. `define` and `JITDylib::remove` take a symbol away from the one unit
its `UnmaterializedInfo` refers to (`Discarded`), and the removal of a tracker erases infos without
telling their units. A unit that lost a symbol to the removal of another tracker therefore goes on
listing it, also when the symbol has been defined anew. Starting that unit moves and detaches
everything it lists, the new definition included (`Started`, `Lodge`), and a phase 2 that fails puts
it back for all of that (`PutBack`). The matching loop visits the symbols of a lookup in the order of
its set; `Matching` says what it may come to in any order, as a unit started at one symbol may list
another one that is visited later.

Abstractions:

* A search visits each slot of a query once, so phase 1 over several JITDylibs is one step, and
  visibility and generators are left to `OrcGenerators`.
* Addresses and flags other than weak and error are dropped: no symbol is common, initializer
  or "materialization side effects only". Two assertions look at addresses; where one would fail
  (`Core.cpp:989`, `2779`) and the state of the symbol does not give it away, the model goes on as a
  build without assertions does.
* `pending` is a set for each symbol. The code keeps a vector that is descending in the required state only
  because every insertion keeps it so, and `takeQueriesMeeting` stops at the first query from the back that
  requires more. `OrcPending` has the vector's operations, and `ListsServe` compares them with those on the
  set for every order in which the queries that wait may have come. Popping and detaching leave the vector that
  would be there had the others never come, so that this covers every history of a list.
* `OutstandingMUs` is a set: units are dispatched in any order, not last in first out.
* `SymbolFlags` of a responsibility is cleared when `notifyEmitted` starts its loop; only the
  caller's thread reads it.
* A query detached outside the lock (`Core.cpp:2909`) is detached in one step.
* JITDylibs stay open and have no platform; there are no resource managers. After its default
  tracker was removed a JITDylib gets no new definition under it (the code would create another).
* A unit makes at most one lookup, `LinkQuery`, before it emits.
* The destination of a transfer is not defunct: nothing in the code looks at it, and it is the
  client's obligation.

### Generators

| Variables | Code |
|---|---|
| `symbols`, `errors` | the entries of the JITDylibs' tables, and those with the error flag |
| `gens`, `gone` | `JITDylib::DefGenerators`; generators whose destructor has run |
| `inUse`, `queue` | `DefinitionGenerator::InUse`, `PendingLookups` |
| `index`, `entering` | `CurSearchOrderIndex`, `NewJITDylib` |
| `cands`, `nonCands`, `stack`, `genState` | `DefGeneratorCandidates`, `DefGeneratorNonCandidates`, `CurDefGeneratorStack`, `GenState` |
| `at`, `err`, `result` | where the lookup's thread is in `OL_applyQueryPhase1`, the error it carries, what it came to |

Every section under the session lock or a generator's mutex is an action; a generator's own work
is the action `Generate`, in place or after it has taken the `LookupState` (`Capture`,
`ContinueLookup`). A generator defines the candidates it can make, or returns an error: of its own
(`Erring`) or because a definition was there already. `FailSymbol` stands for the failure of a
materialization in the session.

Abstractions: all lookups match exported symbols only and no symbol is
"materialization side effects only"; generators are added before the first lookup and only
removed afterwards; `CompletePhase1` looks the names up in the tables instead of running phase 2,
which `OrcLookup` models.

### Remote executor

| Variables | Code |
|---|---|
| `pending`, `nextSeqNo` | `PendingCallWrapperResults` of the JIT, `PendingJITDispatchResults` of the server; `NextSeqNo` |
| `down`, `input` | the transport's `Disconnected`; the bytes in the two pipes, as messages |
| `listener` | `listenLoop`: reading, ended, calling the handlers of `TmpPending`, done; for the server also `RunState` |
| `failing` | `TmpPending` |
| `pc`, `work`, `task` | the thread that makes a request (or that was refused because the server shuts down), the wrapper function or dispatch handler that runs for it, the task that handles its answer (`RunAsTask`) |
| `answers` | the results a handler was called with |
| `closing` | how far `SimpleRemoteEPC::disconnect` has come |
| `dead` | the executor process has died |

A request is made by a client of the JIT or by the work for another request (`Parent`), so that
calls nest across the connection. A section under a side's mutex is one action together with the
call of the handlers it took out of the table; sending is an action of its own.

Abstractions: the hangup message is not modelled, since nothing here sends it; messages are
neither malformed nor cut short; the process's end closes its pipes (`Die`); the setup message is
the answer to a request number 0, as in the code. A read that is blocked when its own side closes
the pipe may return with an error (`ReadFails`) or never.

## 3. What the runs check

| Run | Instance | Shows |
|---|---|---|
| `MCGraph` | 3 symbols in 3 units, one of which may fail; any single dependence or one on all three may be declared, repeatedly; queries for *ready* and for *resolved* | `ReadinessIsClosure` (refinement of `OrcReadiness`), `DepsMirrored`, `GraphShape`, `NoLateQuery`, `CompletionMeansReached` |
| `MCDefine` | 4 units that define 3 symbols weakly and strongly; two of them look each other up while they are linked; 4 queries, for one symbol or two, one with a weak reference; a unit may fail, so that a lookup meets an error after it has started a unit of two symbols and puts it back | `OneOwner`, `AttachedHasUnit`, `StatesAdvance`, `AnsweredOnce`, `NoStrandedQuery`, `NoStrandedSymbol`, `EveryLookupAnswered` |
| `MCTracker` | a unit under a removable tracker that may be transferred to a second one and from there to the default one, a unit that links against it, a third that defines its symbol anew; the linked symbol may be removed by name | `TypeOK`, `HeldOnce`, `NoStrandedQuery`, `TrackedByUnit`, `ResponsibilitiesTracked`, `ReadinessIsClosure`, `EveryLookupAnswered` |
| `MCRemove` | 2 symbols, 4 units that override each other, one of which looks up the other symbol while it is linked; both trackers may be removed at any time; 3 queries, which ask one symbol for three states | `NoForgottenQuery`, `ListsServe`, `EmittedSettles` |
| `MCSplit` | a unit of 2 symbols that returns or delegates one of them while both are looked up, and claims a third symbol, weakly or strongly, which another unit may define before or after | `NoStrandedQuery`, `HeldOnce`, `WaitsForOwned`, `EveryLookupAnswered`, `ReadinessIsClosure` |
| `MCRace` | the symbols, units and trackers of `MCRemove` with splitting: one unit splits, all 3 trackers, the default one included, may be removed at any time; 3 queries, one of them a linking unit's | `GraphInv`, `RegistrationsMirrored`, `ReadinessIsClosure` |
| `MCGen` | 3 lookups in two search orders over 2 JITDylibs with a generator each; one generator captures lookups, the other may return errors and be removed; a hidden symbol; a made symbol may fail | `GenTypeOK`, `MissingNowhere`, `GeneratorIsLock` (refinement of `OrcGenLock`), `EveryLookupEnds` |
| `MCRemote` | the setup message, a call whose work dispatches to the JIT, whose handler calls the executor again, and a call beside them; either side closes, the executor dies | `RemTypeOK`, `AnsweredOnce`, `ResultsExpected`, `RequestsAreCalls` (refinement of `OrcRemoteCall`), `EveryRequestAnswered`, `BothSidesClose` |

What the main properties say. `ReadinessIsClosure`: symbols become ready exactly as in a specification
that computes the transitive closure of the declared dependences. `HeldOnce`: a symbol that is under way
is in the hands of exactly one waiting unit or responsibility, however work is split, transferred and
removed. `WaitsForOwned`: nothing that has not failed waits for a symbol that `replace` made lazy again.
`NoForgottenQuery`: a query that waits is on a pending list or has an outcome on its way. `ListsServe`:
in whatever order queries come and go, a sorted list that is popped from its back loses exactly those
that the new state satisfies. `GeneratorIsLock`: a generator serves one lookup at a time, nobody waits
for a free one, and nobody who waits is passed over by one that came later and finds it free.
`MissingNowhere`: a lookup reports symbols missing only if one of them is offered by no JITDylib of its
search order, neither as a definition nor by a generator. `RequestsAreCalls`: whatever the threads and
messages do, a request goes from made to run to answered by its own result, or to an error, and the
latter only once the connection is lost. `ResultsExpected`: the answer that arrives finds its request in
the table, so that "No call for sequence number" never ends a session.

The bounds. Three symbols are enough for a cycle with a tail, for a dependence taken over
through an emitted symbol and for a failure that passes through an emitted dependant. Two
queries with different required states, on overlapping symbols, are enough for a query to complete
or fail through two symbols at once. The order of a pending list needs as many as there are
states to require: in `MCRemove` three queries, one for each state, meet on one symbol. Two
units that reference each other are the smallest cycle of lookups. One removable tracker next
to a live one separates what a removal may touch from what it may not; two allow a transfer of
what was transferred. One spare unit is one split, after which both parts go on independently.
Three lookups are one in a generator and two that wait for it, so that the hand-over has a choice
and an arrival may overtake; two search orders in opposite directions are the smallest in which
lookups could wait for each other. Requests nested three deep, twice from the JIT and once from
the executor, are the smallest in which both sides wait while both are asked.
There are no other bounds: the workloads are finite, and every run is exhaustive; the counter
`nextSeqNo` is bounded by the number of requests. Model values are not declared symmetric,
because the workloads distinguish them.

`MCRemove` and `MCRace` turn deadlock checking off: there the session can really stop with work undone
(see the disagreements below). So does `MCRemote`, whose two sides end, and so do the three violation
runs that show something left undone. The other passing runs check deadlock; `AtRest` and `AllDone` are
the stuttering of a system in which nothing is under way, or which an assertion ended.

Operators commented as *faulty variant* are single mistakes (a transfer forgotten, a test made
too early) that stand next to the definition they corrupt; each property has been seen to fail
under one of them, which is how the instances were judged large enough.

### Disagreements between the code and what is said of it

1. **`MCLinkRegistered` violates `ReadyIsSafe`.** Phase 2 registers a query only on symbols
   that are not yet in the required state (`Core.cpp:2767-2772`), and dependences are registered
   from these registrations (`Core.cpp:2898-2900`). A linker that looks up externals in state
   *resolved* therefore records no dependence on one that is resolved and not ready: its own
   symbols become ready before that one is emitted. `Core.h:834`: "Ready and safe for clients to
   access."
2. **`MCRaceStranded` violates `NoStrandedSymbol`.** A required symbol disappears between the
   phases; the lookup fails (`Core.cpp:2862-2866`) and destroys the units it had collected for
   the others, whose symbols stay in state *materializing* for ever. `Core.h:1752-1753`: "If this
   method fails then all MaterializationUnits will be left un-materialized."
3. **`MCGenStuck` violates `EveryLookupEnds`.** A lookup that waited for a generator is resumed
   and owns it. If one of its candidates is in the error state by then, it fails at once
   (`Core.cpp:2554-2557`) without the hand-over that the neighbouring case does
   (`Core.cpp:2546-2551`): the generator stays in use and those who wait for it wait for ever.
   `MCGen` checks the same system with a failing symbol that only one lookup looks for.
4. **`MCRemoteTasks` violates `NoTaskOutlivesDisconnect`.** `SimpleRemoteEPC::disconnect` shuts the
   dispatcher down (`SimpleRemoteEPC.cpp:112`) before `handleDisconnect` answers what is pending;
   an answer that is handled by a task is dispatched to a dispatcher that has finished waiting.
   `TaskDispatch.h:102`: "Waits until all tasks have completed."

Met while modelling, read off the code and without a run of their own:

* `Core.cpp:1021` says "Resolved symbols can not be weak: discard the weak flag."; the flags
  stored are the definition's, weak included.
* A tracker is removed while a lookup of one of its units is between its phases; lodging the
  lookup registers dependences for symbols that are no longer in the table, which fails an
  assertion (`Core.cpp:880`). `getRequestedSymbols` asserts alike (`Core.cpp:859`).
* A query of a lookup that failed as in 2 is still registered when the lock is released; with
  removals, whoever fails or completes one of its symbols first answers it a second time
  (`Core.cpp:2907-2910`). `AnsweredOnce` is therefore checked where trackers are not removed.
* A strong definition takes a symbol over from a unit of another tracker and leaves it in that tracker's
  list; removing that tracker erases the new definition, while the unit that made it, under a
  tracker of its own, goes on listing the symbol (`Core.cpp:1614`: "FIXME: Should this discard the symbols?").
  A lookup that starts this unit through another of its symbols fails an assertion (`Core.cpp:2796`,
  "No entry for symbol covered by MaterializationUnit"; `MCRace` takes the action that stands for it). If
  the symbol was defined anew before, the unit takes the new definition along, and a phase 2 that fails may put
  the unit back for a symbol that a query is pending on.
* `replace` and `delegate` under a defunct tracker move the responsibility's tracker pointer into
  the error (`Core.cpp:770`, `846`); what the materializer does next reads a null pointer.
* `defineMaterializing` does not list its symbols under the tracker (`Core.cpp:744`), a transfer
  from the default tracker replaces the destination's list instead of extending it
  (`Core.cpp:1685`; `Core.h:83`: "Transfer all resources"), and `JITDylib::remove` leaves its symbols
  in the lists, where a later removal meets them (`Core.cpp:1444`, `1597`).
* A unit defined under a tracker that is already defunct is dispatched and cannot fail its
  symbols (`Core.cpp:3088`): queries for them are never answered.
* A definition that the platform refuses has entered its symbols already (`Core.h:1919`).
* Names found hidden in a JITDylib without generators are dropped from the candidates instead of
  kept for the next JITDylib (`Core.cpp:2539`), so that generators further on are not asked for
  them. `MissingNowhere` holds in `MCGen` because the JITDylib with the hidden symbol has one.
* `CurDefGeneratorStack` keeps what is left of it when a JITDylib is left with no candidates but
  names set aside; a generator is then run for a JITDylib it does not belong to. The model does
  the same.

### Fairness

All three specifications assume weak fairness only.

*Session* (`FairSpec`; `FullFairSpec` states the same in the larger state). A loop under the lock
ends. A lookup that has begun reaches phase 2 and its end, and a running unit makes the lookup it
needs. An outstanding unit is dispatched and its task runs: the thread that lodged the lookup
drains the list itself (`Core.cpp:2919`). A materializer resolves, emits once its lookup has
succeeded, and fails when a notification or its lookup reported an error, as `Core.h:580-581` and
`592-593` ask; it is never assumed to fail otherwise, to split or to claim. The callback of a query
is called by the thread that completed it. Clients need not define, look up, declare dependences,
transfer or remove anything. Nothing needs strong fairness: an action of a thread that waits for
the lock is disabled only while another thread is in a loop that ends. A mutex gives no waiting
thread a guarantee of its own, but a finite workload has finitely many critical sections, so that
the lock is eventually left to those who still want it.

*Generators* (`GenFairness`). A thread in `OL_applyQueryPhase1` goes on, a generator returns or
continues the lookup it took, as its contract asks, a dispatched `LookupTask` runs, and a
generator that nothing holds a reference to is destroyed. Nobody has to start a lookup or remove a
generator, and no symbol has to fail.

*Remote executor* (`RemFairness`). Listener threads read what has arrived, notice the end of their
input and finish; what was begun for a request ends once the requests it waits for are
answered; `disconnect` goes on. There is no fairness for making requests, for dying, for calling
`disconnect`, nor for `ReadFails`: a thread blocked in `read` need not notice that its own process
closed the descriptor, so that a side's closing must not depend on it.

## 4. What is proved

TLAPS proves the following for all values of the constants.

*Session*: of `Spec` in `OrcSession`, from the two named assumptions that type the workload
(`WorkloadAssumption`, `NoneAssumption`) and `LoadedAssumption` (a unit loaded at the start has symbols,
as `define` discards an empty one (`Core.h:1847`), and no two of them define the same slot).

| Theorem | Statement | Argument |
|---|---|---|
| `TypeCorrect` | `Spec => []TypeOK` | one lemma per group of actions; `Frame` lemmas for groups of variables |
| `GraphCorrect`, `RecordsMirrored` | `GraphInv`, `DepsMirrored` | `DepsMirrored` alone is not inductive: `emit` clears the dependants of what becomes ready, which keeps the mirror only because nothing waits for an emitted symbol (`WaitsForUnemitted`), no symbol waits for itself (`NoSelfWait`) and symbols without an info are outside the graph (`InfoOfNodes`) |
| `QueriesCorrect`, `QueryRecordsMirrored` | `QueryInv`, `RegistrationsMirrored` | needs that a lookup registers nothing before phase 2 (`UnlodgedUnregistered`) |
| `TableCorrect`, `MaterializerAttached` | `TableInv`, `AttachedHasUnit` | with the conditions the loops rely on: only resolved symbols are emitted, dependences are on symbols in motion, an attached symbol was never resolved |
| `ResponsibilitiesCorrect` | `ResponsibilitiesTracked` | inductive by itself, with the types |
| `ShapeCorrect`, `GraphShapeCorrect` | `ShapeInv`, `GraphShape` | on top of all the former: an emitted symbol leaves the graph by becoming ready or by failing, and a removal erases nothing that is still in the graph |
| `ForgottenCorrect` | `NoForgottenQuery` | inductive with the types: whatever empties the set a query waits for puts it on its way to an answer |

The theorems of `OrcSessionProofs` are about the same `Spec`, and stand on all of the above. Most of
them do not hold for every workload and every behaviour, because the code does not do what they
say in every one; each therefore states the weakest hypothesis under which it is proved. Those on
the workload are formulas on constants:

* `QueriesSkipEmitted`: lookups ask for *resolved* or *ready*, not for *emitted*. `emit` tells the
  queries of a symbol when it becomes ready (`Core.cpp:1168`, `1185`), so that one that asks for
  *emitted* is told late. No client in the repository asks for it.
* `OverridesApart(X)`: no unit defines strongly what a unit of another tracker, one of `X`, defines
  weakly. Where one does, the override leaves the name in the list of the old tracker, and removing that
  tracker erases the new definition (`Core.cpp:1606-1623`) and leaves a waiting unit that lists it.
  Other definitions of one name under two trackers are allowed: the second is refused or discarded, or
  made after the first was removed. `X` is `Removable`, or `Listing`, all trackers that have a list (the
  default one has none).
* `DefinedOnce`: a unit of a removable tracker shares no symbol with any other. Otherwise a symbol that
  was reported can be removed, defined anew and be back in an early state while the lookup still waits
  for others.
* `Removable = {}`: no tracker is removed.

Two on the behaviour exclude what sections 1 and 3 describe:

* `[]NoneUnwinding`: no lookup loses a required symbol between its phases. This is the
  second disagreement, which `MCRaceStranded` shows.
* `[]NoneLate`: no unit is defined under a removed tracker (`Core.cpp:3088`).

| Theorem | Statement | Hypotheses | Argument |
|---|---|---|---|
| `LateCorrect` | `NoLateQuery` | `QueriesSkipEmitted`, `OverridesApart(Removable)` | `LateInv`: also inside the loops, and nothing is pending on a symbol whose materializer has not been started; a failing phase 2 puts back only what it started, which needs `OwnInv`, that a waiting unit lists nothing that is another's |
| `OnceCorrect` | `AnsweredOnce` | `[]NoneUnwinding` | `AnswerInv`: being registered, having an outcome under way and having an answer exclude each other |
| `OwnersCorrect` | `OneOwner` | `OverridesApart(Removable)` | `OwnInv`, below |
| `AdvanceCorrect` | `StatesAdvance` | `OverridesApart(Removable)` | one step from `OwnInv`: only a symbol no responsibility holds is emitted, or entered anew |
| `AssertionsHold` | the assertions of `resolve` and `emit` on the table's entries, and of the matching loop on the units, never fail | `OverridesApart(Removable)` | from `OwnInv`, as they speak of symbols a responsibility holds |
| `TrackedCorrect` | `TrackedByUnit` | `OverridesApart(Listing)` | from `TrackInv(Listing)` |
| `SymbolsCorrect` | `NoStrandedSymbol` | `OverridesApart(Removable)`, `[]NoneUnwinding`, `[]NoneLate` | `StrandInv` |
| `WaitersCorrect` | `NoStrandedQuery` | as before | from `StrandInv`, `StartedInv` and `ShapeInv`: what is waited for is in the graph or held |
| `UndisturbedSafe` | `NoStrandedSymbol`, `NoStrandedQuery`, `AnsweredOnce` | `Removable = {}` | `UndisturbedInv` discharges both conditions on the behaviour: without removals phase 2 finds what phase 1 found |
| `CompletionCorrect` | `CompletionMeansReached` | `DefinedOnce` | `ReachedInv` |
| `ReadinessCorrect` | `ReadinessIsClosure` | `Removable = {}` | `MovingInv`, `WaitsSound`, `WaitsComplete`, below |

The inductive invariants, and why the properties need them:

* `ListInv`: a unit keeps the tracker it was added under and gains no symbol, and a tracker lists only
  what its units define (`Spec` has no splitting or transfer). `TrackInv(X)` says more, and does not
  rest on it: what a waiting unit or a live responsibility covers is on its tracker's list, the
  lists of `X` are of symbols in the table and have none in common, what is kept under another tracker is
  on none of them, and what a removal is about to erase is the removed tracker's. It is what
  separates a removal from everybody else's symbols. It needs `WeakInv`, that a symbol which may
  be overridden is a weak definition of its unit; else the hypothesis on the workload would say
  nothing of the override.
* `OwnInv`: a defined unit's symbols are attached; a responsibility's are materializing or
  resolved and detached; none is held twice; what `emit` is about to emit is held by none.
  `OneOwner` is not inductive without the first two: dispatching a unit would give a symbol a
  second holder if it could be attached and held at once.
* `StrandInv`: a symbol under way is attached, or held by a live responsibility, or failed and out
  of the graph, or about to be emitted, failed or erased by the loop that has the lock. When a
  tracker is removed, `TrackInv` says that what its responsibilities cover is about to be erased.
  `NoStrandedQuery` also needs `StartedInv`: nobody waits for a symbol whose materializer is
  not started.
* `ReachedInv`: what a lodged query has ceased to wait for has reached its state or is gone. It
  needs `OutstandingInv` (a query that is not lodged yet waits for everything; one that lost a
  symbol waits for one that nothing will report) and `NewUnlisted` (what is still to be defined is
  neither listed by its tracker nor being erased).
* `MovingInv`: the responsibility a query's failure would reach is running, dependences are
  registered for symbols in motion only, and a symbol with an error that is emitted is about to be
  failed. `WaitsSound`: whatever set is closed under the declared dependences is closed under
  `UnemittedDependencies`, so that nothing waits for what it does not depend on; this states
  reachability without a recursive definition. `WaitsComplete`: a declared dependence is ready, or
  waited for, or emitted with its own waits handed on. Together they give `ReadyIsClosed`, that
  the ready symbols are those whose closure is emitted and sound; the refinement follows step by
  step. With removals the statement is not proved: after the tracker of an emitted symbol in
  the middle of a chain is removed, what depends on it still waits for what was reached through it.

*Session with splitting, transfer and removal by name*: of `FullSpec` in `OrcFull`, from the same
assumptions and the two that type its own constants (`SplitAssumption`, `TransferAssumption`). A step
of `FullSpec` is a step of `Spec` that leaves the added variables alone, or one of the added
operations (`FullSteps`), so that the step lemmas of `Spec` serve again and what remains is one
lemma per invariant about the added operations, none of which touches the graph or a query
(`AddedKeeps`). Three more hypotheses on constants:

* `Undefinable = {}`: no symbol is removed by name. `JITDylib::remove` takes any symbol that was
  never searched for, and does not look whether it has a MaterializingInfo; `addDependencies`
  gives it one when a responsibility whose tracker was removed still registers dependences for a
  name that was defined anew.
* `NothingRemoved`: neither trackers nor symbols are removed; trackers may be transferred.
* `Declarable = {}`: a materializer registers dependences through its lookups only. With
  `addDependencies` it may also register that one of its symbols depends on a sibling nobody asked
  for (an object linking layer does, for the references inside an object, once it splits nothing any
  more). One that then gives the sibling back makes it lazy while the other waits for it, and
  nothing starts it before somebody asks for it. TLC finds that on the instance of `MCSplit` with
  such declarations.

| Theorem | Statement | Hypotheses | Argument |
|---|---|---|---|
| `FullTypeCorrect` | `FullTypeOK` | none | what `replace` and `delegate` give a spare unit are symbols; transfer keeps lists of symbols |
| `FullGraphCorrect` | `GraphInv` | none | the added operations leave the graph alone |
| `FullQueriesCorrect`, `FullForgottenCorrect` | `QueryInv`, `NoForgottenQuery` | none | ... and the queries |
| `FullTableCorrect` | `TableInv` | none | a returned symbol is *materializing* and its new unit waits; a claimed one was absent; removal by name takes it out of both tables and of the unit |
| `FullResponsibilitiesCorrect` | `ResponsibilitiesTracked` | none | the new responsibility is linked under the old one's tracker; source and destination of a transfer differ |
| `FullShapeCorrect` | `ShapeInv` | `Undefinable = {}` | a claimed symbol was in no graph, as it was not in the table |
| `FullOnceCorrect` | `AnsweredOnce` | `Undefinable = {}`, `[]NoneUnwinding` | `AnswerInv` |
| `HeldCorrect` | `HeldOnce` | `NothingRemoved`, `[]NoneLate` | `HoldInv`, below |
| `FullReadinessCorrect` | `ReadinessIsClosure` | `NothingRemoved`, `[]NoneLate` | `GraphHeld`: `HoldInv` with `MovingInv`, `WaitsSound` and `WaitsComplete` |
| `FullWaitsCorrect` | `WaitsForOwned` | `NothingRemoved`, `Declarable = {}`, `[]NoneLate` | `AskedInv`, below |
| `FullWaitersCorrect` | `NoStrandedQuery` | as before | from `AskedInv` and `GraphHeld`: what an emitted symbol waits for is not lazy, and then a responsibility covers it |
| `SplitSafe` | `HeldOnce`, `NoStrandedSymbol`, `OneOwner`, `AnsweredOnce` | `NothingRemoved`, `Transferable = {}` | no tracker becomes defunct, so that both conditions on the behaviour hold by themselves |
| `SplitReady`, `SplitWaits` | the same three | also `Transferable = {}` | as `SplitSafe`: nothing is asked of the client (`NeverLate`) |

For removals and transfers together, more hypotheses:

* `TidySession`: `Undefinable = {}`; the default tracker is neither removed nor transferred; no
  materializer claims symbols (a claimed symbol is listed by no tracker, so that removing the claimer's
  tracker leaves it in the table with nobody responsible); `OverridesApart(Listing)`. The other trackers
  may be removed and transferred, and responsibilities split, at any time.
* `[]NoneDestroyed`: no lookup that has lost a symbol between its phases has found another that waits.
  Phase 2 of the former would destroy the unit of the latter. It holds by itself where each lookup is of
  one symbol.
* `LoadsFirst`: what the client will remove or transfer was added before the session is used. It
  discharges `[]NoneLate`. `LooksOneUp`: each lookup is of one symbol, which discharges
  `[]NoneDestroyed`.

| Theorem | Statement | Hypotheses | Argument |
|---|---|---|---|
| `TidyOwners` | `OneOwner` | `TidySession`, `[]NoneLate` | `TidyInv`, below |
| `TidyTracked` | `TrackedByUnit` | as before | from `TidyInv` |
| `FullLateCorrect` | `NoLateQuery` | `QueriesSkipEmitted`, `NothingRemoved` or `TidySession`, `[]NoneLate` | `LateInv` with `OwnInv`: `replace` returns a symbol only when no query is pending on it, and a unit that is put back lists nothing that is another's |
| `TidyHeld` | `HeldOnce`, `NoStrandedSymbol` | also `[]NoneDestroyed` | `TidyInv` and `StrandInv` |
| `TidyWaiters` | `NoStrandedQuery` | also `Splitter = {}` | from these and `StartedInv`, which `replace` breaks where the graph holds what it returns |
| `ClientOwners` | `OneOwner`, `TrackedByUnit` | `TidySession`, `LoadsFirst` | `ClientInv`, below |
| `ClientHeld` | `HeldOnce`, `NoStrandedSymbol` | also `LooksOneUp` | `OneUpDestroysNone` |
| `ClientWaiters` | `NoStrandedQuery` | also `Splitter = {}` | as before |

`TidyInv` is `OwnInv`, `TrackInv(Listing)` and `WeakInv`. The steps of `Spec` keep it by the lemmas of
`Spec`. A split hands on what a unit under a live tracker kept, under the same tracker
(`SplitFrame`); where the tracker is defunct, what `replace` and `delegate` forget was held by nobody
(`SplitHolds`). A transfer moves a list together with the units and responsibilities it is of
(`TransferTrack`), and what stays behind under the defunct source is kept by nobody. The override of
a weak definition is the delicate case: after a transfer the definition's unit is no longer under the
tracker of the workload, and `WeakOf` records that the tracker it was added under is then defunct, under
which a new unit would be late. `ClientInv` says that trackers which are gone list nothing, and
that no unit waits under one but those whose symbols are about to be erased; the erasure then leaves
no unit behind there, because a waiting unit has symbols (`WaitersList`) and one that survives the erasure keeps
one that is listed.

`HoldInv` is `OwnInv` and `StrandInv` with two additions: what is dispatched or running is under a live
tracker (`LiveUnderTracker`: the parts of a split inherit the tracker, and a transfer moves
responsibilities before the source is made defunct), and what phase 1 of a lookup has found stays
(`PeacefulInv`). The lists play no part in it, as nothing is removed. For `HeldOnce` itself, being
attached and being held exclude each other (`DefinedAttached`, `HeldMoving`), so that a symbol has
its waiting unit or its one responsibility, and `StrandInv` says that it has either.

For the graph, the lemmas of `Spec` serve again where they are stated over `SettledInv`, which both
sessions have, and the added operations change what `MovingInv` links: `replace` and `delegate` give
part of a running responsibility to another unit, and the query whose failure would reach the
whole must still reach a running one (`LinkInv`: a unit that has come to an end covers nothing).

`AskedInv` explains why `replace` never makes a symbol lazy that a sound one waits for, although it
looks at queries and not at the graph (`Core.cpp:789`). `WaitsForOwned` is not inductive: it says
nothing of how a symbol that is waited for is known to be wanted. `WaitsAsked` says it: such a symbol is
resolved, or there is a query pending on it that can only go by failing with the waiter (`AskedFor`),
because everything that query is pending on is the waiter, or what it waits for, or an emitted symbol
whose own waits are among the waiter's (`Reaches`). So when a symbol fails and takes the query away, the
waiter has failed too; when a symbol becomes ready, its waits pass to the waiter, and the query with
them. `LodgedInv` carries this from the lookup that lodges the query to the registration of its
dependences, in the same hold of the lock, and `LazyUnasked` says that nobody is pending on a lazy
symbol.

*Generators*: of `GenSpec` in `OrcGenerators`, from the assumptions that type its constants.

| Theorem | Statement | Hypotheses | Argument |
|---|---|---|---|
| `GenTypeCorrect` | `GenTypeOK` | none | `GenInv`: a lookup is at one place; a queue holds, each once, the lookups that wait for the generator on top of their stacks; a generator is with one lookup at a time |
| `GeneratorsImplementLock` | `GeneratorIsLock` | `[]ResumedUnharmed` | each step of a lookup is a step of `OrcGenLock` or none; `InUseInv` (a generator in use is with a lookup) is what the missing hand-over of `MCGenStuck` breaks, and `ResumedUnharmed` excludes exactly that |
| `UnfailingImplementsLock` | `GeneratorIsLock` | `Fallible = {}` | no symbol is ever in the error state |
| `MissingCorrect` | `MissingNowhere` | `HiddenAssumption` | `SearchInv`: a name still looked for was offered by no JITDylib that was left; `HiddenAssumption` (a JITDylib with hidden symbols keeps a generator, and none of its generators makes what it hides) excludes the dropped names of `Core.cpp:2539` |

*Remote executor*: of `RemSpec` in `OrcRemote`, from `RemoteAssumption` (one setup request, made by
the JIT, that no other request is nested in; nested requests go to the other side; what the
executor asks, and what is asked from within, is answered in place).

| Theorem | Statement | Argument |
|---|---|---|
| `RemTypeCorrect` | `RemSpec => []RemTypeOK` | part of `RemInv` below |
| `RemAnsweredOnce` | `AnsweredOnce` | `RemInv`: a handler is in one table, with the number of its request, or about to be failed, only while its request has no answer (`PendingUnanswered`, `FailingUnanswered`); what takes it out calls it |
| `RemResultsExpected` | `ResultsExpected` | `RemInv`: a request that is being sent, worked for, or in a pipe in either direction is pending as long as its side listens (`OutstandingPending`); needs that there is one message per request at a time (`MessagesTravel`) and that numbers differ but for the first, which the setup message shares (`NumbersApart`, `SetupFirst`) |
| `ConnectionImplementsCalls` | `RequestsAreCalls` | each action maps to one step of one request in `OrcRemoteCall`, or to none; a handler is called with an error only when a side has closed (`ClosedWhenOver`) |

Each of these invariants, the strengthenings included, was checked by TLC on the instances of
section 3 first.

The instances of `MCGraph`, `MCDefine`, `MCSplit` and `MCGen`, whose runs check most of these
properties, satisfy the hypotheses of the theorems on them. That of `MCTracker` satisfies those of
`ClientOwners`, `ClientHeld` and `ClientWaiters` but for its one symbol that is removed by name;
`MCRace` checks some properties on a workload the theorems leave out, with weak definitions that another
tracker overrides.

**Model-checked only.** Liveness (`EveryLookupAnswered`, `EmittedSettles`, `EveryLookupEnds`,
`EveryRequestAnswered`, `BothSidesClose`), which is out of the prover's reach; `ListsServe`, as
the vector of an order is a fold over it, and statements about folds need an induction. Every other property
of a passing run is a theorem under the hypotheses above; what TLC alone checks are the workloads
those leave out:

* `HeldOnce`, `NoStrandedQuery` and `TrackedByUnit` with a symbol removed by name beside removals and
  transfers of trackers (`MCTracker`).
* `ReadinessIsClosure` with removals (`MCTracker`, `MCRace`).

`WaitsForOwned` says nothing of symbols in error, and would be false of them: such a symbol keeps its
`UnemittedDependencies`, and when the lookup that made it wait has failed with another of its
symbols, `replace` may return the symbol it still waits for.

## 5. Plan

Done: the session with splitting, transfer and removal, the generators, the remote executor.
Left, in this order:

1. Proofs: the shape of the graph where symbols are removed by name, which needs that only
   the responsibility of a symbol's present definition registers dependences for it; the
   refinement under removals that spare the middle of a chain.
2. The session: re-exports as a client of `replace` and `lookup`; resource managers; `clear` and
   closing a JITDylib; definitions that a platform refuses; symbols that exist for the side effects
   of their materialization; generators added while lookups run.
3. Separate modules for `ThreadPool`, `LockFileManager` and `MemoryMapper`, each with an abstract
   specification.

## Not modelled

The components listed at the end of section 1, for the reasons in `PROJECT.json`: most are
sequential transformations of programs or object files, whose correctness is a question of what
they compute and not of what happens in which order, or clients of the session that add no state
of their own. Of the components that are modelled, the status *partly* in `PROJECT.json` names
the operations that are missing.
