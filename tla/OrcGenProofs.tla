---------------------------- MODULE OrcGenProofs ----------------------------
(***************************************************************************)
(* What holds of lookups and definition generators, for any number of      *)
(* either, any search orders and any generators.                           *)
(*                                                                         *)
(* The invariant says where a lookup can be while it has a generator or    *)
(* waits for one (PlacesInv), what the queues hold (QueueInv), and that no  *)
(* two lookups have the same generator (OwnerInv).                         *)
(***************************************************************************)
EXTENDS OrcGenerators, TLAPS

\* A lookup that has the generator on top of its stack: it is in it, or the lookup
\* that left it has handed it over.
Has(l) == at[l] # "done" /\ genState[l] # "not"

InGenerator == {"generating", "captured", "returned", "continued"}

\* Between the entry of a JITDylib and the decision to leave it.
InDylib == InGenerator \cup {"search", "refilter", "queued", "tasked"}

\* A lookup resumed by a task has not left the JITDylib it waited in, has met no
\* error, and has something left to generate when it comes to its generator again.
ResumedInv(l) ==
  genState[l] = "resumed" =>
    /\ at[l] \in {"tasked", "visit", "search", "done"}
    /\ at[l] = "visit" => Searching(l) /\ ~ entering[l] /\ ~ err[l]
    /\ at[l] = "search" => cands[l] # {}
    /\ stack[l] # <<>>

PlaceInv(l) ==
  /\ at[l] \in InDylib => Searching(l) /\ ~ entering[l]
  /\ at[l] \in InDylib \ {"returned", "continued"} => ~ err[l]
  /\ at[l] \in InGenerator => genState[l] = "in" /\ stack[l] # <<>>
  /\ genState[l] = "in" => at[l] \in InGenerator \cup {"done"}
  /\ at[l] = "queued" => genState[l] = "not" /\ stack[l] # <<>>
  /\ at[l] = "tasked" => genState[l] = "resumed"
  /\ ResumedInv(l)

PlacesInv == \A l \in Lookup : PlaceInv(l)

Distinct(s) == \A i, j \in 1 .. Len(s) : s[i] = s[j] => i = j

\* A queue is that of a generator in use; it holds the lookups that wait for the
\* generator on top of their stacks, each once.
QueueInv ==
  /\ \A g \in Gen : queue[g] # <<>> => g \in inUse
  /\ \A g \in Gen : Distinct(queue[g])
  /\ \A g \in Gen : \A l \in ToSet(queue[g]) : at[l] = "queued" /\ Top(l) = g
  /\ \A l \in Lookup : at[l] = "queued" => l \in ToSet(queue[Top(l)])

\* A generator is with one lookup at a time, and is in use until it is destroyed.
OwnerInv ==
  /\ \A l, m \in Lookup : Has(l) /\ Has(m) /\ Top(l) = Top(m) => l = m
  /\ \A l \in Lookup : Has(l) => Top(l) \in inUse \cup gone

GenInv == GenTypes /\ PlacesInv /\ QueueInv /\ OwnerInv

\* The finding of the run MCGenStuck, left out: no lookup that was handed a generator
\* meets a symbol in the error state before it reaches it.
ResumedUnharmed ==
  \A l \in Lookup :
    at[l] = "visit" /\ Searching(l) /\ genState[l] = "resumed" => InErrorHere(l) = {}

\* A generator in use is with a lookup.
InUseInv == \A g \in inUse : \E l \in Lookup : Has(l) /\ Top(l) = g

-----------------------------------------------------------------------------
(* Sequences *)

LEMMA LastOf ==
  ASSUME NEW S, NEW s \in Seq(S), s # <<>>
  PROVE  Last(s) \in S
BY DEF Last

LEMMA FrontOf ==
  ASSUME NEW S, NEW s \in Seq(S), s # <<>>
  PROVE  Front(s) \in Seq(S)
BY DEF Front

LEMMA ReverseOf ==
  ASSUME NEW S, NEW s \in Seq(S)
  PROVE  Reverse(s) \in Seq(S)
BY DEF Reverse

LEMMA RemoveAtOf ==
  ASSUME NEW S, NEW s \in Seq(S), NEW i \in DOMAIN s
  PROVE  RemoveAt(s, i) \in Seq(S)
<1>1. SubSeq(s, 1, i-1) \in Seq(S) /\ SubSeq(s, i+1, Len(s)) \in Seq(S)
  OBVIOUS
<1>2. QED
  BY <1>1 DEF RemoveAt

LEMMA ToSetOf ==
  ASSUME NEW S, NEW s \in Seq(S)
  PROVE  /\ ToSet(s) \subseteq S
         /\ ToSet(s) = {} <=> s = <<>>
BY DEF ToSet

LEMMA AppendTo ==
  ASSUME NEW S, NEW s \in Seq(S), NEW e \in S, e \notin ToSet(s), Distinct(s)
  PROVE  /\ Append(s, e) \in Seq(S) /\ Append(s, e) # <<>>
         /\ ToSet(Append(s, e)) = ToSet(s) \cup {e}
         /\ Distinct(Append(s, e))
<1> DEFINE t == Append(s, e)
<1>1. /\ t \in Seq(S) /\ Len(t) = Len(s) + 1 /\ t # <<>>
      /\ \A i \in 1 .. Len(s) : t[i] = s[i]
      /\ t[Len(s) + 1] = e
  OBVIOUS
<1>2. \A i \in 1 .. Len(s) : s[i] # e
  BY DEF ToSet
<1> HIDE DEF t
<1>3. ToSet(t) = ToSet(s) \cup {e}
  BY <1>1 DEF ToSet
<1>4. Distinct(t)
  BY <1>1, <1>2 DEF Distinct
<1>5. QED
  BY <1>1, <1>3, <1>4 DEF t

LEMMA TailOf ==
  ASSUME NEW S, NEW s \in Seq(S), s # <<>>, Distinct(s)
  PROVE  /\ Tail(s) \in Seq(S) /\ Head(s) \in ToSet(s)
         /\ ToSet(Tail(s)) = ToSet(s) \ {Head(s)}
         /\ Distinct(Tail(s))
<1> DEFINE t == Tail(s)
<1>1. /\ t \in Seq(S) /\ Len(t) = Len(s) - 1 /\ Len(s) \in Nat \ {0}
      /\ \A i \in 1 .. Len(t) : t[i] = s[i + 1]
      /\ Head(s) = s[1]
  OBVIOUS
<1> HIDE DEF t
<1>2. \A i \in 2 .. Len(s) : s[i] = t[i - 1] /\ i - 1 \in 1 .. Len(t) /\ s[i] # s[1]
  BY <1>1 DEF Distinct
<1>3. ToSet(t) = ToSet(s) \ {Head(s)}
  <2>1. ASSUME NEW e \in ToSet(t)
        PROVE  e \in ToSet(s) \ {Head(s)}
    <3>1. PICK i \in 1 .. Len(t) : t[i] = e
      BY <1>1 DEF ToSet
    <3>2. QED
      BY <1>1, <3>1 DEF ToSet, Distinct
  <2>2. ASSUME NEW e \in ToSet(s) \ {Head(s)}
        PROVE  e \in ToSet(t)
    <3>1. PICK i \in 1 .. Len(s) : s[i] = e
      BY DEF ToSet
    <3>2. i \in 2 .. Len(s)
      BY <1>1, <2>2, <3>1
    <3>3. QED
      BY <1>1, <1>2, <3>1, <3>2 DEF ToSet
  <2>3. QED
    BY <2>1, <2>2
<1>4. Distinct(t)
  BY <1>1 DEF Distinct
<1>5. Head(s) \in ToSet(s)
  BY <1>1 DEF ToSet
<1>6. QED
  BY <1>1, <1>3, <1>4, <1>5 DEF t

-----------------------------------------------------------------------------
(* Types *)

LEMMA HereType ==
  ASSUME GenTypes, NEW l \in Lookup, Searching(l)
  PROVE  Here(l) \in Dylib
<1>1. /\ SearchOrder[l] \in Seq(Dylib)
      /\ index[l] \in 1 .. Len(SearchOrder[l]) + 1 /\ index[l] <= Len(SearchOrder[l])
  BY GeneratorAssumption DEF GenTypes, Searching
<1>2. QED
  BY <1>1 DEF Here

LEMMA TopType ==
  ASSUME GenTypes, NEW l \in Lookup, stack[l] # <<>>
  PROVE  Top(l) \in Gen /\ Front(stack[l]) \in Seq(Gen)
<1>1. stack[l] \in Seq(Gen)
  BY DEF GenTypes
<1>2. QED
  BY <1>1, LastOf, FrontOf DEF Top

\* OL_resumeLookupAfterGeneration keeps the types.
LEMMA LeaveTypes ==
  ASSUME GenTypes, QueueInv, NEW l \in Lookup, stack[l] # <<>>, NEW p \in Places,
         LeaveGenerator(l, p)
  PROVE  /\ inUse' \subseteq inUse
         /\ queue' \in [Gen -> Seq(Lookup)]
         /\ stack' \in [Lookup -> Seq(Gen)]
         /\ genState' \in [Lookup -> {"not", "resumed", "in"}]
         /\ at' \in [Lookup -> Places]
<1>1. PICK g \in Gen : g = Top(l)
  BY TopType
<1>2. queue[g] \in Seq(Lookup) /\ queue \in [Gen -> Seq(Lookup)]
      /\ stack \in [Lookup -> Seq(Gen)] /\ at \in [Lookup -> Places]
      /\ genState \in [Lookup -> {"not", "resumed", "in"}]
  BY DEF GenTypes
<1>3. CASE g \in gone
  BY <1>1, <1>2, <1>3 DEF LeaveGenerator
<1>4. CASE g \notin gone
  <2>1. inUse' \subseteq inUse /\ stack' \in [Lookup -> Seq(Gen)]
    BY <1>1, <1>2, <1>4, TopType DEF LeaveGenerator, FreedIfNoneWait
  <2>2. CASE queue[g] = <<>>
    BY <1>1, <1>2, <1>4, <2>1, <2>2 DEF LeaveGenerator
  <2>3. CASE queue[g] # <<>>
    <3>1. Tail(queue[g]) \in Seq(Lookup) /\ "tasked" \in Places
      BY <1>2, <2>3 DEF Places
    <3>2. QED
      BY <1>1, <1>2, <1>4, <2>1, <2>3, <3>1 DEF LeaveGenerator
  <2>4. QED
    BY <2>2, <2>3
<1>5. QED
  BY <1>3, <1>4

\* The steps that actions of lookups have in common keep the types.
LEMMA UpdateTypes ==
  ASSUME GenTypes, NEW l \in Lookup, UpdateCandidates(l)
  PROVE  cands' \in [Lookup -> SUBSET Name] /\ nonCands' \in [Lookup -> SUBSET Name]
<1>1. cands \in [Lookup -> SUBSET Name] /\ nonCands \in [Lookup -> SUBSET Name]
  BY DEF GenTypes
<1>2. SetAside(l) \subseteq Name
  BY <1>1 DEF SetAside, HiddenHere
<1>3. QED
  BY <1>1, <1>2 DEF UpdateCandidates

LEMMA GoToTypes ==
  ASSUME GenTypes, NEW l \in Lookup, NEW p \in Places, GoTo(l, p)
  PROVE  at' \in [Lookup -> Places] /\ result' = result
BY DEF GenTypes, GoTo

LEMMA EndTypes ==
  ASSUME GenTypes, NEW l \in Lookup, NEW o \in {"found", "notFound", "failed"}, End(l, o)
  PROVE  /\ at' \in [Lookup -> Places]
         /\ result' \in [Lookup -> {"none", "found", "notFound", "failed"}]
BY DEF GenTypes, End, Places

LEMMA LookupTypes ==
  ASSUME GenInv, NEW l \in Lookup,
         StartLookup(l) \/ Phase1(l) \/ ContinueLookup(l) \/ RunTask(l)
  PROVE  GenTypes'
<1> USE DEF genVars, tables, progress
<1>0. GenTypes /\ QueueInv /\ PlaceInv(l)
  BY DEF GenInv, PlacesInv
<1>1. CASE StartLookup(l)
  <2>1. at' \in [Lookup -> Places] /\ result' = result
    BY <1>0, <1>1, GoToTypes DEF StartLookup, Places
  <2>2. QED
    BY <1>0, <1>1, <2>1 DEF StartLookup, GenTypes
<1>2. CASE EnterDylib(l)
  <2>1. Reverse(gens[Here(l)]) \in Seq(Gen)
    <3>1. gens[Here(l)] \in Seq(Gen)
      BY <1>0, <1>2, HereType DEF EnterDylib, GenTypes
    <3>2. QED
      BY <3>1, ReverseOf
  <2>2. stack' \in [Lookup -> Seq(Gen)]
    <3>1. stack \in [Lookup -> Seq(Gen)]
      BY <1>0 DEF GenTypes
    <3>2. stack[l] \o Reverse(gens[Here(l)]) \in Seq(Gen)
      BY <2>1, <3>1
    <3>3. QED
      BY <1>2, <3>1, <3>2 DEF EnterDylib
  <2>3. /\ cands' \in [Lookup -> SUBSET Name] /\ nonCands' \in [Lookup -> SUBSET Name]
        /\ entering' \in [Lookup -> BOOLEAN]
    BY <1>0, <1>2 DEF EnterDylib, GenTypes
  <2>4. QED
    BY <1>0, <1>2, <2>2, <2>3 DEF EnterDylib, GenTypes
<1>3. CASE FilterCandidates(l)
  <2>1. cands' \in [Lookup -> SUBSET Name] /\ nonCands' \in [Lookup -> SUBSET Name]
    BY <1>0, <1>3, UpdateTypes DEF FilterCandidates
  <2>2. CASE LeaveGenerator(l, "search") /\ genState[l] = "resumed"
    <3>1. stack[l] # <<>> /\ "search" \in Places
      BY <1>0, <2>2 DEF PlaceInv, ResumedInv, Places
    <3>2. /\ inUse' \subseteq inUse
          /\ queue' \in [Gen -> Seq(Lookup)]
          /\ stack' \in [Lookup -> Seq(Gen)]
          /\ genState' \in [Lookup -> {"not", "resumed", "in"}]
          /\ at' \in [Lookup -> Places]
      BY <1>0, <2>2, <3>1, LeaveTypes
    <3>3. QED
      BY <1>0, <1>3, <2>1, <3>2 DEF FilterCandidates, GenTypes
  <2>3. CASE at' = [at EXCEPT ![l] = "search"] /\ UNCHANGED <<inUse, queue, stack, genState>>
    <3>1. at' \in [Lookup -> Places]
      BY <1>0, <2>3 DEF GenTypes, Places
    <3>2. QED
      BY <1>0, <1>3, <2>1, <2>3, <3>1 DEF FilterCandidates, GenTypes
  <2>4. QED
    BY <1>3, <2>2, <2>3 DEF FilterCandidates
<1>4. CASE FilterAfterGeneration(l)
  <2>1. cands' \in [Lookup -> SUBSET Name] /\ nonCands' \in [Lookup -> SUBSET Name]
    BY <1>0, <1>4, UpdateTypes DEF FilterAfterGeneration
  <2>2. at' \in [Lookup -> Places] /\ result' = result
    BY <1>0, <1>4, GoToTypes DEF FilterAfterGeneration, Places
  <2>3. QED
    BY <1>0, <1>4, <2>1, <2>2 DEF FilterAfterGeneration, GenTypes
<1>5. CASE FilterFails(l) \/ FailWithError(l) \/ GeneratorRemoved(l)
  <2>1. /\ at' \in [Lookup -> Places]
        /\ result' \in [Lookup -> {"none", "found", "notFound", "failed"}]
    BY <1>0, <1>5, EndTypes DEF FilterFails, FailWithError, GeneratorRemoved
  <2>2. QED
    BY <1>0, <1>5, <2>1 DEF FilterFails, FailWithError, GeneratorRemoved, GenTypes
<1>6. CASE WaitForGenerator(l)
  <2>1. PICK g \in Gen : g = Top(l)
    BY <1>0, <1>6, TopType DEF WaitForGenerator, MayGenerate
  <2>2. queue' \in [Gen -> Seq(Lookup)]
    <3>1. queue \in [Gen -> Seq(Lookup)] /\ Append(queue[g], l) \in Seq(Lookup)
      BY <1>0 DEF GenTypes
    <3>2. QED
      BY <1>6, <2>1, <3>1 DEF WaitForGenerator
  <2>3. at' \in [Lookup -> Places] /\ result' = result
    BY <1>0, <1>6, GoToTypes DEF WaitForGenerator, Places
  <2>4. QED
    BY <1>0, <1>6, <2>2, <2>3 DEF WaitForGenerator, GenTypes
<1>7. CASE EnterGenerator(l)
  <2>1. PICK g \in Gen : g = Top(l)
    BY <1>0, <1>7, TopType DEF EnterGenerator, MayGenerate
  <2>2. inUse' \subseteq Gen \ gone'
    BY <1>0, <1>7, <2>1 DEF EnterGenerator, GenTypes
  <2>3. at' \in [Lookup -> Places] /\ result' = result
    BY <1>0, <1>7, GoToTypes DEF EnterGenerator, Places
  <2>4. genState' \in [Lookup -> {"not", "resumed", "in"}]
    BY <1>0, <1>7 DEF EnterGenerator, GenTypes
  <2>5. QED
    BY <1>0, <1>7, <2>2, <2>3, <2>4 DEF EnterGenerator, GenTypes
<1>8. CASE GenerateInPlace(l) \/ ContinueLookup(l)
  <2>1. PICK p \in Places : Generate(l, p) /\ at[l] \in InGenerator
    BY <1>8 DEF GenerateInPlace, ContinueLookup, Places, InGenerator
  <2>2. at' \in [Lookup -> Places] /\ result' = result
    BY <1>0, <2>1, GoToTypes DEF Generate
  <2>3. Made(l) \subseteq Dylib \X Name
    <3>1. Here(l) \in Dylib /\ cands[l] \subseteq Name
      BY <1>0, <2>1, HereType DEF PlaceInv, InDylib, GenTypes
    <3>2. QED
      BY <3>1 DEF Made
  <2>4. symbols' \subseteq Dylib \X Name /\ symbols \subseteq symbols'
    BY <1>0, <2>1, <2>3 DEF Generate, GenTypes
  <2>5. err' \in [Lookup -> BOOLEAN]
    BY <1>0, <2>1 DEF Generate, GenTypes
  <2>6. QED
    BY <1>0, <2>1, <2>2, <2>4, <2>5 DEF Generate, GenTypes
<1>9. CASE Capture(l) \/ RunTask(l)
  <2>1. at' \in [Lookup -> Places] /\ result' = result
    BY <1>0, <1>9, GoToTypes DEF Capture, RunTask, Places
  <2>2. QED
    BY <1>0, <1>9, <2>1 DEF Capture, RunTask, GenTypes
<1>10. CASE AfterGeneration(l)
  <2>1. PICK p \in Places : LeaveGenerator(l, p) /\ at[l] \in InGenerator
    BY <1>10 DEF AfterGeneration, Places, InGenerator
  <2>2. stack[l] # <<>>
    BY <1>0, <2>1 DEF PlaceInv
  <2>3. /\ inUse' \subseteq inUse
        /\ queue' \in [Gen -> Seq(Lookup)]
        /\ stack' \in [Lookup -> Seq(Gen)]
        /\ genState' \in [Lookup -> {"not", "resumed", "in"}]
        /\ at' \in [Lookup -> Places]
    BY <1>0, <2>1, <2>2, LeaveTypes
  <2>4. QED
    BY <1>0, <1>10, <2>3 DEF AfterGeneration, GenTypes
<1>11. CASE LeaveDylib(l)
  <2>1. Searching(l) /\ index \in [Lookup -> Nat] /\ Len(SearchOrder[l]) \in Nat
    BY <1>0, <1>11, GeneratorAssumption DEF LeaveDylib, PlaceInv, InDylib, GenTypes
  <2>2. /\ index' \in [Lookup -> Nat]
        /\ \A m \in Lookup : index'[m] \in 1 .. Len(SearchOrder[m]) + 1
    <3>1. index[l] \in 1 .. Len(SearchOrder[l])
      BY <1>0, <2>1 DEF GenTypes, Searching
    <3>2. PICK k \in 1 .. Len(SearchOrder[l]) + 1 : index' = [index EXCEPT ![l] = k]
      BY <1>11, <2>1, <3>1 DEF LeaveDylib
    <3>3. \A m \in Lookup : index[m] \in 1 .. Len(SearchOrder[m]) + 1
      BY <1>0 DEF GenTypes
    <3>4. QED
      BY <2>1, <3>2, <3>3
  <2>3. at' \in [Lookup -> Places] /\ result' = result
    BY <1>0, <1>11, GoToTypes DEF LeaveDylib, Places
  <2>4. entering' \in [Lookup -> BOOLEAN]
    BY <1>0, <1>11 DEF LeaveDylib, GenTypes
  <2>5. QED
    BY <1>0, <1>11, <2>2, <2>3, <2>4 DEF LeaveDylib, GenTypes
<1>12. CASE CompletePhase1(l)
  <2>1. /\ at' \in [Lookup -> Places]
        /\ result' \in [Lookup -> {"none", "found", "notFound", "failed"}]
    BY <1>0, <1>12, EndTypes DEF CompletePhase1
  <2>2. QED
    BY <1>0, <1>12, <2>1 DEF CompletePhase1, GenTypes
<1>13. QED
  BY <1>1, <1>2, <1>3, <1>4, <1>5, <1>6, <1>7, <1>8, <1>9, <1>10, <1>11, <1>12
  DEF Phase1

LEMMA OtherTypes ==
  ASSUME GenInv,
         \/ \E g \in Gen : RemoveGenerator(g) \/ DestroyGenerator(g)
         \/ \E d \in Dylib, n \in Name : FailSymbol(d, n)
         \/ UNCHANGED genVarsAll
  PROVE  GenTypes'
<1> USE DEF genVars, tables, progress, lookVars
<1>0. GenTypes /\ QueueInv
  BY DEF GenInv
<1>1. ASSUME NEW g \in Gen, RemoveGenerator(g)
      PROVE  GenTypes'
  <2>1. PICK d \in Dylib : \E i \in DOMAIN gens[d] : gens' = [gens EXCEPT ![d] = RemoveAt(@, i)]
    BY <1>1 DEF RemoveGenerator
  <2>2. gens \in [Dylib -> Seq(Gen)]
    BY <1>0 DEF GenTypes
  <2>3. gens' \in [Dylib -> Seq(Gen)]
    BY <2>1, <2>2, RemoveAtOf
  <2>4. QED
    BY <1>0, <1>1, <2>3 DEF RemoveGenerator, GenTypes
<1>2. ASSUME NEW g \in Gen, DestroyGenerator(g)
      PROVE  GenTypes'
  <2>1. queue' \in [Gen -> Seq(Lookup)]
    BY <1>0, <1>2 DEF DestroyGenerator, GenTypes
  <2>2. at' \in [Lookup -> Places] /\ err' \in [Lookup -> BOOLEAN]
    BY <1>0, <1>2 DEF DestroyGenerator, GenTypes, Places
  <2>3. gone' \subseteq Gen /\ inUse' \subseteq Gen \ gone'
    BY <1>0, <1>2 DEF DestroyGenerator, GenTypes
  <2>4. QED
    BY <1>0, <1>2, <2>1, <2>2, <2>3 DEF DestroyGenerator, GenTypes
<1>3. ASSUME NEW d \in Dylib, NEW n \in Name, FailSymbol(d, n)
      PROVE  GenTypes'
  BY <1>0, <1>3 DEF FailSymbol, GenTypes
<1>4. ASSUME UNCHANGED genVarsAll
      PROVE  GenTypes'
  BY <1>0, <1>4 DEF genVarsAll, GenTypes
<1>5. QED
  BY <1>1, <1>2, <1>3, <1>4

-----------------------------------------------------------------------------
(* Steps of one lookup *)

\* What PlaceInv says of l depends on these alone.
PlaceOf(l) == <<at[l], index[l], entering[l], cands[l], stack[l], genState[l], err[l]>>

Others(l) == \A m \in Lookup \ {l} : UNCHANGED PlaceOf(m)

LEMMA OthersKept ==
  ASSUME PlacesInv, NEW m \in Lookup, UNCHANGED PlaceOf(m)
  PROVE  PlaceInv(m)' /\ Has(m)' = Has(m) /\ Top(m)' = Top(m)
<1>1. PlaceInv(m)
  BY DEF PlacesInv
<1>2. QED
  BY <1>1 DEF PlaceOf, PlaceInv, ResumedInv, Searching, Has, Top

\* A lookup that neither comes to a queue nor leaves one, and takes no generator.
LEMMA OwnStep ==
  ASSUME GenInv, NEW l \in Lookup, Others(l), UNCHANGED <<inUse, queue, gone>>,
         at[l] # "queued", at'[l] # "queued",
         Has(l)' => Has(l) /\ Top(l)' = Top(l),
         PlaceInv(l)'
  PROVE  PlacesInv' /\ QueueInv' /\ OwnerInv'
<1>1. \A m \in Lookup \ {l} : PlaceInv(m)' /\ Has(m)' = Has(m) /\ Top(m)' = Top(m)
                              /\ at'[m] = at[m]
  BY OthersKept DEF GenInv, Others, PlaceOf
<1>2. PlacesInv'
  BY <1>1 DEF PlacesInv
<1>3. QueueInv'
  <2>1. \A g \in Gen : ToSet(queue[g]) \subseteq Lookup
    BY ToSetOf DEF GenInv, GenTypes
  <2>2. QED
    BY <1>1, <2>1 DEF QueueInv, GenInv
<1>4. OwnerInv'
  BY <1>1 DEF OwnerInv, GenInv
<1>5. QED
  BY <1>2, <1>3, <1>4

\* OL_resumeLookupAfterGeneration: the lookup has the generator no longer; the one
\* whose turn it is has it, if there is one.
LEMMA LeaveKeeps ==
  ASSUME GenInv, NEW l \in Lookup, Has(l), at[l] # "queued", stack[l] # <<>>,
         NEW p \in {"search", "visit", "refilter"}, LeaveGenerator(l, p),
         UNCHANGED <<gone, index, entering, err>>,
         \A m \in Lookup \ {l} : cands'[m] = cands[m]
  PROVE  /\ QueueInv' /\ OwnerInv'
         /\ \A m \in Lookup \ {l} : PlaceInv(m)'
         /\ at'[l] = p /\ genState'[l] = "not"
<1>0. GenTypes /\ PlacesInv /\ QueueInv /\ OwnerInv
  BY DEF GenInv
<1>1. PICK g \in Gen : g = Top(l)
  BY <1>0, TopType
<1>2. /\ queue \in [Gen -> Seq(Lookup)] /\ at \in [Lookup -> Places]
      /\ genState \in [Lookup -> {"not", "resumed", "in"}]
      /\ stack \in [Lookup -> Seq(Gen)]
      /\ \A h \in Gen : ToSet(queue[h]) \subseteq Lookup
      /\ inUse \cap gone = {}
  BY <1>0, ToSetOf DEF GenTypes
<1>3. \A m \in Lookup \ {l} : Has(m) => Top(m) # g
  BY <1>0, <1>1 DEF OwnerInv
<1>4. CASE g \in gone \/ queue[g] = <<>>
  <2>1. /\ genState' = [genState EXCEPT ![l] = "not"] /\ at' = [at EXCEPT ![l] = p]
        /\ queue' = queue
        /\ stack' = [stack EXCEPT ![l] = stack'[l]]
        /\ inUse \ {g} \subseteq inUse' /\ inUse' \subseteq inUse
    BY <1>0, <1>1, <1>2, <1>4 DEF LeaveGenerator, FreedIfNoneWait
  <2>2. queue[g] = <<>>
    BY <1>0, <1>2, <1>4 DEF QueueInv
  <2>3. Others(l)
    BY <1>2, <2>1 DEF Others, PlaceOf
  <2>4. \A m \in Lookup \ {l} : PlaceInv(m)' /\ Has(m)' = Has(m) /\ Top(m)' = Top(m)
    BY <1>0, <2>3, OthersKept DEF Others
  <2>5. QueueInv'
    BY <1>0, <1>2, <2>1, <2>2, <2>4 DEF QueueInv
  <2>6. OwnerInv'
    BY <1>0, <1>2, <1>3, <2>1, <2>4 DEF OwnerInv, Has
  <2>7. QED
    BY <1>2, <2>1, <2>4, <2>5, <2>6
<1>5. CASE g \notin gone /\ queue[g] # <<>>
  <2>1. PICK h \in Lookup : h = Head(queue[g])
    BY <1>2, <1>5
  <2>2. /\ Tail(queue[g]) \in Seq(Lookup) /\ h \in ToSet(queue[g])
        /\ ToSet(Tail(queue[g])) = ToSet(queue[g]) \ {h}
        /\ Distinct(Tail(queue[g]))
    BY <1>0, <1>2, <1>5, <2>1, TailOf DEF QueueInv
  <2>3. at[h] = "queued" /\ Top(h) = g /\ h # l /\ g \in inUse
    BY <1>0, <1>5, <2>2 DEF QueueInv
  <2>4. /\ genState' = [genState EXCEPT ![l] = "not", ![h] = "resumed"]
        /\ at' = [at EXCEPT ![l] = p, ![h] = "tasked"]
        /\ queue' = [queue EXCEPT ![g] = Tail(@)]
        /\ stack' = [stack EXCEPT ![l] = Front(@)]
        /\ inUse' = inUse
    BY <1>1, <1>5, <2>1 DEF LeaveGenerator, FreedIfNoneWait
  <2>5. \A m \in Lookup \ {l, h} : UNCHANGED PlaceOf(m)
    BY <1>2, <2>4 DEF PlaceOf
  <2>6. \A m \in Lookup \ {l, h} :
          PlaceInv(m)' /\ Has(m)' = Has(m) /\ Top(m)' = Top(m) /\ at'[m] = at[m]
    BY <1>0, <2>5, OthersKept DEF PlaceOf
  <2>7. /\ PlaceInv(h)' /\ Top(h)' = g /\ Has(h)' /\ at'[h] = "tasked"
    <3>1. PlaceInv(h)
      BY <1>0 DEF PlacesInv
    <3>2. /\ at'[h] = "tasked" /\ genState'[h] = "resumed" /\ stack'[h] = stack[h]
          /\ index'[h] = index[h] /\ entering'[h] = entering[h] /\ err'[h] = err[h]
      BY <1>2, <2>3, <2>4
    <3>3. QED
      BY <2>3, <3>1, <3>2
      DEF PlaceInv, ResumedInv, InDylib, InGenerator, Searching, Top, Has
  <2>8. at'[l] = p /\ genState'[l] = "not" /\ ~ Has(l)'
    BY <1>2, <2>3, <2>4 DEF Has
  <2>9. QueueInv'
    <3>1. \A k \in Gen : queue'[k] = IF k = g THEN Tail(queue[g]) ELSE queue[k]
      BY <1>2, <2>4
    <3>2. \A k \in Gen : queue'[k] # <<>> => k \in inUse'
      BY <1>0, <2>3, <2>4, <3>1 DEF QueueInv
    <3>3. \A k \in Gen : Distinct(queue'[k])
      BY <1>0, <2>2, <3>1 DEF QueueInv
    <3>4. ASSUME NEW k \in Gen, NEW m \in ToSet(queue'[k])
          PROVE  at'[m] = "queued" /\ Top(m)' = k
      <4>1. m \in ToSet(queue[k]) /\ at[m] = "queued" /\ Top(m) = k /\ m \in Lookup
        BY <1>0, <1>2, <2>2, <3>1, <3>4 DEF QueueInv
      <4>2. m # h
        BY <2>2, <2>3, <3>1, <3>4, <4>1
      <4>3. QED
        BY <2>6, <4>1, <4>2
    <3>5. ASSUME NEW m \in Lookup, at'[m] = "queued"
          PROVE  m \in ToSet(queue'[Top(m)'])
      <4>1. m \notin {l, h}
        BY <2>7, <2>8, <3>5
      <4>2. at[m] = "queued" /\ Top(m)' = Top(m) /\ m \in ToSet(queue[Top(m)])
        BY <1>0, <2>6, <3>5, <4>1 DEF QueueInv
      <4>3. Top(m) \in Gen
        <5>1. stack[m] # <<>>
          BY <1>0, <4>2 DEF PlacesInv, PlaceInv
        <5>2. QED
          BY <1>0, <5>1, TopType
      <4>4. QED
        BY <2>2, <3>1, <4>1, <4>2, <4>3
    <3>6. QED
      BY <3>2, <3>3, <3>4, <3>5 DEF QueueInv
  <2>10. OwnerInv'
    <3>1. \A m, k \in Lookup : Has(m)' /\ Has(k)' /\ Top(m)' = Top(k)' => m = k
      BY <1>0, <1>3, <2>6, <2>7, <2>8 DEF OwnerInv
    <3>2. \A m \in Lookup : Has(m)' => Top(m)' \in inUse' \cup gone'
      BY <1>0, <2>3, <2>4, <2>6, <2>7, <2>8 DEF OwnerInv
    <3>3. QED
      BY <3>1, <3>2 DEF OwnerInv
  <2>11. QED
    BY <2>6, <2>7, <2>8, <2>9, <2>10
<1>6. QED
  BY <1>4, <1>5

-----------------------------------------------------------------------------
(* The invariant *)

LEMMA FilterKeeps ==
  ASSUME GenInv, NEW l \in Lookup, FilterCandidates(l)
  PROVE  PlacesInv' /\ QueueInv' /\ OwnerInv'
<1>0. GenTypes /\ PlaceInv(l)
  BY DEF GenInv, PlacesInv
<1>1. /\ at[l] = "visit" /\ Searching(l) /\ ~ err[l] /\ ~ entering[l]
      /\ UNCHANGED <<gone, index, entering, err>>
  BY DEF FilterCandidates
<1>2. \A m \in Lookup \ {l} : cands'[m] = cands[m]
  BY <1>0 DEF FilterCandidates, UpdateCandidates, GenTypes
<1>3. CASE genState[l] = "resumed" /\ cands'[l] = {}
  <2>1. Has(l) /\ stack[l] # <<>> /\ LeaveGenerator(l, "search")
    BY <1>0, <1>1, <1>3 DEF Has, PlaceInv, ResumedInv, FilterCandidates
  <2>2. /\ QueueInv' /\ OwnerInv'
        /\ \A m \in Lookup \ {l} : PlaceInv(m)'
        /\ at'[l] = "search" /\ genState'[l] = "not"
    BY <1>1, <1>2, <2>1, LeaveKeeps
  <2>3. PlaceInv(l)'
    BY <1>1, <2>2 DEF PlaceInv, ResumedInv, InDylib, InGenerator, Searching
  <2>4. QED
    BY <2>2, <2>3 DEF PlacesInv
<1>4. CASE ~ (genState[l] = "resumed" /\ cands'[l] = {})
  <2>1. at' = [at EXCEPT ![l] = "search"] /\ UNCHANGED <<inUse, queue, stack, genState>>
    BY <1>4 DEF FilterCandidates
  <2>2. Others(l) /\ at'[l] = "search"
    BY <1>0, <1>1, <1>2, <2>1 DEF Others, PlaceOf, GenTypes
  <2>3. PlaceInv(l)'
    BY <1>0, <1>1, <1>4, <2>1, <2>2
    DEF PlaceInv, ResumedInv, InDylib, InGenerator, Searching
  <2>4. Has(l)' => Has(l) /\ Top(l)' = Top(l)
    BY <1>1, <2>1 DEF Has, Top
  <2>5. QED
    BY <1>1, <2>1, <2>2, <2>3, <2>4, OwnStep
<1>5. QED
  BY <1>3, <1>4

LEMMA AfterKeeps ==
  ASSUME GenInv, NEW l \in Lookup, AfterGeneration(l)
  PROVE  PlacesInv' /\ QueueInv' /\ OwnerInv'
<1>0. GenTypes /\ PlaceInv(l)
  BY DEF GenInv, PlacesInv
<1>1. PICK p \in {"search", "visit", "refilter"} :
        /\ LeaveGenerator(l, p) /\ at[l] \in {"returned", "continued"}
        /\ p = "visit" \/ (p = "refilter" /\ ~ err[l])
  BY <1>0 DEF AfterGeneration, GenTypes
<1>2. UNCHANGED <<gone, index, entering, cands, err>>
  BY DEF AfterGeneration
<1>3. Has(l) /\ stack[l] # <<>> /\ at[l] # "queued" /\ Searching(l) /\ ~ entering[l]
  BY <1>0, <1>1 DEF Has, PlaceInv, InDylib, InGenerator
<1>4. /\ QueueInv' /\ OwnerInv'
      /\ \A m \in Lookup \ {l} : PlaceInv(m)'
      /\ at'[l] = p /\ genState'[l] = "not"
  BY <1>1, <1>2, <1>3, LeaveKeeps
<1>5. PlaceInv(l)'
  BY <1>1, <1>2, <1>3, <1>4 DEF PlaceInv, ResumedInv, InDylib, InGenerator, Searching
<1>6. QED
  BY <1>4, <1>5 DEF PlacesInv

\* The lookup joins the queue.
LEMMA WaitKeeps ==
  ASSUME GenInv, NEW l \in Lookup, WaitForGenerator(l)
  PROVE  PlacesInv' /\ QueueInv' /\ OwnerInv'
<1>0. GenTypes /\ PlaceInv(l) /\ PlacesInv /\ QueueInv /\ OwnerInv
  BY DEF GenInv, PlacesInv
<1>1. /\ at[l] = "search" /\ stack[l] # <<>> /\ cands[l] # {} /\ genState[l] = "not"
      /\ at' = [at EXCEPT ![l] = "queued"]
      /\ queue' = [queue EXCEPT ![Top(l)] = Append(@, l)]
      /\ UNCHANGED <<inUse, gone, index, entering, cands, stack, genState, err>>
      /\ Top(l) \in inUse
  BY DEF WaitForGenerator, MayGenerate, GoTo, progress
<1>2. PICK g \in Gen : g = Top(l)
  BY <1>0, <1>1, TopType
<1>3. /\ queue \in [Gen -> Seq(Lookup)] /\ at \in [Lookup -> Places]
      /\ \A h \in Gen : ToSet(queue[h]) \subseteq Lookup
  BY <1>0, ToSetOf DEF GenTypes
<1>4. l \notin ToSet(queue[g])
  BY <1>0, <1>1, <1>3 DEF QueueInv
<1>5. /\ Append(queue[g], l) \in Seq(Lookup)
      /\ ToSet(Append(queue[g], l)) = ToSet(queue[g]) \cup {l}
      /\ Distinct(Append(queue[g], l))
  <2>1. queue[g] \in Seq(Lookup) /\ Distinct(queue[g])
    BY <1>0, <1>3 DEF QueueInv
  <2>2. QED
    BY <1>4, <2>1, AppendTo
<1>6. at'[l] = "queued" /\ Others(l)
  BY <1>1, <1>3 DEF Others, PlaceOf
<1>7. \A m \in Lookup \ {l} : PlaceInv(m)' /\ Has(m)' = Has(m) /\ Top(m)' = Top(m)
                              /\ at'[m] = at[m]
  BY <1>0, <1>6, OthersKept DEF Others, PlaceOf
<1>8. PlaceInv(l)' /\ ~ Has(l)' /\ Top(l)' = g
  BY <1>0, <1>1, <1>2, <1>6
  DEF PlaceInv, ResumedInv, InDylib, InGenerator, Searching, Has, Top
<1>9. PlacesInv'
  BY <1>7, <1>8 DEF PlacesInv
<1>10. QueueInv'
  <2>1. \A k \in Gen : queue'[k] = IF k = g THEN Append(queue[g], l) ELSE queue[k]
    BY <1>1, <1>2, <1>3
  <2>2. \A k \in Gen : queue'[k] # <<>> => k \in inUse'
    BY <1>0, <1>1, <1>2, <2>1 DEF QueueInv
  <2>3. \A k \in Gen : Distinct(queue'[k])
    BY <1>0, <1>5, <2>1 DEF QueueInv
  <2>4. ASSUME NEW k \in Gen, NEW m \in ToSet(queue'[k])
        PROVE  at'[m] = "queued" /\ Top(m)' = k
    <3>1. CASE m = l
      BY <1>0, <1>1, <1>3, <1>5, <1>6, <1>8, <2>1, <2>4, <3>1 DEF QueueInv
    <3>2. CASE m # l
      BY <1>0, <1>3, <1>5, <1>7, <2>1, <2>4, <3>2 DEF QueueInv
    <3>3. QED
      BY <3>1, <3>2
  <2>5. ASSUME NEW m \in Lookup, at'[m] = "queued"
        PROVE  m \in ToSet(queue'[Top(m)'])
    <3>1. CASE m = l
      BY <1>2, <1>5, <1>8, <2>1, <3>1
    <3>2. CASE m # l
      <4>1. at[m] = "queued" /\ Top(m)' = Top(m) /\ m \in ToSet(queue[Top(m)])
        BY <1>0, <1>7, <2>5, <3>2 DEF QueueInv
      <4>2. Top(m) \in Gen
        <5>1. stack[m] # <<>>
          BY <1>0, <4>1 DEF PlacesInv, PlaceInv
        <5>2. QED
          BY <1>0, <5>1, TopType
      <4>3. QED
        BY <1>5, <2>1, <4>1, <4>2
    <3>3. QED
      BY <3>1, <3>2
  <2>6. QED
    BY <2>2, <2>3, <2>4, <2>5 DEF QueueInv
<1>11. OwnerInv'
  BY <1>0, <1>1, <1>7, <1>8 DEF OwnerInv
<1>12. QED
  BY <1>9, <1>10, <1>11

\* The lookup takes a generator that nobody has, or one that was handed to it.
LEMMA EnterKeeps ==
  ASSUME GenInv, NEW l \in Lookup, EnterGenerator(l)
  PROVE  PlacesInv' /\ QueueInv' /\ OwnerInv'
<1>0. GenTypes /\ PlaceInv(l) /\ PlacesInv /\ QueueInv /\ OwnerInv
  BY DEF GenInv, PlacesInv
<1>1. /\ at[l] = "search" /\ stack[l] # <<>> /\ Top(l) \notin gone
      /\ genState[l] = "resumed" \/ Top(l) \notin inUse
      /\ at' = [at EXCEPT ![l] = "generating"]
      /\ genState' = [genState EXCEPT ![l] = "in"]
      /\ inUse' = inUse \cup {Top(l)}
      /\ UNCHANGED <<queue, gone, index, entering, cands, stack, err>>
  BY DEF EnterGenerator, MayGenerate, GoTo, progress
<1>2. at'[l] = "generating" /\ genState'[l] = "in" /\ Others(l)
  BY <1>0, <1>1 DEF Others, PlaceOf, GenTypes
<1>3. \A m \in Lookup \ {l} : PlaceInv(m)' /\ Has(m)' = Has(m) /\ Top(m)' = Top(m)
                              /\ at'[m] = at[m]
  BY <1>0, <1>2, OthersKept DEF Others, PlaceOf
<1>4. PlaceInv(l)' /\ Top(l)' = Top(l)
  BY <1>0, <1>1, <1>2 DEF PlaceInv, ResumedInv, InDylib, InGenerator, Searching, Top
<1>5. \A m \in Lookup \ {l} : Has(m) => Top(m) # Top(l)
  BY <1>0, <1>1 DEF OwnerInv, Has
<1>6. OwnerInv'
  BY <1>0, <1>1, <1>3, <1>4, <1>5 DEF OwnerInv
<1>7. QueueInv'
  <2>1. \A g \in Gen : ToSet(queue[g]) \subseteq Lookup
    BY <1>0, ToSetOf DEF GenTypes
  <2>2. QED
    BY <1>0, <1>1, <1>2, <1>3, <2>1 DEF QueueInv
<1>8. QED
  BY <1>3, <1>4, <1>6, <1>7 DEF PlacesInv

\* The lookups that wait are turned away; a generator that is being destroyed is in
\* no lookup's hands but those that were handed it or took themselves away.
LEMMA DestroyKeeps ==
  ASSUME GenInv, NEW g \in Gen, DestroyGenerator(g)
  PROVE  PlacesInv' /\ QueueInv' /\ OwnerInv'
<1>0. GenTypes /\ PlacesInv /\ QueueInv /\ OwnerInv
  BY DEF GenInv
<1>1. /\ gone' = gone \cup {g} /\ inUse' = inUse \ {g}
      /\ queue' = [queue EXCEPT ![g] = <<>>]
      /\ at' = [l \in Lookup |-> IF l \in ToSet(queue[g]) THEN "visit" ELSE at[l]]
      /\ err' = [l \in Lookup |-> err[l] \/ l \in ToSet(queue[g])]
      /\ UNCHANGED <<index, entering, cands, stack, genState>>
  BY DEF DestroyGenerator, TurnedAway, progress
<1>2. /\ queue \in [Gen -> Seq(Lookup)]
      /\ at \in [Lookup -> Places] /\ err \in [Lookup -> BOOLEAN]
      /\ \A h \in Gen : ToSet(queue[h]) \subseteq Lookup
      /\ ToSet(<<>>) = {}
  BY <1>0, ToSetOf DEF GenTypes, ToSet
<1>3. \A l \in ToSet(queue[g]) : at[l] = "queued" /\ genState[l] = "not" /\ Top(l) = g
  BY <1>0, <1>2 DEF QueueInv, PlacesInv, PlaceInv
<1>4. \A l \in Lookup \ ToSet(queue[g]) : UNCHANGED PlaceOf(l)
  BY <1>1, <1>2 DEF PlaceOf
<1>5. \A l \in Lookup \ ToSet(queue[g]) :
        PlaceInv(l)' /\ Has(l)' = Has(l) /\ Top(l)' = Top(l) /\ at'[l] = at[l]
  BY <1>0, <1>4, OthersKept DEF PlaceOf
<1>6. ASSUME NEW l \in ToSet(queue[g])
      PROVE  PlaceInv(l)' /\ ~ Has(l)' /\ at'[l] = "visit"
  <2>1. /\ l \in Lookup /\ at'[l] = "visit" /\ genState'[l] = "not"
    BY <1>1, <1>2, <1>3, <1>6
  <2>2. QED
    BY <2>1 DEF PlaceInv, ResumedInv, InDylib, InGenerator, Has
<1>7. PlacesInv'
  BY <1>5, <1>6 DEF PlacesInv
<1>8. OwnerInv'
  BY <1>0, <1>1, <1>5, <1>6 DEF OwnerInv
<1>9. QueueInv'
  <2>1. \A k \in Gen : queue'[k] = IF k = g THEN <<>> ELSE queue[k]
    BY <1>1, <1>2
  <2>2. \A k \in Gen : queue'[k] # <<>> => k \in inUse'
    BY <1>0, <1>1, <2>1 DEF QueueInv
  <2>3. \A k \in Gen : Distinct(queue'[k])
    BY <1>0, <2>1 DEF QueueInv, Distinct
  <2>4. ASSUME NEW k \in Gen, NEW l \in ToSet(queue'[k])
        PROVE  at'[l] = "queued" /\ Top(l)' = k
    <3>1. k # g /\ l \in ToSet(queue[k]) /\ l \in Lookup
      BY <1>2, <2>1, <2>4
    <3>2. at[l] = "queued" /\ Top(l) = k /\ l \notin ToSet(queue[g])
      BY <1>0, <1>3, <3>1 DEF QueueInv
    <3>3. QED
      BY <1>5, <3>1, <3>2
  <2>5. ASSUME NEW l \in Lookup, at'[l] = "queued"
        PROVE  l \in ToSet(queue'[Top(l)'])
    <3>1. l \notin ToSet(queue[g])
      BY <1>6, <2>5
    <3>2. at[l] = "queued" /\ Top(l)' = Top(l) /\ l \in ToSet(queue[Top(l)])
      BY <1>0, <1>5, <2>5, <3>1 DEF QueueInv
    <3>3. Top(l) \in Gen
      <4>1. stack[l] # <<>>
        BY <1>0, <3>2 DEF PlacesInv, PlaceInv
      <4>2. QED
        BY <1>0, <4>1, TopType
    <3>4. QED
      BY <2>1, <3>1, <3>2, <3>3
  <2>6. QED
    BY <2>2, <2>3, <2>4, <2>5 DEF QueueInv
<1>10. QED
  BY <1>7, <1>8, <1>9

LEMMA LookupKeeps ==
  ASSUME GenInv, NEW l \in Lookup,
         StartLookup(l) \/ Phase1(l) \/ ContinueLookup(l) \/ RunTask(l)
  PROVE  PlacesInv' /\ QueueInv' /\ OwnerInv'
<1> USE DEF genVars, tables, progress, GoTo, End
<1> DEFINE Goal == PlacesInv' /\ QueueInv' /\ OwnerInv'
<1>0. GenTypes /\ PlaceInv(l)
  BY DEF GenInv, PlacesInv
<1>1. /\ at \in [Lookup -> Places] /\ stack \in [Lookup -> Seq(Gen)]
      /\ entering \in [Lookup -> BOOLEAN] /\ cands \in [Lookup -> SUBSET Name]
      /\ index \in [Lookup -> Nat] /\ err \in [Lookup -> BOOLEAN]
  BY <1>0 DEF GenTypes
<1>2. ASSUME at[l] # "queued", at'[l] # "queued", UNCHANGED <<inUse, queue, gone, genState>>,
             at' = [at EXCEPT ![l] = at'[l]], index' = [index EXCEPT ![l] = index'[l]],
             entering' = [entering EXCEPT ![l] = entering'[l]],
             cands' = [cands EXCEPT ![l] = cands'[l]],
             stack' = [stack EXCEPT ![l] = stack'[l]],
             err' = [err EXCEPT ![l] = err'[l]],
             Has(l)' => Has(l) /\ Top(l)' = Top(l),
             PlaceInv(l)'
      PROVE  Goal
  <2>1. Others(l)
    BY <1>1, <1>2 DEF Others, PlaceOf
  <2>2. QED
    BY <1>2, <2>1, OwnStep
<1> USE DEF PlaceInv, ResumedInv, InDylib, InGenerator, Searching, Has, Top
<1>3. CASE StartLookup(l)
  <2>1. at'[l] = "visit" /\ at[l] = "idle"
    BY <1>1, <1>3 DEF StartLookup
  <2>2. genState[l] = "not"
    BY <1>0, <2>1 DEF GenTypes
  <2>3. QED
    BY <1>0, <1>1, <1>2, <1>3, <2>1, <2>2 DEF StartLookup
<1>4. CASE EnterDylib(l)
  <2>1. genState[l] = "not"
    BY <1>0, <1>4 DEF EnterDylib, GenTypes
  <2>2. QED
    BY <1>0, <1>1, <1>2, <1>4, <2>1 DEF EnterDylib
<1>5. CASE FilterAfterGeneration(l)
  <2>1. at'[l] = "search" /\ at[l] = "refilter" /\ cands' = [cands EXCEPT ![l] = cands'[l]]
    BY <1>1, <1>5 DEF FilterAfterGeneration, UpdateCandidates
  <2>2. genState[l] = "not"
    BY <1>0, <2>1 DEF GenTypes
  <2>3. QED
    BY <1>0, <1>1, <1>2, <1>5, <2>1, <2>2 DEF FilterAfterGeneration
<1>6. CASE FilterFails(l) \/ FailWithError(l) \/ GeneratorRemoved(l) \/ CompletePhase1(l)
  <2>1. at'[l] = "done" /\ at[l] # "queued" /\ at' = [at EXCEPT ![l] = "done"]
        /\ UNCHANGED <<genVars, index, entering, cands, stack, genState, err>>
    BY <1>1, <1>6 DEF FilterFails, FailWithError, GeneratorRemoved, MayGenerate, CompletePhase1
  <2>2. PlaceInv(l)' /\ ~ Has(l)'
    BY <1>0, <2>1
  <2>3. QED
    BY <1>1, <1>2, <2>1, <2>2
<1>7. CASE GenerateInPlace(l) \/ ContinueLookup(l)
  <2>1. PICK p \in {"returned", "continued"} :
          /\ at[l] \in {"generating", "captured"}
          /\ at' = [at EXCEPT ![l] = p] /\ at'[l] = p
          /\ err' = [err EXCEPT ![l] = err'[l]]
          /\ UNCHANGED <<genVars, index, entering, cands, stack, genState>>
    BY <1>1, <1>7 DEF GenerateInPlace, ContinueLookup, Generate
  <2>2. PlaceInv(l)' /\ Has(l) /\ Top(l)' = Top(l)
    BY <1>0, <2>1
  <2>3. QED
    BY <1>1, <1>2, <2>1, <2>2
<1>8. CASE Capture(l) \/ RunTask(l)
  <2>1. /\ \/ at[l] = "generating" /\ at'[l] = "captured"
           \/ at[l] = "tasked" /\ at'[l] = "visit"
        /\ at' = [at EXCEPT ![l] = at'[l]]
        /\ UNCHANGED <<genVars, index, entering, cands, stack, genState, err>>
    BY <1>1, <1>8 DEF Capture, RunTask
  <2>2. PlaceInv(l)' /\ Has(l) /\ Top(l)' = Top(l)
    BY <1>0, <2>1
  <2>3. QED
    BY <1>1, <1>2, <2>1, <2>2
<1>9. CASE LeaveDylib(l)
  <2>1. at[l] = "search" /\ at' = [at EXCEPT ![l] = "visit"] /\ at'[l] = "visit"
        /\ index' = [index EXCEPT ![l] = index'[l]]
        /\ entering' = [entering EXCEPT ![l] = entering'[l]]
        /\ UNCHANGED <<genVars, cands, stack, genState, err>>
    BY <1>1, <1>9 DEF LeaveDylib
  <2>2. genState[l] = "not"
    BY <1>0, <1>9 DEF LeaveDylib, GenTypes
  <2>3. PlaceInv(l)' /\ ~ Has(l)'
    BY <1>0, <2>1, <2>2
  <2>4. QED
    BY <1>1, <1>2, <2>1, <2>3
<1>10. QED
  BY <1>3, <1>4, <1>5, <1>6, <1>7, <1>8, <1>9,
     FilterKeeps, AfterKeeps, WaitKeeps, EnterKeeps DEF Phase1

LEMMA OtherKeeps ==
  ASSUME GenInv,
         \/ \E g \in Gen : RemoveGenerator(g) \/ DestroyGenerator(g)
         \/ \E d \in Dylib, n \in Name : FailSymbol(d, n)
         \/ UNCHANGED genVarsAll
  PROVE  PlacesInv' /\ QueueInv' /\ OwnerInv'
<1>1. ASSUME NEW g \in Gen, DestroyGenerator(g)
      PROVE  PlacesInv' /\ QueueInv' /\ OwnerInv'
  BY <1>1, DestroyKeeps
<1>2. ASSUME UNCHANGED <<inUse, queue, gone, at, index, entering, cands, stack, genState, err>>
      PROVE  PlacesInv' /\ QueueInv' /\ OwnerInv'
  BY <1>2 DEF GenInv, PlacesInv, PlaceInv, ResumedInv, Searching, QueueInv, OwnerInv, Has, Top
<1>3. QED
  BY <1>1, <1>2 DEF RemoveGenerator, FailSymbol, genVarsAll, tables, genVars, lookVars, progress

LEMMA GenInvInit == GenInit => GenInv
<1> SUFFICES ASSUME GenInit PROVE GenInv
  OBVIOUS
<1>1. GenTypes
  <2>1. <<>> \in Seq(Lookup) /\ <<>> \in Seq(Gen) /\ "idle" \in Places
    BY DEF Places
  <2>2. \A l \in Lookup : 1 \in 1 .. Len(SearchOrder[l]) + 1
    BY GeneratorAssumption
  <2>3. QED
    BY <2>1, <2>2, GeneratorAssumption DEF GenTypes, GenInit
<1>2. PlacesInv
  BY DEF GenInit, PlacesInv, PlaceInv, ResumedInv, InDylib, InGenerator
<1>3. QueueInv
  BY DEF GenInit, QueueInv, Distinct, ToSet
<1>4. OwnerInv
  BY DEF GenInit, OwnerInv, Has
<1>5. QED
  BY <1>1, <1>2, <1>3, <1>4 DEF GenInv

LEMMA GenInvStep == GenInv /\ [GenNext]_genVarsAll => GenInv'
BY LookupTypes, OtherTypes, LookupKeeps, OtherKeeps DEF GenNext, AllDone, GenInv

LEMMA GenInvCorrect == GenSpec => []GenInv
BY GenInvInit, GenInvStep, PTL DEF GenSpec

\* Whatever resumes, fails or turns away lookups (OL_applyQueryPhase1,
\* OL_resumeLookupAfterGeneration, ~DefinitionGenerator), those that wait are those
\* in the queue of a generator in use: none waits where nobody will look for it.
THEOREM GenTypeCorrect == GenSpec => []GenTypeOK
<1>1. GenInv => GenTypeOK
  <2> SUFFICES ASSUME GenInv PROVE GenTypeOK
    OBVIOUS
  <2>1. ASSUME NEW l \in Lookup, at[l] = "queued"
        PROVE  \E g \in inUse : l \in ToSet(queue[g])
    <3>1. stack[l] # <<>> /\ l \in ToSet(queue[Top(l)])
      BY <2>1 DEF GenInv, PlacesInv, PlaceInv, QueueInv
    <3>2. Top(l) \in Gen
      BY <3>1, TopType DEF GenInv
    <3>3. queue[Top(l)] # <<>>
      BY <3>1 DEF ToSet
    <3>4. QED
      BY <3>1, <3>2, <3>3 DEF GenInv, QueueInv
  <2>2. ASSUME NEW l \in Lookup, NEW g \in inUse, l \in ToSet(queue[g])
        PROVE  at[l] = "queued"
    BY <2>2 DEF GenInv, GenTypes, QueueInv
  <2>3. QED
    BY <2>1, <2>2 DEF GenTypeOK, GenInv
<1>2. QED
  BY <1>1, GenInvCorrect, PTL

-----------------------------------------------------------------------------
(* A generator is a lock *)

\* What the refinement mapping says of one generator.
Holder(g) == {l \in Lookup : Has(l) /\ Top(l) = g}

Waiting(g) == ToSet(queue[g])

LEMMA LockSame ==
  ASSUME \A k \in Gen : Holder(k)' = Holder(k) /\ Waiting(k)' = Waiting(k)
  PROVE  UNCHANGED Lock!lockVars
BY DEF Lock!lockVars, Holder, Waiting, Has

LEMMA LockEnters ==
  ASSUME NEW h \in Gen, NEW x \in Lookup, Holder(h) = {}, Waiting(h) = {}, Holder(h)' = {x},
         \A k \in Gen \ {h} : Holder(k)' = Holder(k),
         \A k \in Gen : Waiting(k)' = Waiting(k)
  PROVE  Lock!Next
<1>1. Lock!Enter(h, x)
  BY DEF Lock!Enter, Holder, Waiting, Has
<1>2. QED
  BY <1>1 DEF Lock!Next

LEMMA LockWaits ==
  ASSUME NEW h \in Gen, NEW x \in Lookup, Holder(h) # {}, x \notin Holder(h) \cup Waiting(h),
         Waiting(h)' = Waiting(h) \cup {x},
         \A k \in Gen \ {h} : Waiting(k)' = Waiting(k),
         \A k \in Gen : Holder(k)' = Holder(k)
  PROVE  Lock!Next
<1>1. Lock!Wait(h, x)
  BY DEF Lock!Wait, Holder, Waiting, Has
<1>2. QED
  BY <1>1 DEF Lock!Next

LEMMA LockHandsOver ==
  ASSUME NEW h \in Gen, NEW x \in Lookup, x \in Waiting(h), Holder(h) # {}, Holder(h)' = {x},
         Waiting(h)' = Waiting(h) \ {x},
         \A k \in Gen \ {h} : Holder(k)' = Holder(k),
         \A k \in Gen \ {h} : Waiting(k)' = Waiting(k)
  PROVE  Lock!Next
<1> DEFINE holder == [k \in Gen |-> Holder(k)]
           waiting == [k \in Gen |-> Waiting(k)]
<1>1. holder' = [holder EXCEPT ![h] = {x}]
  OBVIOUS
<1>2. waiting' = [waiting EXCEPT ![h] = waiting[h] \ {x}]
  OBVIOUS
<1>3. holder[h] # {} /\ x \in waiting[h]
  OBVIOUS
<1>4. Lock!HandOver(h, x)
  BY <1>1, <1>2, <1>3 DEF Lock!HandOver, Holder, Waiting, Has
<1>5. QED
  BY <1>4 DEF Lock!Next

LEMMA LockIsLeft ==
  ASSUME NEW h \in Gen, Holder(h) # {}, Waiting(h) = {}, Holder(h)' = {},
         \A k \in Gen \ {h} : Holder(k)' = Holder(k),
         \A k \in Gen : Waiting(k)' = Waiting(k)
  PROVE  Lock!Next
<1>1. Lock!Leave(h)
  BY DEF Lock!Leave, Holder, Waiting, Has
<1>2. QED
  BY <1>1 DEF Lock!Next

LEMMA LockDestroyed ==
  ASSUME NEW h \in Gen, Waiting(h)' = {},
         \A k \in Gen \ {h} : Waiting(k)' = Waiting(k),
         \A k \in Gen : Holder(k)' = Holder(k)
  PROVE  Lock!Next
<1>1. Lock!Destroy(h)
  BY DEF Lock!Destroy, Holder, Waiting, Has
<1>2. QED
  BY <1>1 DEF Lock!Next

LockStep == InUseInv' /\ (Lock!Next \/ UNCHANGED Lock!lockVars)

\* Steps that the lock does not see.
LEMMA Unseen ==
  ASSUME GenInv, InUseInv, UNCHANGED <<inUse, queue>>,
         \A m \in Lookup : Has(m)' = Has(m), \A m \in Lookup : Has(m) => Top(m)' = Top(m)
  PROVE  LockStep
<1>1. \A k \in Gen : Holder(k)' = Holder(k)
  BY DEF Holder
<1>2. \A k \in Gen : Waiting(k)' = Waiting(k)
  BY DEF Waiting
<1>3. UNCHANGED Lock!lockVars
  BY <1>1, <1>2, LockSame
<1>4. InUseInv'
  BY DEF InUseInv
<1>5. QED
  BY <1>3, <1>4 DEF LockStep

\* A lookup leaves its generator.
LEMMA LeaveIsLeave ==
  ASSUME GenInv, InUseInv, NEW l \in Lookup, Has(l), at[l] # "queued", stack[l] # <<>>,
         NEW p \in {"search", "visit", "refilter"}, LeaveGenerator(l, p)
  PROVE  LockStep
<1>0. GenTypes /\ PlacesInv /\ QueueInv /\ OwnerInv
  BY DEF GenInv
<1>1. PICK g \in Gen : g = Top(l)
  BY <1>0, TopType
<1>2. /\ queue \in [Gen -> Seq(Lookup)] /\ at \in [Lookup -> Places]
      /\ genState \in [Lookup -> {"not", "resumed", "in"}]
      /\ stack \in [Lookup -> Seq(Gen)]
      /\ \A h \in Gen : ToSet(queue[h]) \subseteq Lookup
      /\ inUse \cap gone = {} /\ inUse \subseteq Gen
  BY <1>0, ToSetOf DEF GenTypes
<1>3. \A m \in Lookup : Has(m) /\ Top(m) = g <=> m = l
  BY <1>0, <1>1 DEF OwnerInv
<1>4. Holder(g) = {l}
  BY <1>3 DEF Holder
<1>5. CASE g \in gone \/ queue[g] = <<>>
  <2>1. /\ genState' = [genState EXCEPT ![l] = "not"] /\ at' = [at EXCEPT ![l] = p]
        /\ queue' = queue
        /\ stack' = [stack EXCEPT ![l] = stack'[l]]
        /\ inUse' \subseteq inUse \ {g}
    BY <1>0, <1>1, <1>2, <1>5 DEF LeaveGenerator, FreedIfNoneWait
  <2>2. Waiting(g) = {}
    BY <1>0, <1>2, <1>5, ToSetOf DEF QueueInv, Waiting
  <2>3. ~ Has(l)'
    BY <1>2, <2>1 DEF Has
  <2>4. \A m \in Lookup \ {l} : Has(m)' = Has(m) /\ Top(m)' = Top(m)
    BY <1>2, <2>1 DEF Has, Top
  <2>5. \A k \in Gen \ {g} : Holder(k)' = Holder(k)
    BY <1>3, <2>3, <2>4 DEF Holder
  <2>6. Holder(g)' = {}
    BY <1>3, <2>3, <2>4 DEF Holder
  <2>7. \A k \in Gen : Waiting(k)' = Waiting(k)
    BY <2>1 DEF Waiting
  <2>8. Lock!Next
    BY <1>4, <2>2, <2>5, <2>6, <2>7, LockIsLeft
  <2>9. InUseInv'
    BY <1>3, <2>1, <2>4 DEF InUseInv
  <2>10. QED
    BY <2>8, <2>9 DEF LockStep
<1>6. CASE g \notin gone /\ queue[g] # <<>>
  <2>1. PICK h \in Lookup : h = Head(queue[g])
    BY <1>2, <1>6
  <2>2. /\ Tail(queue[g]) \in Seq(Lookup) /\ h \in ToSet(queue[g])
        /\ ToSet(Tail(queue[g])) = ToSet(queue[g]) \ {h}
    BY <1>0, <1>2, <1>6, <2>1, TailOf DEF QueueInv
  <2>3. at[h] = "queued" /\ Top(h) = g /\ h # l /\ genState[h] = "not"
    BY <1>0, <1>6, <2>2 DEF QueueInv, PlacesInv, PlaceInv
  <2>4. /\ genState' = [genState EXCEPT ![l] = "not", ![h] = "resumed"]
        /\ at' = [at EXCEPT ![l] = p, ![h] = "tasked"]
        /\ queue' = [queue EXCEPT ![g] = Tail(@)]
        /\ stack' = [stack EXCEPT ![l] = Front(@)]
        /\ inUse' = inUse
    BY <1>1, <1>6, <2>1 DEF LeaveGenerator, FreedIfNoneWait
  <2>5. ~ Has(l)' /\ Has(h)' /\ Top(h)' = g /\ ~ Has(h)
    BY <1>2, <2>3, <2>4 DEF Has, Top
  <2>6. \A m \in Lookup \ {l, h} : Has(m)' = Has(m) /\ Top(m)' = Top(m)
    BY <1>2, <2>4 DEF Has, Top
  <2>7. \A k \in Gen \ {g} : Holder(k)' = Holder(k)
    BY <1>3, <2>5, <2>6 DEF Holder
  <2>8. Holder(g)' = {h}
    BY <1>3, <2>5, <2>6 DEF Holder
  <2>9. Waiting(g)' = Waiting(g) \ {h} /\ h \in Waiting(g)
    BY <1>2, <2>2, <2>4 DEF Waiting
  <2>10. \A k \in Gen \ {g} : Waiting(k)' = Waiting(k)
    BY <1>2, <2>4 DEF Waiting
  <2>11. Lock!Next
    BY <1>4, <2>7, <2>8, <2>9, <2>10, LockHandsOver
  <2>12. InUseInv'
    BY <1>3, <2>4, <2>5, <2>6 DEF InUseInv
  <2>13. QED
    BY <2>11, <2>12 DEF LockStep
<1>7. QED
  BY <1>5, <1>6

LEMMA WaitIsWait ==
  ASSUME GenInv, InUseInv, NEW l \in Lookup, WaitForGenerator(l)
  PROVE  LockStep
<1>0. GenTypes /\ PlaceInv(l) /\ QueueInv /\ OwnerInv
  BY DEF GenInv, PlacesInv
<1>1. /\ at[l] = "search" /\ stack[l] # <<>> /\ genState[l] = "not"
      /\ at' = [at EXCEPT ![l] = "queued"]
      /\ queue' = [queue EXCEPT ![Top(l)] = Append(@, l)]
      /\ UNCHANGED <<inUse, stack, genState>>
      /\ Top(l) \in inUse
  BY DEF WaitForGenerator, MayGenerate, GoTo, progress
<1>2. PICK g \in Gen : g = Top(l)
  BY <1>0, <1>1, TopType
<1>3. /\ queue \in [Gen -> Seq(Lookup)] /\ at \in [Lookup -> Places]
      /\ l \notin ToSet(queue[g])
  BY <1>0, <1>1 DEF GenTypes, QueueInv
<1>4. ToSet(Append(queue[g], l)) = ToSet(queue[g]) \cup {l}
  <2>1. queue[g] \in Seq(Lookup) /\ Distinct(queue[g])
    BY <1>0, <1>3 DEF QueueInv
  <2>2. QED
    BY <1>3, <2>1, AppendTo
<1>5. Waiting(g)' = Waiting(g) \cup {l} /\ \A k \in Gen \ {g} : Waiting(k)' = Waiting(k)
  BY <1>1, <1>2, <1>3, <1>4 DEF Waiting
<1>6. /\ \A m \in Lookup : Has(m)' = Has(m)
      /\ \A m \in Lookup : Top(m)' = Top(m)
  BY <1>1, <1>3 DEF Has, Top
<1>7. \A k \in Gen : Holder(k)' = Holder(k)
  BY <1>6 DEF Holder
<1>8. Holder(g) # {} /\ l \notin Holder(g) \cup Waiting(g)
  BY <1>1, <1>2, <1>3 DEF InUseInv, Holder, Waiting, Has
<1>9. Lock!Next
  BY <1>5, <1>7, <1>8, LockWaits
<1>10. InUseInv'
  BY <1>1, <1>6 DEF InUseInv
<1>11. QED
  BY <1>9, <1>10 DEF LockStep

LEMMA EnterIsEnter ==
  ASSUME GenInv, InUseInv, NEW l \in Lookup, EnterGenerator(l)
  PROVE  LockStep
<1>0. GenTypes /\ PlaceInv(l) /\ QueueInv /\ OwnerInv
  BY DEF GenInv, PlacesInv
<1>1. /\ at[l] = "search" /\ stack[l] # <<>> /\ Top(l) \notin gone
      /\ genState[l] = "resumed" \/ Top(l) \notin inUse
      /\ at' = [at EXCEPT ![l] = "generating"]
      /\ genState' = [genState EXCEPT ![l] = "in"]
      /\ inUse' = inUse \cup {Top(l)}
      /\ UNCHANGED <<queue, stack>>
  BY DEF EnterGenerator, MayGenerate, GoTo, progress
<1>2. PICK g \in Gen : g = Top(l)
  BY <1>0, <1>1, TopType
<1>3. /\ at'[l] = "generating" /\ genState'[l] = "in" /\ Has(l)' /\ Top(l)' = g
      /\ \A m \in Lookup \ {l} : Has(m)' = Has(m) /\ Top(m)' = Top(m)
  BY <1>0, <1>1, <1>2 DEF GenTypes, Has, Top
<1>4. \A k \in Gen : Waiting(k)' = Waiting(k)
  BY <1>1 DEF Waiting
<1>5. CASE genState[l] = "resumed"
  <2>1. Has(l) /\ g \in inUse
    BY <1>0, <1>1, <1>2, <1>5 DEF OwnerInv, Has
  <2>2. \A m \in Lookup : Has(m)' = Has(m)
    <3>1. Has(l)' = Has(l)
      BY <1>3, <2>1 DEF Has
    <3>2. QED
      BY <1>3, <3>1
  <2>3. \A m \in Lookup : Has(m) => Top(m)' = Top(m)
    BY <1>2, <1>3
  <2>4. UNCHANGED <<inUse, queue>>
    BY <1>1, <1>2, <2>1
  <2>5. QED
    BY <2>2, <2>3, <2>4, Unseen
<1>6. CASE g \notin inUse
  <2>1. \A m \in Lookup : ~ (Has(m) /\ Top(m) = g)
    BY <1>0, <1>1, <1>2, <1>6 DEF OwnerInv
  <2>2. Holder(g) = {} /\ Holder(g)' = {l}
    BY <1>3, <2>1 DEF Holder
  <2>3. \A k \in Gen \ {g} : Holder(k)' = Holder(k)
    BY <1>2, <1>3, <2>1 DEF Holder, Top
  <2>4. Waiting(g) = {}
    BY <1>0, <1>6, ToSetOf DEF QueueInv, Waiting, GenTypes
  <2>5. Lock!Next
    BY <1>4, <2>2, <2>3, <2>4, LockEnters
  <2>6. InUseInv'
    <3>1. ASSUME NEW k \in inUse', k # g
          PROVE  \E m \in Lookup : Has(m)' /\ Top(m)' = k
      <4>1. PICK m \in Lookup : Has(m) /\ Top(m) = k
        BY <1>1, <1>2, <3>1 DEF InUseInv
      <4>2. QED
        BY <1>2, <1>3, <4>1
    <3>2. QED
      BY <1>3, <3>1 DEF InUseInv
  <2>7. QED
    BY <2>5, <2>6 DEF LockStep
<1>7. QED
  BY <1>1, <1>2, <1>5, <1>6

LEMMA DestroyIsDestroy ==
  ASSUME GenInv, InUseInv, NEW g \in Gen, DestroyGenerator(g)
  PROVE  LockStep
<1>0. GenTypes /\ PlacesInv /\ QueueInv /\ OwnerInv
  BY DEF GenInv
<1>1. /\ inUse' = inUse \ {g}
      /\ queue' = [queue EXCEPT ![g] = <<>>]
      /\ at' = [l \in Lookup |-> IF l \in ToSet(queue[g]) THEN "visit" ELSE at[l]]
      /\ UNCHANGED <<stack, genState>>
  BY DEF DestroyGenerator, TurnedAway, progress
<1>2. queue \in [Gen -> Seq(Lookup)] /\ ToSet(queue[g]) \subseteq Lookup
  BY <1>0, ToSetOf DEF GenTypes
<1>3. \A l \in ToSet(queue[g]) : at[l] = "queued" /\ genState[l] = "not"
  BY <1>0, <1>2 DEF QueueInv, PlacesInv, PlaceInv
<1>4. \A l \in Lookup : Has(l)' = Has(l)
  BY <1>1, <1>3 DEF Has
<1>5. \A l \in Lookup : Top(l)' = Top(l)
  BY <1>1 DEF Top
<1>6. \A k \in Gen : Holder(k)' = Holder(k)
  BY <1>4, <1>5 DEF Holder
<1>7. Waiting(g)' = {} /\ \A k \in Gen \ {g} : Waiting(k)' = Waiting(k)
  BY <1>1, <1>2 DEF Waiting, ToSet
<1>8. Lock!Next
  BY <1>6, <1>7, LockDestroyed
<1>9. InUseInv'
  BY <1>1, <1>4, <1>5 DEF InUseInv
<1>10. QED
  BY <1>8, <1>9 DEF LockStep

\* A lookup that finds its generator destroyed ends; it is let go of.
LEMMA RemovedIsLeave ==
  ASSUME GenInv, InUseInv, NEW l \in Lookup, GeneratorRemoved(l)
  PROVE  LockStep
<1>0. GenTypes /\ PlacesInv /\ QueueInv /\ OwnerInv
  BY DEF GenInv
<1>1. /\ at[l] = "search" /\ stack[l] # <<>> /\ Top(l) \in gone
      /\ at' = [at EXCEPT ![l] = "done"]
      /\ UNCHANGED <<inUse, queue, stack, genState>>
  BY DEF GeneratorRemoved, MayGenerate, End, genVars, progress
<1>2. PICK g \in Gen : g = Top(l)
  BY <1>0, <1>1, TopType
<1>3. /\ ~ Has(l)'
      /\ \A m \in Lookup \ {l} : Has(m)' = Has(m) /\ Top(m)' = Top(m)
  BY <1>0, <1>1 DEF GenTypes, Has, Top
<1>4. g \notin inUse
  BY <1>0, <1>1, <1>2 DEF GenTypes
<1>5. InUseInv'
  <2>1. ASSUME NEW k \in inUse'
        PROVE  \E m \in Lookup : Has(m)' /\ Top(m)' = k
    <3>1. PICK m \in Lookup : Has(m) /\ Top(m) = k
      BY <1>1, <2>1 DEF InUseInv
    <3>2. QED
      BY <1>1, <1>2, <1>3, <1>4, <2>1, <3>1
  <2>2. QED
    BY <2>1 DEF InUseInv
<1>6. CASE Has(l)
  <2>1. \A m \in Lookup : Has(m) /\ Top(m) = g <=> m = l
    BY <1>0, <1>2, <1>6 DEF OwnerInv
  <2>2. Holder(g) = {l} /\ Holder(g)' = {}
    BY <1>3, <2>1 DEF Holder
  <2>3. \A k \in Gen \ {g} : Holder(k)' = Holder(k)
    BY <1>3, <2>1 DEF Holder
  <2>4. Waiting(g) = {}
    BY <1>0, <1>4, ToSetOf DEF QueueInv, Waiting, GenTypes
  <2>5. \A k \in Gen : Waiting(k)' = Waiting(k)
    BY <1>1 DEF Waiting
  <2>6. Lock!Next
    BY <2>2, <2>3, <2>4, <2>5, LockIsLeft
  <2>7. QED
    BY <1>5, <2>6 DEF LockStep
<1>7. CASE ~ Has(l)
  <2>1. \A m \in Lookup : Has(m)' = Has(m)
    <3>1. Has(l)' = Has(l)
      BY <1>3, <1>7 DEF Has
    <3>2. QED
      BY <1>3, <3>1
  <2>2. \A m \in Lookup : Has(m) => Top(m)' = Top(m)
    BY <1>3, <1>7
  <2>3. UNCHANGED <<inUse, queue>>
    BY <1>1
  <2>4. QED
    BY <2>1, <2>2, <2>3, Unseen
<1>8. QED
  BY <1>6, <1>7

LEMMA LookupSteps ==
  ASSUME GenInv, InUseInv, ResumedUnharmed, NEW l \in Lookup,
         StartLookup(l) \/ Phase1(l) \/ ContinueLookup(l) \/ RunTask(l)
  PROVE  LockStep
<1> USE DEF genVars, tables, progress, GoTo, End
<1>0. GenTypes /\ PlaceInv(l)
  BY DEF GenInv, PlacesInv
<1>1. at \in [Lookup -> Places] /\ stack \in [Lookup -> Seq(Gen)]
      /\ genState \in [Lookup -> {"not", "resumed", "in"}]
  BY <1>0 DEF GenTypes
\* The lookup has no generator, before or after, ...
<1>2. ASSUME genState[l] = "not", UNCHANGED <<inUse, queue, genState>>,
             at' = [at EXCEPT ![l] = at'[l]], stack' = [stack EXCEPT ![l] = stack'[l]]
      PROVE  LockStep
  <2>1. \A m \in Lookup : Has(m)' = Has(m)
    BY <1>1, <1>2 DEF Has
  <2>2. \A m \in Lookup : Has(m) => Top(m)' = Top(m)
    BY <1>1, <1>2 DEF Has, Top
  <2>3. QED
    BY <1>2, <2>1, <2>2, Unseen
\* ... or keeps the one it has.
<1>3. ASSUME at[l] # "done", at'[l] # "done", UNCHANGED <<inUse, queue, genState, stack>>,
             at' = [at EXCEPT ![l] = at'[l]]
      PROVE  LockStep
  <2>1. \A m \in Lookup : Has(m)' = Has(m)
    BY <1>1, <1>3 DEF Has
  <2>2. \A m \in Lookup : Has(m) => Top(m)' = Top(m)
    BY <1>3 DEF Top
  <2>3. QED
    BY <1>3, <2>1, <2>2, Unseen
<1>4. CASE StartLookup(l) \/ FilterAfterGeneration(l) \/ GenerateInPlace(l)
           \/ ContinueLookup(l) \/ Capture(l) \/ RunTask(l) \/ LeaveDylib(l)
  <2>1. at[l] # "done" /\ at' = [at EXCEPT ![l] = at'[l]] /\ at'[l] # "done"
    BY <1>1, <1>4
    DEF StartLookup, FilterAfterGeneration, GenerateInPlace, ContinueLookup, Generate,
        Capture, RunTask, LeaveDylib
  <2>2. UNCHANGED <<inUse, queue, genState, stack>>
    BY <1>4
    DEF StartLookup, FilterAfterGeneration, GenerateInPlace, ContinueLookup, Generate,
        Capture, RunTask, LeaveDylib
  <2>3. QED
    BY <1>3, <2>1, <2>2
<1>5. CASE EnterDylib(l)
  <2>1. genState[l] = "not"
    BY <1>0, <1>1, <1>5 DEF EnterDylib, PlaceInv, ResumedInv, InGenerator
  <2>2. QED
    BY <1>1, <1>2, <1>5, <2>1 DEF EnterDylib
<1>6. CASE FilterCandidates(l)
  <2>1. CASE genState[l] = "resumed" /\ cands'[l] = {}
    <3>1. Has(l) /\ stack[l] # <<>> /\ at[l] # "queued" /\ LeaveGenerator(l, "search")
      BY <1>0, <1>6, <2>1 DEF Has, PlaceInv, ResumedInv, FilterCandidates
    <3>2. QED
      BY <3>1, LeaveIsLeave
  <2>2. CASE ~ (genState[l] = "resumed" /\ cands'[l] = {})
    <3>1. at[l] = "visit" /\ at' = [at EXCEPT ![l] = "search"]
          /\ UNCHANGED <<inUse, queue, genState, stack>>
      BY <1>6, <2>2 DEF FilterCandidates
    <3>2. QED
      BY <1>1, <1>3, <3>1
  <2>3. QED
    BY <2>1, <2>2
<1>7. CASE FilterFails(l) \/ FailWithError(l) \/ CompletePhase1(l)
  <2>1. genState[l] = "not"
    BY <1>0, <1>1, <1>7
    DEF FilterFails, FailWithError, CompletePhase1, PlaceInv, ResumedInv, InGenerator,
        ResumedUnharmed
  <2>2. at' = [at EXCEPT ![l] = at'[l]] /\ UNCHANGED <<inUse, queue, genState, stack>>
    BY <1>1, <1>7 DEF FilterFails, FailWithError, CompletePhase1
  <2>3. QED
    BY <1>1, <1>2, <2>1, <2>2
<1>8. CASE AfterGeneration(l)
  <2>1. PICK p \in {"search", "visit", "refilter"} :
          LeaveGenerator(l, p) /\ at[l] \in {"returned", "continued"}
    BY <1>8 DEF AfterGeneration
  <2>2. Has(l) /\ stack[l] # <<>> /\ at[l] # "queued"
    BY <1>0, <2>1 DEF Has, PlaceInv, InGenerator
  <2>3. QED
    BY <2>1, <2>2, LeaveIsLeave
<1>9. QED
  BY <1>4, <1>5, <1>6, <1>7, <1>8, WaitIsWait, EnterIsEnter, RemovedIsLeave DEF Phase1

LEMMA StepsImplementLock ==
  GenInv /\ InUseInv /\ ResumedUnharmed /\ [GenNext]_genVarsAll => LockStep
<1> SUFFICES ASSUME GenInv, InUseInv, ResumedUnharmed, [GenNext]_genVarsAll
             PROVE  LockStep
  OBVIOUS
<1>1. ASSUME UNCHANGED <<inUse, queue, at, stack, genState>>
      PROVE  LockStep
  <2>1. \A m \in Lookup : Has(m)' = Has(m)
    BY <1>1 DEF Has
  <2>2. \A m \in Lookup : Has(m) => Top(m)' = Top(m)
    BY <1>1 DEF Top
  <2>3. QED
    BY <1>1, <2>1, <2>2, Unseen
<1>2. ASSUME \/ \E g \in Gen : RemoveGenerator(g)
             \/ \E d \in Dylib, n \in Name : FailSymbol(d, n)
             \/ UNCHANGED genVarsAll
      PROVE  LockStep
  BY <1>1, <1>2
  DEF RemoveGenerator, FailSymbol, genVarsAll, genVars, lookVars, progress
<1>3. QED
  BY <1>2, LookupSteps, DestroyIsDestroy DEF GenNext, AllDone

LEMMA InitImplementsLock == GenInit => Lock!Init /\ InUseInv
BY DEF GenInit, Lock!Init, InUseInv, ToSet

\* InUse, PendingLookups and the tasks that hand a generator over are a lock with a
\* queue, in every run in which no resumed lookup fails on a symbol before it reaches
\* the generator it was handed (then it keeps the generator for ever: the finding of
\* MCGenStuck): one lookup at a time runs a generator, none waits for a free one, and
\* the one that leaves lets the next one in.
THEOREM GeneratorsImplementLock == GenSpec /\ []ResumedUnharmed => GeneratorIsLock
<1>1. GenInit => Lock!Init /\ InUseInv
  BY InitImplementsLock
<1>2. GenInv /\ InUseInv /\ ResumedUnharmed /\ [GenNext]_genVarsAll
        => InUseInv' /\ [Lock!Next]_(Lock!lockVars)
  BY StepsImplementLock DEF LockStep
<1>3. QED
  BY <1>1, <1>2, GenInvCorrect, PTL DEF GenSpec, GeneratorIsLock, Lock!Spec

\* Only definitions that may fail to materialize are ever in the error state.
LEMMA ErrorsFallible == GenSpec => [](errors \subseteq Fallible)
<1>1. GenInit => errors \subseteq Fallible
  BY DEF GenInit
<1>2. errors \subseteq Fallible /\ [GenNext]_genVarsAll => (errors \subseteq Fallible)'
  <2> SUFFICES ASSUME errors \subseteq Fallible, [GenNext]_genVarsAll
               PROVE  errors' \subseteq Fallible
    OBVIOUS
  <2>1. ASSUME NEW l \in Lookup,
               StartLookup(l) \/ Phase1(l) \/ ContinueLookup(l) \/ RunTask(l)
        PROVE  errors' = errors
    BY <2>1
    DEF tables, StartLookup, Phase1, ContinueLookup, RunTask, EnterDylib, FilterCandidates,
        FilterAfterGeneration, FilterFails, FailWithError, GeneratorRemoved, WaitForGenerator,
        EnterGenerator, GenerateInPlace, Generate, Capture, AfterGeneration, LeaveDylib,
        CompletePhase1
  <2>2. ASSUME NEW d \in Dylib, NEW n \in Name, FailSymbol(d, n)
        PROVE  errors' \subseteq Fallible
    BY <2>2 DEF FailSymbol
  <2>3. ASSUME \/ \E g \in Gen : RemoveGenerator(g) \/ DestroyGenerator(g)
               \/ UNCHANGED genVarsAll
        PROVE  errors' = errors
    BY <2>3 DEF RemoveGenerator, DestroyGenerator, genVarsAll, tables
  <2>4. QED
    BY <2>1, <2>2, <2>3 DEF GenNext, AllDone
<1>3. QED
  BY <1>1, <1>2, PTL DEF GenSpec

\* Where every definition can be materialized, the lock needs no hypothesis.
THEOREM UnfailingImplementsLock ==
  ASSUME Fallible = {}
  PROVE  GenSpec => GeneratorIsLock
<1>1. errors \subseteq Fallible => ResumedUnharmed
  BY DEF ResumedUnharmed, InErrorHere
<1>2. QED
  BY <1>1, ErrorsFallible, GeneratorsImplementLock, PTL

-----------------------------------------------------------------------------
(* Missing symbols *)

\* What the promise rests on: a JITDylib with hidden symbols keeps a generator, so
\* that the candidates it hides are kept for the next one, and none of its generators
\* is for a symbol it hides.
HiddenAssumption ==
  /\ \A d \in Dylib, n \in Name : <<d, n>> \in Hidden =>
       \E g \in ToSet(DefGenerators[d]) : g \notin Removable
  /\ \A d \in Dylib : \A g \in ToSet(DefGenerators[d]) : \A n \in Makes[g] :
       <<d, n>> \notin Hidden

\* What was loaded stays; generators go only when they are removed.
KeptInv ==
  /\ Loaded \subseteq symbols
  /\ \A d \in Dylib : /\ ToSet(gens[d]) \subseteq ToSet(DefGenerators[d])
                      /\ ToSet(DefGenerators[d]) \ Removable \subseteq ToSet(gens[d])

\* A name that the lookup still looks for was offered by no JITDylib it has left; one
\* that it looks for no more is defined.
LeftInv(l) ==
  /\ cands[l] \cup nonCands[l] \subseteq LookupSet[l]
  /\ \A n \in LookupSet[l] \ (cands[l] \cup nonCands[l]) : Definers(l, n) # {}
  /\ \A n \in cands[l] \cup nonCands[l], i \in 1 .. Len(SearchOrder[l]) :
       i < index[l] => ~ Offers(SearchOrder[l][i], n)

\* In a JITDylib: what is set aside is hidden there; a generator that could make a
\* candidate is still to be run, or has just made it, or has failed.
HereInv(l) ==
  at[l] # "done" /\ Searching(l) /\ ~ entering[l] =>
    /\ \A n \in nonCands[l] : <<Here(l), n>> \in Hidden
    /\ \A n \in cands[l] : \A g \in ToSet(gens[Here(l)]) : n \in Makes[g] =>
         \/ g \in ToSet(stack[l])
         \/ at[l] \in {"visit", "refilter"} /\ (<<Here(l), n>> \in symbols \/ err[l])
    /\ at[l] \in {"returned", "continued"} =>
         \A n \in cands[l] \cap Makes[Top(l)] : <<Here(l), n>> \in symbols \/ err[l]
    /\ at[l] = "search" => \A n \in cands[l] : <<Here(l), n>> \notin Loaded

SearchInv == \A l \in Lookup : LeftInv(l) /\ HereInv(l)

\* No step takes a definition away, or offers more.
Monotone ==
  /\ symbols \subseteq symbols'
  /\ \A d \in Dylib : ToSet(gens'[d]) \subseteq ToSet(gens[d])

LEMMA RemoveAtSet ==
  ASSUME NEW S, NEW s \in Seq(S), NEW i \in DOMAIN s
  PROVE  /\ ToSet(RemoveAt(s, i)) \subseteq ToSet(s)
         /\ ToSet(s) \ {s[i]} \subseteq ToSet(RemoveAt(s, i))
<1> DEFINE u == SubSeq(s, 1, i-1)
           v == SubSeq(s, i+1, Len(s))
<1>1. /\ u \in Seq(S) /\ Len(u) = i - 1 /\ \A k \in 1 .. i - 1 : u[k] = s[k]
      /\ v \in Seq(S) /\ Len(v) = Len(s) - i /\ \A k \in 1 .. Len(s) - i : v[k] = s[i + k]
      /\ Len(s) \in Nat /\ i \in 1 .. Len(s)
  OBVIOUS
<1> DEFINE t == u \o v
<1> HIDE DEF u, v
<1>2. /\ Len(t) = Len(s) - 1
      /\ \A k \in 1 .. Len(s) - 1 : t[k] = IF k < i THEN s[k] ELSE s[k + 1]
  BY <1>1
<1>3. t = RemoveAt(s, i) /\ DOMAIN t = 1 .. Len(t)
  BY <1>1 DEF RemoveAt, u, v
<1> HIDE DEF t
<1>4. ASSUME NEW e \in ToSet(t)
      PROVE  e \in ToSet(s)
  <2>1. PICK k \in 1 .. Len(s) - 1 : t[k] = e
    BY <1>1, <1>2, <1>3 DEF ToSet
  <2>2. PICK j \in 1 .. Len(s) : e = s[j]
    BY <1>1, <1>2, <2>1
  <2>3. QED
    BY <2>2 DEF ToSet
<1>5. ASSUME NEW e \in ToSet(s), e # s[i]
      PROVE  e \in ToSet(t)
  <2>1. PICK j \in 1 .. Len(s) : e = s[j]
    BY DEF ToSet
  <2>2. PICK k \in 1 .. Len(s) - 1 : e = t[k]
    <3>1. CASE j < i
      BY <1>1, <1>2, <2>1, <3>1
    <3>2. CASE j > i
      <4>1. j - 1 \in 1 .. Len(s) - 1 /\ ~ (j - 1 < i) /\ (j - 1) + 1 = j
        BY <1>1, <2>1, <3>2
      <4>2. QED
        BY <1>2, <2>1, <4>1
    <3>3. QED
      BY <1>1, <1>5, <2>1, <3>1, <3>2
  <2>3. QED
    BY <1>2, <1>3, <2>2 DEF ToSet
<1>6. QED
  BY <1>3, <1>4, <1>5

LEMMA GensStep ==
  ASSUME GenInv, KeptInv, NEW g \in Gen, RemoveGenerator(g)
  PROVE  KeptInv' /\ Monotone
<1>0. PICK d \in Dylib : \E i \in DOMAIN gens[d] :
        gens[d][i] = g /\ gens' = [gens EXCEPT ![d] = RemoveAt(@, i)]
  BY DEF RemoveGenerator
<1>1. PICK i \in DOMAIN gens[d] :
        gens[d][i] = g /\ gens' = [gens EXCEPT ![d] = RemoveAt(@, i)]
  BY <1>0
<1>2. gens \in [Dylib -> Seq(Gen)]
  BY DEF GenInv, GenTypes
<1>3. /\ ToSet(RemoveAt(gens[d], i)) \subseteq ToSet(gens[d])
      /\ ToSet(gens[d]) \ {g} \subseteq ToSet(RemoveAt(gens[d], i))
  BY <1>1, <1>2, RemoveAtSet
<1>4. \A k \in Dylib : /\ ToSet(gens'[k]) \subseteq ToSet(gens[k])
                       /\ ToSet(gens[k]) \ {g} \subseteq ToSet(gens'[k])
  BY <1>1, <1>2, <1>3
<1>5. g \in Removable /\ symbols' = symbols
  BY DEF RemoveGenerator, tables
<1>6. QED
  BY <1>4, <1>5 DEF KeptInv, Monotone

LEMMA KeptStep ==
  ASSUME GenInv, KeptInv, [GenNext]_genVarsAll
  PROVE  KeptInv' /\ Monotone
<1> USE DEF tables, genVars
<1>1. ASSUME symbols \subseteq symbols', gens' = gens
      PROVE  KeptInv' /\ Monotone
  BY <1>1 DEF KeptInv, Monotone
<1>2. ASSUME NEW l \in Lookup,
             StartLookup(l) \/ Phase1(l) \/ ContinueLookup(l) \/ RunTask(l)
      PROVE  symbols \subseteq symbols' /\ gens' = gens
  BY <1>2
  DEF StartLookup, Phase1, ContinueLookup, RunTask, EnterDylib, FilterCandidates,
      FilterAfterGeneration, FilterFails, FailWithError, GeneratorRemoved, WaitForGenerator,
      EnterGenerator, GenerateInPlace, Generate, Capture, AfterGeneration, LeaveDylib,
      CompletePhase1
<1>3. ASSUME \/ \E g \in Gen : DestroyGenerator(g)
             \/ \E d \in Dylib, n \in Name : FailSymbol(d, n)
             \/ UNCHANGED genVarsAll
      PROVE  symbols \subseteq symbols' /\ gens' = gens
  BY <1>3 DEF FailSymbol, DestroyGenerator, genVarsAll
<1>4. QED
  BY <1>1, <1>2, <1>3, GensStep DEF GenNext, AllDone

LEMMA StillNotOffered ==
  ASSUME Monotone, NEW CONSTANT d \in Dylib, NEW CONSTANT n, ~ Offers(d, n)
  PROVE  ~ Offers(d, n)'
BY DEF Monotone, Offers

\* A lookup that stays where it was, ends, or goes on without a change to what it
\* looks for.
LEMMA QuietStep ==
  ASSUME GenInv, Monotone, NEW m \in Lookup, LeftInv(m), HereInv(m),
         UNCHANGED <<index[m], entering[m], cands[m], nonCands[m], stack[m]>>,
         \/ at'[m] = at[m]
         \/ at'[m] = "done"
         \/ /\ at[m] \notin {"visit", "refilter", "done"}
            /\ at'[m] \notin {"returned", "continued", "search"},
         err[m] => err'[m]
  PROVE  LeftInv(m)' /\ HereInv(m)'
<1>1. SearchOrder[m] \in Seq(Dylib)
  BY GeneratorAssumption
<1>2. LeftInv(m)'
  <2>1. \A n \in LookupSet[m] : Definers(m, n) # {} => Definers(m, n)' # {}
    BY DEF Definers, Monotone
  <2>2. ASSUME NEW n \in cands[m] \cup nonCands[m], NEW i \in 1 .. Len(SearchOrder[m]),
               i < index[m]
        PROVE  ~ Offers(SearchOrder[m][i], n)'
    <3>1. SearchOrder[m][i] \in Dylib /\ ~ Offers(SearchOrder[m][i], n)
      BY <1>1, <2>2 DEF LeftInv
    <3>2. QED
      BY <3>1, StillNotOffered
  <2>3. QED
    BY <2>1, <2>2 DEF LeftInv
<1>3. HereInv(m)'
  <2> SUFFICES ASSUME at'[m] # "done", Searching(m), ~ entering[m]
               PROVE  HereInv(m)'
    BY DEF HereInv, Searching
  <2>1. Here(m) \in Dylib /\ Here(m)' = Here(m)
    BY HereType DEF GenInv, Here
  <2>2. ToSet(gens'[Here(m)]) \subseteq ToSet(gens[Here(m)]) /\ symbols \subseteq symbols'
    BY <2>1 DEF Monotone
  <2>3. at[m] # "done"
    OBVIOUS
  <2>4. \A n \in nonCands'[m] : <<Here(m)', n>> \in Hidden
    BY <2>1, <2>3 DEF HereInv
  <2>5. \A n \in cands'[m] : \A g \in ToSet(gens'[Here(m)']) : n \in Makes[g] =>
          \/ g \in ToSet(stack'[m])
          \/ at'[m] \in {"visit", "refilter"} /\ (<<Here(m)', n>> \in symbols' \/ err'[m])
    BY <2>1, <2>2, <2>3 DEF HereInv
  <2>6. at'[m] \in {"returned", "continued"} =>
          \A n \in cands'[m] \cap Makes[Top(m)'] : <<Here(m)', n>> \in symbols' \/ err'[m]
    BY <2>1, <2>2, <2>3 DEF HereInv, Top
  <2>7. at'[m] = "search" => \A n \in cands'[m] : <<Here(m)', n>> \notin Loaded
    BY <2>1, <2>3 DEF HereInv
  <2>8. QED
    BY <2>4, <2>5, <2>6, <2>7 DEF HereInv
<1>4. QED
  BY <1>2, <1>3

\* IL_updateCandidatesFor: what is no candidate any more is found or set aside.
LEMMA FilterSearch ==
  ASSUME GenInv, KeptInv, HiddenAssumption, NEW l \in Lookup, LeftInv(l), HereInv(l),
         Searching(l), ~ entering[l], ~ err[l], at[l] \in {"visit", "refilter"},
         UpdateCandidates(l), at'[l] = "search",
         UNCHANGED <<symbols, gens, index, entering>>,
         stack'[l] = stack[l] \/ cands'[l] = {}
  PROVE  LeftInv(l)' /\ HereInv(l)'
<1>1. /\ cands \in [Lookup -> SUBSET Name] /\ nonCands \in [Lookup -> SUBSET Name]
      /\ SearchOrder[l] \in Seq(Dylib) /\ index[l] \in 1 .. Len(SearchOrder[l])
      /\ symbols \subseteq Dylib \X Name
  BY GeneratorAssumption DEF GenInv, GenTypes, Searching
<1>2. Here(l) \in Dylib /\ Here(l) \in ToSet(SearchOrder[l]) /\ Here(l)' = Here(l)
  BY <1>1 DEF Here, ToSet
<1>3. PICK d \in Dylib : d = Here(l)
  BY <1>2
<1>4. /\ cands'[l] = {n \in cands[l] : <<d, n>> \notin symbols}
      /\ nonCands'[l] = nonCands[l] \cup SetAside(l)
  BY <1>1, <1>3 DEF UpdateCandidates, HiddenHere, FoundHere
<1>5. \A n \in cands[l] : <<d, n>> \in symbols \cap Hidden => n \in SetAside(l)
  <2>1. ASSUME NEW n \in cands[l], <<d, n>> \in symbols \cap Hidden
        PROVE  gens[d] # <<>>
    <3>1. PICK g \in ToSet(DefGenerators[d]) : g \notin Removable
      BY <1>1, <2>1 DEF HiddenAssumption
    <3>2. g \in ToSet(gens[d])
      BY <3>1 DEF KeptInv
    <3>3. QED
      BY <3>2 DEF ToSet
  <2>2. QED
    BY <1>3, <2>1 DEF SetAside, HiddenHere
<1>6. SetAside(l) \subseteq {n \in cands[l] : <<d, n>> \in Hidden}
  BY <1>3 DEF SetAside, HiddenHere
<1>7. LeftInv(l)'
  <2>1. cands'[l] \cup nonCands'[l] \subseteq cands[l] \cup nonCands[l]
    BY <1>4, <1>6
  <2>2. ASSUME NEW n \in LookupSet[l] \ (cands'[l] \cup nonCands'[l])
        PROVE  Definers(l, n)' # {}
    <3>1. CASE n \in cands[l] \cup nonCands[l]
      <4>1. d \in ToSet(SearchOrder[l]) /\ <<d, n>> \in symbols \ Hidden
        BY <1>2, <1>3, <1>4, <1>5, <2>2, <3>1
      <4>2. QED
        BY <4>1 DEF Definers
    <3>2. CASE n \notin cands[l] \cup nonCands[l]
      BY <2>2, <3>2 DEF LeftInv, Definers
    <3>3. QED
      BY <3>1, <3>2
  <2>3. \A n \in cands'[l] \cup nonCands'[l], i \in 1 .. Len(SearchOrder[l]) :
          i < index'[l] => ~ Offers(SearchOrder[l][i], n)'
    BY <2>1 DEF LeftInv, Offers
  <2>4. cands'[l] \cup nonCands'[l] \subseteq LookupSet[l]
    BY <2>1 DEF LeftInv
  <2>5. QED
    BY <2>2, <2>3, <2>4 DEF LeftInv
<1>8. HereInv(l)'
  <2>1. \A n \in nonCands'[l] : <<Here(l)', n>> \in Hidden
    BY <1>2, <1>3, <1>4, <1>6 DEF HereInv
  <2>2. \A n \in cands'[l] : \A g \in ToSet(gens'[Here(l)']) : n \in Makes[g] =>
          g \in ToSet(stack'[l])
    BY <1>2, <1>3, <1>4 DEF HereInv
  <2>3. \A n \in cands'[l] : <<Here(l)', n>> \notin Loaded
    BY <1>2, <1>3, <1>4 DEF KeptInv
  <2>4. QED
    BY <2>1, <2>2, <2>3 DEF HereInv
<1>9. QED
  BY <1>7, <1>8

LEMMA ReverseSet ==
  ASSUME NEW S, NEW s \in Seq(S), NEW t \in Seq(S)
  PROVE  ToSet(s \o Reverse(t)) = ToSet(s) \cup ToSet(t)
<1> DEFINE u == Reverse(t)
<1>1. /\ u \in Seq(S) /\ Len(u) = Len(t) /\ Len(t) \in Nat
      /\ \A i \in 1 .. Len(t) : u[i] = t[(Len(t) - i) + 1]
  BY DEF Reverse
<1> HIDE DEF u
<1>2. ToSet(u) = ToSet(t)
  <2>1. ASSUME NEW e \in ToSet(u)
        PROVE  e \in ToSet(t)
    <3>1. PICK i \in 1 .. Len(t) : e = u[i]
      BY <1>1 DEF ToSet
    <3>2. (Len(t) - i) + 1 \in 1 .. Len(t) /\ e = t[(Len(t) - i) + 1]
      BY <1>1, <3>1
    <3>3. QED
      BY <3>2 DEF ToSet
  <2>2. ASSUME NEW e \in ToSet(t)
        PROVE  e \in ToSet(u)
    <3>1. PICK i \in 1 .. Len(t) : e = t[i]
      BY DEF ToSet
    <3>2. PICK k \in 1 .. Len(t) : i = (Len(t) - k) + 1
      BY <1>1, <3>1
    <3>3. e = u[k]
      BY <1>1, <3>1, <3>2
    <3>4. QED
      BY <1>1, <3>3 DEF ToSet
  <2>3. QED
    BY <2>1, <2>2
<1> DEFINE v == s \o u
<1>3. Len(v) = Len(s) + Len(u) /\ Len(s) \in Nat /\ Len(u) \in Nat
  <2>1. Len(s) \in Nat /\ Len(u) \in Nat /\ u \in Seq(S)
    BY <1>1
  <2>2. Len(v) = Len(s) + Len(u)
    BY <2>1
  <2>3. QED
    BY <2>1, <2>2
<1>4. \A i \in 1 .. Len(s) + Len(u) : v[i] = IF i <= Len(s) THEN s[i] ELSE u[i - Len(s)]
  BY <1>1
<1>5. DOMAIN v = 1 .. Len(v)
  <2>1. v \in Seq(S)
    BY <1>1
  <2>2. QED
    BY <2>1
<1> HIDE DEF v
<1>6. ASSUME NEW e \in ToSet(v)
      PROVE  e \in ToSet(s) \cup ToSet(u)
  <2>1. PICK i \in 1 .. Len(s) + Len(u) : e = v[i]
    BY <1>3, <1>5 DEF ToSet
  <2>2. CASE i <= Len(s)
    <3>1. i \in 1 .. Len(s) /\ e = s[i]
      BY <1>3, <1>4, <2>1, <2>2
    <3>2. QED
      BY <3>1 DEF ToSet
  <2>3. CASE ~ (i <= Len(s))
    <3>1. i - Len(s) \in 1 .. Len(u) /\ e = u[i - Len(s)]
      BY <1>3, <1>4, <2>1, <2>3
    <3>2. QED
      BY <1>1, <3>1 DEF ToSet
  <2>4. QED
    BY <2>2, <2>3
<1>7. ASSUME NEW e \in ToSet(s)
      PROVE  e \in ToSet(v)
  <2>1. PICK i \in 1 .. Len(s) : e = s[i]
    BY DEF ToSet
  <2>2. i \in DOMAIN v /\ e = v[i]
    BY <1>3, <1>4, <1>5, <2>1
  <2>3. QED
    BY <2>2 DEF ToSet
<1>8. ASSUME NEW e \in ToSet(u)
      PROVE  e \in ToSet(v)
  <2>1. PICK i \in 1 .. Len(u) : e = u[i]
    BY <1>1 DEF ToSet
  <2>2. Len(s) + i \in DOMAIN v /\ e = v[Len(s) + i]
    BY <1>3, <1>4, <1>5, <2>1
  <2>3. QED
    BY <2>2 DEF ToSet
<1>9. QED
  BY <1>2, <1>6, <1>7, <1>8 DEF u, v

LEMMA FrontSet ==
  ASSUME NEW S, NEW s \in Seq(S), s # <<>>
  PROVE  ToSet(s) \subseteq ToSet(Front(s)) \cup {Last(s)}
<1> DEFINE t == SubSeq(s, 1, Len(s) - 1)
<1>1. Len(s) \in Nat \ {0}
  OBVIOUS
<1>2. t \in Seq(S) /\ Len(t) = Len(s) - 1 /\ \A i \in 1 .. Len(s) - 1 : t[i] = s[i]
  <2>1. t \in Seq(S)
    BY <1>1
  <2>2. Len(t) = Len(s) - 1
    <3>1. PICK k \in 1 .. Len(s) : k = Len(s)
      BY <1>1
    <3>2. Len(SubSeq(s, 1, k - 1)) = k - 1
      BY <1>1
    <3>3. QED
      BY <3>1, <3>2
  <2>3. \A i \in 1 .. Len(s) - 1 : t[i] = s[i]
    BY <1>1
  <2>4. QED
    BY <2>1, <2>2, <2>3
<1>3. t = Front(s)
  BY DEF Front
<1> HIDE DEF t
<1>4. ASSUME NEW e \in ToSet(s), e # s[Len(s)]
      PROVE  e \in ToSet(t)
  <2>1. PICK i \in 1 .. Len(s) : e = s[i]
    BY DEF ToSet
  <2>2. i \in 1 .. Len(t) /\ e = t[i]
    BY <1>1, <1>2, <1>4, <2>1
  <2>3. QED
    BY <1>2, <2>2 DEF ToSet
<1>5. QED
  BY <1>3, <1>4 DEF Last

LEMMA EnterSearch ==
  ASSUME GenInv, KeptInv, NEW l \in Lookup, LeftInv(l), HereInv(l), EnterDylib(l)
  PROVE  LeftInv(l)' /\ HereInv(l)'
<1>0. GenTypes
  BY DEF GenInv
<1>1. /\ at[l] = "visit" /\ Searching(l)
      /\ cands' = [cands EXCEPT ![l] = @ \cup nonCands[l]]
      /\ nonCands' = [nonCands EXCEPT ![l] = {}]
      /\ stack' = [stack EXCEPT ![l] = @ \o Reverse(gens[Here(l)])]
      /\ UNCHANGED <<symbols, gens, at, index>>
  BY DEF EnterDylib, tables, genVars
<1>2. /\ cands'[l] = cands[l] \cup nonCands[l] /\ nonCands'[l] = {}
      /\ stack'[l] = stack[l] \o Reverse(gens[Here(l)])
      /\ Here(l)' = Here(l)
  BY <1>0, <1>1 DEF GenTypes, Here
<1>3. LeftInv(l)'
  BY <1>1, <1>2 DEF LeftInv, Definers, Offers
<1>4. ToSet(gens[Here(l)]) \subseteq ToSet(stack'[l])
  <2>1. gens[Here(l)] \in Seq(Gen) /\ stack[l] \in Seq(Gen)
    BY <1>0, <1>1, HereType DEF GenTypes
  <2>2. QED
    BY <1>2, <2>1, ReverseSet
<1>5. HereInv(l)'
  <2>1. \A n \in nonCands'[l] : <<Here(l)', n>> \in Hidden
    BY <1>2
  <2>2. \A n \in cands'[l] : \A g \in ToSet(gens'[Here(l)']) : n \in Makes[g] =>
          g \in ToSet(stack'[l])
    BY <1>1, <1>2, <1>4
  <2>3. at'[l] = "visit"
    BY <1>1
  <2>4. QED
    BY <2>1, <2>2, <2>3 DEF HereInv
<1>6. QED
  BY <1>3, <1>5

LEMMA GenerateSearch ==
  ASSUME GenInv, KeptInv, Monotone, NEW l \in Lookup, LeftInv(l), HereInv(l),
         NEW p \in {"returned", "continued"}, Generate(l, p),
         at[l] \in {"generating", "captured"}
  PROVE  LeftInv(l)' /\ HereInv(l)'
<1>0. GenTypes /\ PlaceInv(l)
  BY DEF GenInv, PlacesInv
<1>1. /\ UNCHANGED <<gens, index, entering, cands, nonCands, stack>>
      /\ at'[l] = p
      /\ Made(l) \subseteq symbols' \/ err'[l]
  BY <1>0 DEF Generate, GoTo, genVars, progress, GenTypes
<1>2. Searching(l) /\ ~ entering[l]
  BY <1>0 DEF PlaceInv, InDylib, InGenerator
<1>3. Here(l)' = Here(l) /\ Top(l)' = Top(l)
  BY <1>1 DEF Here, Top
<1>4. \A n \in cands[l] \cap Makes[Top(l)] : <<Here(l), n>> \in symbols' \/ err'[l]
  BY <1>1 DEF Made
<1>5. HereInv(l)'
  <2>1. \A n \in nonCands'[l] : <<Here(l)', n>> \in Hidden
    BY <1>1, <1>2, <1>3 DEF HereInv
  <2>2. \A n \in cands'[l] : \A g \in ToSet(gens'[Here(l)']) : n \in Makes[g] =>
          g \in ToSet(stack'[l])
    BY <1>1, <1>2, <1>3 DEF HereInv
  <2>3. QED
    BY <1>1, <1>3, <1>4, <2>1, <2>2 DEF HereInv
<1>6. LeftInv(l)'
  <2>1. \A n \in LookupSet[l] : Definers(l, n) # {} => Definers(l, n)' # {}
    BY DEF Definers, Monotone
  <2>2. QED
    BY <1>1, <2>1 DEF LeftInv, Offers
<1>7. QED
  BY <1>5, <1>6

LEMMA AfterSearch ==
  ASSUME GenInv, KeptInv, NEW l \in Lookup, LeftInv(l), HereInv(l), AfterGeneration(l)
  PROVE  LeftInv(l)' /\ HereInv(l)'
<1>0. GenTypes /\ PlaceInv(l) /\ QueueInv
  BY DEF GenInv, PlacesInv
<1>1. PICK p \in {"visit", "refilter"} :
        LeaveGenerator(l, p) /\ at[l] \in {"returned", "continued"}
  BY DEF AfterGeneration
<1>2. UNCHANGED <<symbols, gens, index, entering, cands, nonCands, err>>
  BY DEF AfterGeneration, tables
<1>3. Searching(l) /\ ~ entering[l] /\ stack[l] # <<>> /\ stack[l] \in Seq(Gen)
  BY <1>0, <1>1 DEF PlaceInv, InDylib, InGenerator, GenTypes
<1>4. ToSet(stack[l]) \subseteq ToSet(stack'[l]) \cup {Top(l)}
  <2>1. stack' = stack \/ stack' = [stack EXCEPT ![l] = Front(@)]
    BY <1>1 DEF LeaveGenerator
  <2>2. stack'[l] = stack[l] \/ stack'[l] = Front(stack[l])
    BY <1>0, <2>1 DEF GenTypes
  <2>3. QED
    BY <1>3, <2>2, FrontSet DEF Top
<1>5. at'[l] = p
  <2>1. Has(l) /\ at[l] # "queued" /\ UNCHANGED gone
    BY <1>0, <1>1 DEF Has, PlaceInv, InGenerator, AfterGeneration
  <2>2. QED
    BY <1>1, <1>2, <1>3, <2>1, LeaveKeeps
<1>6. LeftInv(l)'
  BY <1>2 DEF LeftInv, Definers, Offers
<1>7. Here(l)' = Here(l)
  BY <1>2 DEF Here
<1>8. HereInv(l)'
  <2>1. \A n \in nonCands'[l] : <<Here(l)', n>> \in Hidden
    BY <1>1, <1>2, <1>3, <1>7 DEF HereInv
  <2>2. \A n \in cands'[l] : \A g \in ToSet(gens'[Here(l)']) : n \in Makes[g] =>
          \/ g \in ToSet(stack'[l])
          \/ <<Here(l)', n>> \in symbols' \/ err'[l]
    BY <1>1, <1>2, <1>3, <1>4, <1>7 DEF HereInv
  <2>3. QED
    BY <1>5, <2>1, <2>2 DEF HereInv
<1>9. QED
  BY <1>6, <1>8

\* The lookup leaves the JITDylib: what it still looks for is not offered there.
LEMMA LeaveSearch ==
  ASSUME GenInv, KeptInv, HiddenAssumption, NEW l \in Lookup, LeftInv(l), HereInv(l),
         LeaveDylib(l)
  PROVE  LeftInv(l)' /\ HereInv(l)'
<1>0. GenTypes /\ PlaceInv(l)
  BY DEF GenInv, PlacesInv
<1>1. /\ at[l] = "search" /\ (stack[l] = <<>> \/ cands[l] = {})
      /\ UNCHANGED <<symbols, gens, cands, nonCands, stack>>
  BY DEF LeaveDylib, tables, genVars
<1>2. Searching(l) /\ ~ entering[l]
  BY <1>0, <1>1 DEF PlaceInv, InDylib
<1>3. Here(l) \in Dylib
  BY <1>0, <1>2, HereType
<1>4. ASSUME NEW n \in cands[l] \cup nonCands[l]
      PROVE  ~ Offers(Here(l), n)
  <2>1. CASE n \in cands[l]
    <3>1. ToSet(stack[l]) = {}
      BY <1>1, <2>1 DEF ToSet
    <3>2. <<Here(l), n>> \notin Loaded
      BY <1>1, <1>2, <2>1 DEF HereInv
    <3>3. \A g \in ToSet(gens[Here(l)]) : n \notin Makes[g]
      BY <1>1, <1>2, <2>1, <3>1 DEF HereInv
    <3>4. QED
      BY <3>2, <3>3 DEF Offers
  <2>2. CASE n \in nonCands[l]
    <3>1. <<Here(l), n>> \in Hidden
      BY <1>1, <1>2, <2>2 DEF HereInv
    <3>2. ToSet(gens[Here(l)]) \subseteq ToSet(DefGenerators[Here(l)])
      BY <1>3 DEF KeptInv
    <3>3. QED
      BY <1>3, <3>1, <3>2 DEF Offers, HiddenAssumption
  <2>3. QED
    BY <2>1, <2>2
<1>5. /\ SearchOrder[l] \in Seq(Dylib) /\ Len(SearchOrder[l]) \in Nat
      /\ index[l] \in 1 .. Len(SearchOrder[l])
      /\ index \in [Lookup -> Nat] /\ entering \in [Lookup -> BOOLEAN]
  BY <1>0, <1>2, GeneratorAssumption DEF GenTypes, Searching
<1>6. CASE cands[l] = {} /\ nonCands[l] = {}
  <2>1. index'[l] = Len(SearchOrder[l]) + 1
    BY <1>5, <1>6 DEF LeaveDylib
  <2>2. LeftInv(l)'
    BY <1>1, <1>6 DEF LeftInv, Definers
  <2>3. HereInv(l)'
    BY <1>5, <2>1 DEF HereInv, Searching
  <2>4. QED
    BY <2>2, <2>3
<1>7. CASE ~ (cands[l] = {} /\ nonCands[l] = {})
  <2>1. index'[l] = index[l] + 1 /\ entering'[l]
    BY <1>5, <1>7 DEF LeaveDylib
  <2>2. ASSUME NEW n \in cands[l] \cup nonCands[l], NEW i \in 1 .. Len(SearchOrder[l]),
               i < index'[l]
        PROVE  ~ Offers(SearchOrder[l][i], n)
    <3>1. CASE i < index[l]
      BY <3>1 DEF LeftInv
    <3>2. CASE i = index[l]
      BY <1>4, <3>2 DEF Here
    <3>3. QED
      BY <1>5, <2>1, <2>2, <3>1, <3>2
  <2>3. LeftInv(l)'
    BY <1>1, <2>2 DEF LeftInv, Definers, Offers
  <2>4. HereInv(l)'
    BY <2>1 DEF HereInv
  <2>5. QED
    BY <2>3, <2>4
<1>8. QED
  BY <1>6, <1>7

LEMMA OwnSearch ==
  ASSUME GenInv, KeptInv, Monotone, HiddenAssumption, NEW l \in Lookup,
         LeftInv(l), HereInv(l),
         StartLookup(l) \/ Phase1(l) \/ ContinueLookup(l) \/ RunTask(l)
  PROVE  LeftInv(l)' /\ HereInv(l)'
<1> USE DEF genVars, tables, progress
<1>0. GenTypes /\ PlaceInv(l)
  BY DEF GenInv, PlacesInv
<1>1. at \in [Lookup -> Places]
  BY <1>0 DEF GenTypes
<1>2. CASE StartLookup(l) \/ WaitForGenerator(l) \/ EnterGenerator(l) \/ Capture(l) \/ RunTask(l)
  <2>1. UNCHANGED <<index[l], entering[l], cands[l], nonCands[l], stack[l]>> /\ err' = err
    BY <1>2 DEF StartLookup, WaitForGenerator, EnterGenerator, Capture, RunTask
  <2>2. /\ at[l] \notin {"visit", "refilter", "done"}
        /\ at'[l] \notin {"returned", "continued", "search"}
    BY <1>1, <1>2
    DEF StartLookup, WaitForGenerator, EnterGenerator, Capture, RunTask, MayGenerate, GoTo
  <2>3. QED
    BY <2>1, <2>2, QuietStep
<1>3. CASE FilterFails(l) \/ FailWithError(l) \/ GeneratorRemoved(l) \/ CompletePhase1(l)
  <2>1. UNCHANGED <<index[l], entering[l], cands[l], nonCands[l], stack[l]>> /\ err' = err
    BY <1>3 DEF FilterFails, FailWithError, GeneratorRemoved, CompletePhase1
  <2>2. at'[l] = "done"
    BY <1>1, <1>3 DEF FilterFails, FailWithError, GeneratorRemoved, CompletePhase1, End
  <2>3. QED
    BY <2>1, <2>2, QuietStep
<1>4. CASE FilterCandidates(l)
  <2>1. /\ at[l] = "visit" /\ Searching(l) /\ ~ err[l] /\ ~ entering[l]
        /\ UpdateCandidates(l)
        /\ UNCHANGED <<symbols, gens, gone, index, entering, err>>
    BY <1>4 DEF FilterCandidates
  <2>2. at'[l] = "search" /\ (stack'[l] = stack[l] \/ cands'[l] = {})
    <3>1. CASE genState[l] = "resumed" /\ cands'[l] = {}
      <4>1. Has(l) /\ stack[l] # <<>> /\ LeaveGenerator(l, "search")
        BY <1>0, <1>4, <2>1, <3>1 DEF Has, PlaceInv, ResumedInv, FilterCandidates
      <4>2. \A m \in Lookup \ {l} : cands'[m] = cands[m]
        BY <1>0, <2>1 DEF UpdateCandidates, GenTypes
      <4>3. at'[l] = "search"
        BY <2>1, <4>1, <4>2, LeaveKeeps
      <4>4. QED
        BY <3>1, <4>3
    <3>2. CASE ~ (genState[l] = "resumed" /\ cands'[l] = {})
      BY <1>1, <1>4, <3>2 DEF FilterCandidates
    <3>3. QED
      BY <3>1, <3>2
  <2>3. QED
    BY <2>1, <2>2, FilterSearch
<1>5. CASE FilterAfterGeneration(l)
  <2>1. /\ at[l] = "refilter" /\ Searching(l) /\ ~ err[l] /\ ~ entering[l]
        /\ UpdateCandidates(l) /\ at'[l] = "search"
        /\ UNCHANGED <<symbols, gens, index, entering, stack>>
    BY <1>0, <1>1, <1>5 DEF FilterAfterGeneration, PlaceInv, InDylib, InGenerator, GoTo
  <2>2. QED
    BY <2>1, FilterSearch
<1>6. CASE GenerateInPlace(l) \/ ContinueLookup(l)
  <2>1. PICK p \in {"returned", "continued"} :
          Generate(l, p) /\ at[l] \in {"generating", "captured"}
    BY <1>6 DEF GenerateInPlace, ContinueLookup
  <2>2. QED
    BY <2>1, GenerateSearch
<1>7. QED
  BY <1>2, <1>3, <1>4, <1>5, <1>6, EnterSearch, AfterSearch, LeaveSearch DEF Phase1

\* How a lookup's step shows in another lookup.
LEMMA StepsApart ==
  ASSUME GenInv, NEW l \in Lookup, NEW m \in Lookup, m # l,
         StartLookup(l) \/ Phase1(l) \/ ContinueLookup(l) \/ RunTask(l)
  PROVE  /\ UNCHANGED <<index[m], entering[m], cands[m], nonCands[m], stack[m], err[m]>>
         /\ at'[m] = at[m] \/ (at[m] = "queued" /\ at'[m] = "tasked")
<1> USE DEF genVars, tables, progress, GoTo, End
<1>0. GenTypes /\ PlaceInv(l) /\ QueueInv
  BY DEF GenInv, PlacesInv
<1>1. /\ index \in [Lookup -> Nat] /\ entering \in [Lookup -> BOOLEAN]
      /\ cands \in [Lookup -> SUBSET Name] /\ nonCands \in [Lookup -> SUBSET Name]
      /\ stack \in [Lookup -> Seq(Gen)] /\ err \in [Lookup -> BOOLEAN]
      /\ at \in [Lookup -> Places]
  BY <1>0 DEF GenTypes
<1>2. ASSUME NEW p, LeaveGenerator(l, p), stack[l] # <<>>
      PROVE  stack'[m] = stack[m] /\ (at'[m] = at[m] \/ (at[m] = "queued" /\ at'[m] = "tasked"))
  <2>1. PICK g \in Gen : g = Top(l)
    BY <1>0, <1>2, TopType
  <2>2. CASE g \in gone \/ queue[g] = <<>>
    BY <1>1, <1>2, <2>1, <2>2 DEF LeaveGenerator
  <2>3. CASE g \notin gone /\ queue[g] # <<>>
    <3>1. /\ stack' = [stack EXCEPT ![l] = Front(@)]
          /\ at' = [at EXCEPT ![l] = p, ![Head(queue[g])] = "tasked"]
      BY <1>2, <2>1, <2>3 DEF LeaveGenerator
    <3>2. Head(queue[g]) \in ToSet(queue[g])
      BY <1>0, <2>3, TailOf DEF GenTypes, QueueInv
    <3>3. at[Head(queue[g])] = "queued"
      BY <1>0, <3>2 DEF QueueInv
    <3>4. QED
      BY <1>1, <3>1, <3>3
  <2>4. QED
    BY <2>2, <2>3
<1>3. CASE FilterCandidates(l)
  <2>1. UNCHANGED <<index[m], entering[m], cands[m], nonCands[m], err[m]>>
    BY <1>1, <1>3 DEF FilterCandidates, UpdateCandidates
  <2>2. CASE genState[l] = "resumed" /\ cands'[l] = {}
    <3>1. stack[l] # <<>> /\ LeaveGenerator(l, "search")
      BY <1>0, <1>3, <2>2 DEF PlaceInv, ResumedInv, FilterCandidates
    <3>2. QED
      BY <1>2, <2>1, <3>1
  <2>3. CASE ~ (genState[l] = "resumed" /\ cands'[l] = {})
    BY <1>1, <1>3, <2>1, <2>3 DEF FilterCandidates
  <2>4. QED
    BY <2>2, <2>3
<1>4. CASE AfterGeneration(l)
  <2>1. PICK p \in Places : LeaveGenerator(l, p) /\ at[l] \in {"returned", "continued"}
    BY <1>4 DEF AfterGeneration, Places
  <2>2. stack[l] # <<>>
    BY <1>0, <2>1 DEF PlaceInv, InGenerator
  <2>3. QED
    BY <1>2, <1>4, <2>1, <2>2 DEF AfterGeneration
<1>5. CASE GenerateInPlace(l) \/ ContinueLookup(l)
  BY <1>1, <1>5 DEF GenerateInPlace, ContinueLookup, Generate
<1>6. CASE EnterDylib(l) \/ FilterAfterGeneration(l) \/ LeaveDylib(l)
  BY <1>1, <1>6 DEF EnterDylib, FilterAfterGeneration, UpdateCandidates, LeaveDylib
<1>7. CASE \/ StartLookup(l) \/ RunTask(l) \/ FilterFails(l) \/ FailWithError(l)
           \/ GeneratorRemoved(l) \/ WaitForGenerator(l) \/ EnterGenerator(l)
           \/ Capture(l) \/ CompletePhase1(l)
  BY <1>1, <1>7
  DEF StartLookup, RunTask, FilterFails, FailWithError, GeneratorRemoved, WaitForGenerator,
      EnterGenerator, Capture, CompletePhase1
<1>8. QED
  BY <1>3, <1>4, <1>5, <1>6, <1>7 DEF Phase1

LEMMA SearchStep ==
  ASSUME GenInv, KeptInv, HiddenAssumption, SearchInv, Monotone, [GenNext]_genVarsAll
  PROVE  SearchInv'
<1>1. ASSUME NEW l \in Lookup,
             StartLookup(l) \/ Phase1(l) \/ ContinueLookup(l) \/ RunTask(l)
      PROVE  SearchInv'
  <2>1. ASSUME NEW m \in Lookup, m # l
        PROVE  LeftInv(m)' /\ HereInv(m)'
    <3>1. /\ UNCHANGED <<index[m], entering[m], cands[m], nonCands[m], stack[m], err[m]>>
          /\ at'[m] = at[m] \/ (at[m] = "queued" /\ at'[m] = "tasked")
      BY <1>1, <2>1, StepsApart
    <3>2. LeftInv(m) /\ HereInv(m)
      BY DEF SearchInv
    <3>3. \/ at'[m] = at[m]
          \/ at'[m] = "done"
          \/ /\ at[m] \notin {"visit", "refilter", "done"}
             /\ at'[m] \notin {"returned", "continued", "search"}
      BY <3>1
    <3>4. QED
      BY <3>1, <3>2, <3>3, QuietStep
  <2>2. LeftInv(l)' /\ HereInv(l)'
    BY <1>1, OwnSearch DEF SearchInv
  <2>3. QED
    BY <2>1, <2>2 DEF SearchInv
<1>2. ASSUME \/ \E g \in Gen : RemoveGenerator(g) \/ DestroyGenerator(g)
             \/ \E d \in Dylib, n \in Name : FailSymbol(d, n)
             \/ UNCHANGED genVarsAll,
             NEW m \in Lookup
      PROVE  LeftInv(m)' /\ HereInv(m)'
  <2>1. LeftInv(m) /\ HereInv(m)
    BY DEF SearchInv
  <2>2. UNCHANGED <<index[m], entering[m], cands[m], nonCands[m], stack[m]>>
    BY <1>2 DEF RemoveGenerator, DestroyGenerator, FailSymbol, genVarsAll, lookVars, progress
  <2>3. /\ \/ at'[m] = at[m]
           \/ /\ at[m] \notin {"visit", "refilter", "done"}
              /\ at'[m] \notin {"returned", "continued", "search"}
        /\ err[m] => err'[m]
    <3>1. CASE \E g \in Gen : DestroyGenerator(g)
      <4>1. PICK g \in Gen : DestroyGenerator(g)
        BY <3>1
      <4>2. \A k \in ToSet(queue[g]) : at[k] = "queued"
        BY DEF GenInv, QueueInv
      <4>3. QED
        BY <4>1, <4>2 DEF DestroyGenerator, TurnedAway
    <3>2. CASE ~ \E g \in Gen : DestroyGenerator(g)
      BY <1>2, <3>2 DEF RemoveGenerator, FailSymbol, genVarsAll, lookVars
    <3>3. QED
      BY <3>1, <3>2
  <2>4. QED
    BY <2>1, <2>2, <2>3, QuietStep
<1>3. QED
  BY <1>1, <1>2 DEF GenNext, AllDone, SearchInv

LEMMA MissingStep ==
  ASSUME GenInv, SearchInv, MissingNowhere, Monotone, [GenNext]_genVarsAll
  PROVE  MissingNowhere'
<1>0. GenTypes
  BY DEF GenInv
<1>1. ASSUME NEW m \in Lookup, result[m] = "notFound"
      PROVE  \E n \in Required(m) : \A d \in ToSet(SearchOrder[m]) : ~ Offers(d, n)'
  <2>1. PICK n \in Required(m) : \A d \in ToSet(SearchOrder[m]) : ~ Offers(d, n)
    BY <1>1 DEF MissingNowhere
  <2>2. ToSet(SearchOrder[m]) \subseteq Dylib
    BY GeneratorAssumption, ToSetOf
  <2>3. QED
    BY <2>1, <2>2, StillNotOffered
<1>2. ASSUME NEW m \in Lookup, result'[m] = "notFound", result[m] # "notFound"
      PROVE  \E n \in Required(m) : \A d \in ToSet(SearchOrder[m]) : ~ Offers(d, n)'
  <2>1. CompletePhase1(m)
    <3>1. ASSUME NEW l \in Lookup, ~ CompletePhase1(l),
                 StartLookup(l) \/ Phase1(l) \/ ContinueLookup(l) \/ RunTask(l)
          PROVE  FALSE
      <4>1. result' = result \/ result' = [result EXCEPT ![l] = "failed"]
        BY <3>1
        DEF StartLookup, Phase1, ContinueLookup, RunTask, EnterDylib, FilterCandidates,
            FilterAfterGeneration, FilterFails, FailWithError, GeneratorRemoved,
            WaitForGenerator, EnterGenerator, GenerateInPlace, Generate, Capture,
            AfterGeneration, LeaveDylib, GoTo, End
      <4>2. QED
        BY <1>0, <1>2, <4>1 DEF GenTypes
    <3>2. ASSUME NEW l \in Lookup, CompletePhase1(l), l # m
          PROVE  FALSE
      <4>1. PICK o : result' = [result EXCEPT ![l] = o]
        BY <3>2 DEF CompletePhase1, End
      <4>2. QED
        BY <1>0, <1>2, <3>2, <4>1 DEF GenTypes
    <3>3. ASSUME \/ \E g \in Gen : RemoveGenerator(g) \/ DestroyGenerator(g)
                 \/ \E d \in Dylib, n \in Name : FailSymbol(d, n)
                 \/ UNCHANGED genVarsAll
          PROVE  FALSE
      BY <1>2, <3>3 DEF RemoveGenerator, DestroyGenerator, FailSymbol, genVarsAll, lookVars
    <3>4. QED
      BY <3>1, <3>2, <3>3 DEF GenNext, AllDone
  <2>2. ~ (cands[m] \subseteq WeaklyRef[m] /\ \A n \in Required(m) : Definers(m, n) # {})
    BY <1>0, <1>2, <2>1 DEF CompletePhase1, End, GenTypes
  <2>3. LeftInv(m)
    BY DEF SearchInv
  <2>4. PICK n \in Required(m) : n \in cands[m] \cup nonCands[m]
    BY <2>2, <2>3 DEF LeftInv, Required
  <2>5. SearchOrder[m] \in Seq(Dylib) /\ index[m] \in Nat /\ ~ (index[m] <= Len(SearchOrder[m]))
    BY <1>0, <2>1, GeneratorAssumption DEF CompletePhase1, Searching, GenTypes
  <2>6. \A i \in 1 .. Len(SearchOrder[m]) : ~ Offers(SearchOrder[m][i], n)
    BY <2>3, <2>4, <2>5 DEF LeftInv
  <2>7. \A d \in ToSet(SearchOrder[m]) : d \in Dylib /\ ~ Offers(d, n)
    BY <2>5, <2>6 DEF ToSet
  <2>8. \A d \in ToSet(SearchOrder[m]) : ~ Offers(d, n)'
    BY <2>7, StillNotOffered
  <2>9. QED
    BY <2>4, <2>8
<1>3. QED
  BY <1>1, <1>2 DEF MissingNowhere, Required

LEMMA SearchInit ==
  ASSUME GenInit
  PROVE  KeptInv /\ SearchInv /\ MissingNowhere
<1>1. KeptInv
  BY DEF GenInit, KeptInv
<1>2. ASSUME NEW l \in Lookup
      PROVE  LeftInv(l) /\ HereInv(l)
  <2>1. /\ index[l] = 1 /\ entering[l] /\ cands[l] = LookupSet[l] /\ nonCands[l] = {}
    BY DEF GenInit
  <2>2. LeftInv(l)
    BY <2>1 DEF LeftInv
  <2>3. HereInv(l)
    BY <2>1 DEF HereInv
  <2>4. QED
    BY <2>2, <2>3
<1>3. MissingNowhere
  BY DEF GenInit, MissingNowhere
<1>4. QED
  BY <1>1, <1>2, <1>3 DEF SearchInv

\* A lookup reports symbols missing (OL_applyQueryPhase1, OL_completeLookup) only for
\* one that no JITDylib of its search order was loaded with or has a generator for,
\* whatever other lookups use, wait for and are handed the generators meanwhile.
THEOREM MissingCorrect ==
  ASSUME HiddenAssumption
  PROVE  GenSpec => []MissingNowhere
<1>1. GenInit => KeptInv /\ SearchInv /\ MissingNowhere
  BY SearchInit
<1>2. GenInv /\ KeptInv /\ SearchInv /\ MissingNowhere /\ [GenNext]_genVarsAll
        => KeptInv' /\ SearchInv' /\ MissingNowhere'
  BY KeptStep, SearchStep, MissingStep
<1>3. QED
  BY <1>1, <1>2, GenInvCorrect, PTL DEF GenSpec
=============================================================================
