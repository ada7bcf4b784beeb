SPECIFICATION FairSpec
CONSTANTS
  a = a
  b = b
  c = c
  u1 = u1
  u2 = u2
  u3 = u3
  u4 = u4
  q1 = q1
  q2 = q2
  l1 = l1
  l3 = l3
  dt = dt
  none = none
  Sym = {a, b, c}
  Unit = {u1, u2, u3, u4}
  Query = {q1, q2, l1, l3}
  Tracker = {dt}
  DefaultTracker = dt
  None = none
  UnitSyms <- MCUnitSyms
  UnitWeak <- MCUnitWeak
  UnitTracker <- MCUnitTracker
  Loaded = {u1}
  QuerySyms <- MCQuerySyms
  QueryWeak <- MCQueryWeak
  QueryState <- MCQueryState
  LinkQuery <- MCLinkQuery
  Faulty = {u3}
  Removable = {}
  Declarable = {}
INVARIANTS
  OneOwner
  AttachedHasUnit
  AnsweredOnce
  NoStrandedQuery
  NoStrandedSymbol
PROPERTIES
  StatesAdvance
  EveryLookupAnswered
