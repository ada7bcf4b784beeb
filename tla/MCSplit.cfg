SPECIFICATION FullFairSpec
CONSTANTS
  a = a
  b = b
  c = c
  u1 = u1
  u2 = u2
  v1 = v1
  q1 = q1
  q2 = q2
  l2 = l2
  dt = dt
  t1 = t1
  none = none
  Sym = {a, b, c}
  Unit = {u1, u2, v1}
  Query = {q1, q2, l2}
  Tracker = {dt, t1}
  DefaultTracker = dt
  None = none
  UnitSyms <- MCUnitSyms
  UnitWeak <- MCUnitWeak
  UnitTracker <- MCUnitTracker
  Loaded = {u1}
  QuerySyms <- MCQuerySyms
  QueryWeak <- MCQueryWeak
  QueryState <- MCQueryState
  LinkQuery <- MCLinkQuery
  Faulty = {v1}
  Removable = {}
  Declarable = {}
  Spare = {v1}
  Splitter = {u1}
  ClaimSyms <- MCClaimSyms
  ClaimWeak <- MCClaimWeak
  Transferable = {}
  DefaultRemovable = FALSE
  Undefinable = {}
INVARIANTS
  NoStrandedQuery
  HeldOnce
  WaitsForOwned
PROPERTIES
  EveryLookupAnswered
  ReadinessIsClosure
