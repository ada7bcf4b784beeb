SPECIFICATION FullFairSpec
CONSTANTS
  a = a
  b = b
  u1 = u1
  u2 = u2
  u3 = u3
  q1 = q1
  q2 = q2
  l2 = l2
  dt = dt
  t1 = t1
  t2 = t2
  none = none
  Sym = {a, b}
  Unit = {u1, u2, u3}
  Query = {q1, q2, l2}
  Tracker = {dt, t1, t2}
  DefaultTracker = dt
  None = none
  UnitSyms <- MCUnitSyms
  UnitWeak <- MCUnitWeak
  UnitTracker <- MCUnitTracker
  Loaded = {u1, u2}
  QuerySyms <- MCQuerySyms
  QueryWeak <- MCQueryWeak
  QueryState <- MCQueryState
  LinkQuery <- MCLinkQuery
  Faulty = {u2}
  Removable = {t1, t2}
  Declarable = {}
  Spare = {}
  Splitter = {}
  ClaimSyms <- MCNoSyms
  ClaimWeak <- MCNoSyms
  Transferable <- MCTransferable
  DefaultRemovable = FALSE
  Undefinable = {{b}}
INVARIANTS
  TypeOK
  HeldOnce
  NoStrandedQuery
  TrackedByUnit
  ResponsibilitiesTracked
PROPERTIES
  ReadinessIsClosure
  EveryLookupAnswered
