SPECIFICATION FullSpec
CONSTANTS
  a = a
  b = b
  u1 = u1
  u2 = u2
  u3 = u3
  u4 = u4
  v1 = v1
  q1 = q1
  q2 = q2
  l1 = l1
  dt = dt
  t1 = t1
  t2 = t2
  none = none
  Sym = {a, b}
  Unit = {u1, u2, u3, u4, v1}
  Query = {q1, q2, l1}
  Tracker = {dt, t1, t2}
  DefaultTracker = dt
  None = none
  UnitSyms <- MCUnitSyms
  UnitWeak <- MCUnitWeak
  UnitTracker <- MCUnitTracker
  Loaded = {u1, u2}
  QuerySyms <- MCQuerySyms
  QueryWeak <- MCQueryWeak
  QueryState <- MCQueryState
  LinkQuery <- MCLinkQuery
  Faulty = {u2}
  Removable = {t1, t2}
  Declarable = {}
  Spare = {v1}
  Splitter = {u3}
  ClaimSyms <- MCNoSyms
  ClaimWeak <- MCNoSyms
  Transferable = {}
  DefaultRemovable = TRUE
  Undefinable = {}
INVARIANTS
  GraphInv
  RegistrationsMirrored
PROPERTIES
  ReadinessIsClosure
CHECK_DEADLOCK FALSE
