SPECIFICATION Spec
CONSTANTS
  a = a
  b = b
  c = c
  u1 = u1
  u2 = u2
  q1 = q1
  q2 = q2
  l1 = l1
  l2 = l2
  dt = dt
  none = none
  Sym = {a, b, c}
  Unit = {u1, u2}
  Query = {q1, q2, l1, l2}
  Tracker = {dt}
  DefaultTracker = dt
  None = none
  UnitSyms <- MCUnitSyms
  UnitWeak <- MCUnitWeak
  UnitTracker <- MCUnitTracker
  Loaded = {u1, u2}
  QuerySyms <- MCQuerySyms
  QueryWeak <- MCQueryWeak
  QueryState <- MCQueryState
  LinkQuery <- MCLinkQuery
  Faulty = {u2}
  Removable = {}
  Declarable = {}
INVARIANTS
  ReadyIsSafe
