SPECIFICATION Spec
CONSTANTS
  a = a
  b = b
  c = c
  ua = ua
  ub = ub
  uc = uc
  q1 = q1
  q2 = q2
  dt = dt
  none = none
  Sym = {a, b, c}
  Unit = {ua, ub, uc}
  Query = {q1, q2}
  Tracker = {dt}
  DefaultTracker = dt
  None = none
  UnitSyms <- MCUnitSyms
  UnitWeak <- MCUnitWeak
  UnitTracker <- MCUnitTracker
  Loaded = {ua, ub, uc}
  QuerySyms <- MCQuerySyms
  QueryWeak <- MCQueryWeak
  QueryState <- MCQueryState
  LinkQuery <- MCLinkQuery
  Faulty = {ua}
  Removable = {}
  Declarable <- MCDeclarable
INVARIANTS
  DepsMirrored
  GraphShape
  NoLateQuery
PROPERTIES
  ReadinessIsClosure
  CompletionMeansReached
