SPECIFICATION GenSpec
CONSTANTS
  x = x
  y = y
  z = z
  d1 = d1
  d2 = d2
  g1 = g1
  g2 = g2
  l1 = l1
  l2 = l2
  l3 = l3
  Name = {x, y, z}
  Dylib = {d1, d2}
  Gen = {g1, g2}
  Lookup = {l1, l2, l3}
  SearchOrder <- MCSearchOrder
  LookupSet <- MCLookupSet
  WeaklyRef <- MCWeaklyRef
  DefGenerators <- MCDefGenerators
  Makes <- MCMakes
  Capturing = {g1}
  Erring = {g2}
  Removable = {g2}
  Loaded <- MCHidden
  Hidden <- MCHidden
  Fallible <- MCOwnFallible
INVARIANTS
  GenTypeOK
  MissingNowhere
PROPERTIES
  GeneratorIsLock
  EveryLookupEnds
