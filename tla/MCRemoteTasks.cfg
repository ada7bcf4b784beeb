SPECIFICATION RemSpec
CONSTANTS
  setup = setup
  outer = outer
  back = back
  inner = inner
  aside = aside
  Req = {setup, outer, back, inner, aside}
  Setup = setup
  Maker <- MCMaker
  Parent <- MCParent
  InPlace = {setup, back, inner, aside}
INVARIANT
  NoTaskOutlivesDisconnect
CHECK_DEADLOCK FALSE
