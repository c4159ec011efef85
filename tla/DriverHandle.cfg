SPECIFICATION HandleSpec
CONSTANTS
  d1 = d1
  d2 = d2
  Devices = {d1, d2}
  Plugins <- AllPlugins
  MaxHandle = 2
  Null = Null
  NoInternal = NoInternal
  Nobody = Nobody
  App = App
SYMMETRY Swaps
INVARIANT HandleTypeOK
INVARIANT NothingLeaks
INVARIANT NeverAstray
CHECK_DEADLOCK FALSE
