SPECIFICATION FairSpec
CONSTANTS
  Devices <- ThreeDevices
  Multi <- TwoDevices
  Refusals = TRUE
  Tests = TRUE
  Bytes = 2
  SpinLimit = 3
  CountLimit = 1
INVARIANT TypeOK
INVARIANT ConnectionFollowsStreams
PROPERTY PlayReturns
