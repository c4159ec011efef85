SPECIFICATION FairSpec
CONSTANTS
  NoDev = NoDev
  NoStream = NoStream
  NoCall = NoCall
  wav = wav
  alsa = alsa
  plain = plain
  s0 = s0
  s1 = s1
  s2 = s2
  d1 = d1
  d2 = d2
  p1 = p1
  Devices = {d1}
  Streams = {s0, s1}
  Stdout = s0
  Paths = {p1}
  PathStates = {"readable"}
  Drivers = {wav, alsa, plain}
  DriverType <- MCDriverType
  OwnMatrix = {wav}
  Unordered = {plain}
  BadId = "no such driver"
  Options = {"front", "rear", "nonsense", "other"}
  MatrixValue <- MCMatrixValue
  Formats <- MCFormats
  MaxOptions = 1
  MaxChannels = 2
INVARIANT TypeOK
INVARIANT CallersMatrixWins
INVARIANT FailureKeepsItsCode
PROPERTY CallsReturn
