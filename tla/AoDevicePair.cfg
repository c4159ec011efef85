SPECIFICATION Spec
CONSTANTS
  NoDev = NoDev
  NoStream = NoStream
  NoCall = NoCall
  wav = wav
  alsa = alsa
  plain = plain
  s0 = s0
  s1 = s1
  s2 = s2
  d1 = d1
  d2 = d2
  p1 = p1
  Devices = {d1, d2}
  Streams = {s0, s1, s2}
  Stdout = s0
  Paths = {p1}
  PathStates = {"absent", "unreadable"}
  Drivers = {wav, alsa, plain}
  DriverType <- MCDriverType
  OwnMatrix = {wav}
  Unordered = {plain}
  BadId = "no such driver"
  Options = {"other"}
  MatrixValue <- MCMatrixValue
  Formats <- MCPairFormats
  MaxOptions = 1
  MaxChannels = 1
INVARIANT OpenFilesAreHeld
PROPERTY KeepsContract
