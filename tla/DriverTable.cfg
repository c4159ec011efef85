SPECIFICATION Spec
CONSTANTS
  NoFile = NoFile
  NoName = NoName
  NoTable = NoTable
  Broken = Broken
  null = null
  wav = wav
  alsa = alsa
  pulse = pulse
  f1 = f1
  f2 = f2
  f3 = f3
  Drivers = {null, wav, alsa, pulse}
  Static <- MCStatic
  Files = {f1, f2, f3}
  Holds <- MCHolds
  Type <- MCType
  Priority <- MCPriority
  LittleEndian = TRUE
  SystemFiles <- MCSystemFiles
  UserFiles <- MCUserFiles
  Keys = {"dev"}
  MaxOptions = 2
  MaxInits = 2
INVARIANT TypeOK
INVARIANT IdsAgree
INVARIANT ListedPluginsAreLoaded
INVARIANT DefaultIsBest
INVARIANT ConfigurationIsFresh
CHECK_DEADLOCK FALSE
