SPECIFICATION RouteSpec
CONSTANTS
  Mnemonics <- MCMnemonics
  WordBits = 8
  Premaps <- MCPremaps
  Inputs <- AllInputs
  ChannelCounts = {1, 2, 3, 4}
  Widths = {1, 2}
  ByteOrders <- MCByteOrders
  DriverKinds = {"asis", "copy", "stereo", "roar", "alsa_hw", "pulse"}
  PulseMatrix <- MCPulseMatrix
  Buffers = {1, 2}
  DefSize = 3
  Wrap = 1048576
  MaxCalls = 2
INVARIANT RouteTypeOK
INVARIANT SlotsCarryTheirSpeaker
INVARIANT DriverGetsTheSamples
CHECK_DEADLOCK FALSE
