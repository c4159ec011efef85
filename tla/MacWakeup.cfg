SPECIFICATION FairSpec
CONSTANTS
  Devices <- TwoDevices
  BigEndian = FALSE
  Formats <- OneFormat
  Rates = {}
  Times = {}
  Wrap = 8000
  NoStream = NoStream
  Requests = {2}
  Chunks = {3}
  MaxBytes = 3
  StartFails = FALSE
  StopFails = FALSE
  TearDown = FALSE
PROPERTY WaitsForSpaceOnly
CHECK_DEADLOCK FALSE
