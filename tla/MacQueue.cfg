SPECIFICATION FairSpec
CONSTANTS
  Devices <- OneDevice
  BigEndian = FALSE
  Formats <- SmallFormats
  Rates = {11, 15}
  Times = {50, 350, 700}
  Wrap = 8000
  NoStream = NoStream
  Requests = {1, 2}
  Chunks = {1, 2, 3, 7}
  MaxBytes = 12
  StartFails = TRUE
  StopFails = TRUE
  TearDown = TRUE
INVARIANT TypeOK
PROPERTY DeliversInOrder
PROPERTY CallsReturn
CHECK_DEADLOCK FALSE
