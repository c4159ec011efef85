SPECIFICATION FairSpec
CONSTANTS
  Drivers <- AllDrivers
  Piece = 3
  FrameBytes = 2
  Block = 3
  NasBuffer = 4
  Chunks = {1, 2, 3, 4, 7}
  MaxBytes = 10
  Breaks = TRUE
INVARIANT TypeOK
INVARIANT WholeBlocks
PROPERTY DeliversInOrder
PROPERTY CallsReturn
CHECK_DEADLOCK FALSE
