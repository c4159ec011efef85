SPECIFICATION FairSpec
CONSTANTS
  Blocks = 3
  Length = 2
  Chunks = {1, 3, 5}
  MaxBytes = 14
  WriteFails = TRUE
  PlaysOn = TRUE
INVARIANT TypeOK
INVARIANT SentAreCounted
PROPERTY DeliversInOrder
PROPERTY CallsReturn
CHECK_DEADLOCK FALSE
