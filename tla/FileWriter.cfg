SPECIFICATION Spec
CONSTANTS
  Drivers = {"wav", "au", "raw"}
  Starts = {0, 2}
  MaxStart = 2
  Buffered = 4
  Modulus = 7
  Chunks = {1, 5}
  MaxBytes = 9
INVARIANT TypeOK
INVARIANT HeaderIsTrue
PROPERTY DeliversInOrder
CHECK_DEADLOCK FALSE
