SPECIFICATION MCSpec
CONSTANTS
  Byte = {0, 1}
  ExtraSize = 3
  MaxBytes = 8
  MaxChunk = 4
INVARIANTS TypeOK NothingLost DrainedIsReset
PROPERTY ImplementsStream
CHECK_DEADLOCK FALSE
