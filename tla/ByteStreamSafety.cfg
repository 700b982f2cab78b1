SPECIFICATION Spec
CONSTANTS
  WindowB <- Eight
  WindowF <- Two
  MaxChunk = 2
  U32 = 16
  WriteSizes = {3}
  ReadSizes = {2}
  MaxWriteB = 3
  MaxWrites = 2
  MaxReads = 1
  ControlCap = 2
  BulkCap = 3
  Shared = FALSE
  Backlog = TRUE
  Deadlines = TRUE
  Faults = TRUE
  Finishers = {"a", "b"}
  MaxBytes <- NineFromA
INVARIANTS ByteCreditSound ReceiverBounded
PROPERTY EofIsFinal
CHECK_DEADLOCK FALSE
