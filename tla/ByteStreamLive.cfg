SPECIFICATION FairSpec
CONSTANTS
  WindowB <- Eight
  WindowF <- Twelve
  MaxChunk = 3
  U32 = 64
  WriteSizes = {3}
  ReadSizes = {1}
  MaxWriteB = 6
  MaxWrites = 2
  MaxReads = 1
  ControlCap = 12
  BulkCap = 12
  Shared = FALSE
  Backlog = FALSE
  Deadlines = FALSE
  Faults = FALSE
  Finishers = {"a"}
  MaxBytes <- NineFromA
PROPERTIES BytesArrive FinReachesReader
CHECK_DEADLOCK FALSE
