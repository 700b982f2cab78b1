SPECIFICATION FairSpec
CONSTANTS
  WindowB <- Twelve
  WindowF <- Two
  MaxChunk = 2
  U32 = 64
  WriteSizes = {1}
  ReadSizes = {1}
  MaxWriteB = 4
  MaxWrites = 2
  MaxReads = 1
  ControlCap = 12
  BulkCap = 12
  Shared = FALSE
  Backlog = FALSE
  Deadlines = FALSE
  Faults = FALSE
  Finishers = {}
  MaxBytes <- FourFromA
PROPERTY BytesArrive
CHECK_DEADLOCK FALSE
