SPECIFICATION FairSpec
CONSTANTS
  Ids = {1, 2}
  Retryable = {1, 2}
  Loads <- BothLoads
  MaxPending = 2
  MaxExecuting = 1
  CacheSize = 1
  RetryCap = 1
  
PROPERTIES DeadlineHonoured ExecutingDrains
CHECK_DEADLOCK FALSE
