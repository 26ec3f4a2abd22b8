SPECIFICATION Spec
CONSTANTS
  Failure = Failure
  None = None
  Nil = Nil
  Malformed = Malformed
  Garbage = Garbage
  Null = Null
  MaxRetry = 2
  MaxPerBatch = 1
  MaxParallel = 1
  MaxU64 = 255
  CacheSize = 2
  MaxEvents = 1
  Worlds <- MCWorlds
  FirstTip = "A2"
  Tips <- MCTips
  Wanted = {}
  Ranges <- LongRange
  Windows = {}
PROPERTY NoWorkerStuck
CHECK_DEADLOCK FALSE
