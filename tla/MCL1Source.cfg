SPECIFICATION Spec
CONSTANTS
  Failure = Failure
  None = None
  Nil = Nil
  Malformed = Malformed
  Garbage = Garbage
  Null = Null
  MaxRetry = 2
  MaxPerBatch = 2
  MaxParallel = 2
  MaxU64 = 255
  CacheSize = 2
  MaxEvents = 3
  Worlds <- MCWorlds
  FirstTip = "A2"
  Tips <- MCTips
  Wanted <- MCWanted
  Ranges <- MCRanges
  Windows <- MCWindows
INVARIANTS
  WorkersAccounted
  CachesTruthful
  AnswersExact
  EpochReadBack
PROPERTIES
  CallsReturn
CHECK_DEADLOCK FALSE
