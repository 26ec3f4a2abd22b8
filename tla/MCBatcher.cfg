SPECIFICATION FairSpec
CONSTANTS
  Sizes = {1, 4}
  MinSize = 5
  MaxSize = 8
  MaxL2BlocksPerBatchResponse = 3
  MaxEntries = 2
  ShortList = 5
  MaxL2 = 3
  Allowed <- SomeAllowed
INVARIANTS NoBlockSkipped LimitsKept
PROPERTY NoLiveLock
