SPECIFICATION FairSpec
CHECK_DEADLOCK FALSE
CONSTANTS
  SUBMISSION_INTERVAL = 2
  L2_BLOCK_TIME = 1
  HISTORICAL_TOTAL_BLOCKS = 3
  STARTING_BLOCK_TIMESTAMP = 1
  MaxL1 = 4
  Allowed <- MCAllowed
INVARIANTS OutputsOnSchedule OutputOfItsBlock OutputKeepsItsL1
PROPERTY OutputsKeepUp
