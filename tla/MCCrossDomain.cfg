SPECIFICATION FairSpec
CHECK_DEADLOCK FALSE
CONSTANTS
  FINALIZATION_PERIOD = 1
  Balance = 1
  MaxSends = 3
  MaxSent = 3
  MaxFails = 1
  MaxReverts = 1
  MaxDeletes = 1
  MayPause <- MCMayPause
INVARIANTS EscrowBacksSupply PortalBacksL2 FailedMessagesFunded
PROPERTY EveryMessageRelayed
