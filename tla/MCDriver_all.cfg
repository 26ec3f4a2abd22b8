SPECIFICATION Spec
CONSTANTS
  Txs = {"none", "u"}
  NoTxs = "none"
  ForbiddenTxs = {}
  Payload = {"n", "b"}
  BatchesOf <- MCBatchesOf
  Allowed <- DriverAllowed
  BlockTime = 1
  MaxSequencerDrift = 2
  SeqWindowSize = 2
  MaxReorgDepth = 10
  Sequencer = TRUE
  L1BlockTime = 1
  MaxL1 = 3
  MaxL2 = 4
INVARIANTS WindowContiguous SafeBehindUnsafe EpochInProgress SafeDerivedAfterReorg OriginsContinuous EngineSafeDerived
PROPERTIES ImplementsSafeChain
CHECK_DEADLOCK FALSE
