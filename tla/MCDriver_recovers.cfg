SPECIFICATION FairSpec
CONSTANTS
  Txs = {"none", "u"}
  NoTxs = "none"
  ForbiddenTxs = {}
  Payload = {"n", "b"}
  BatchesOf <- MCBatchesOf
  Allowed <- RecoveryAllowed
  BlockTime = 1
  MaxSequencerDrift = 2
  SeqWindowSize = 2
  MaxReorgDepth = 10
  Sequencer = FALSE
  L1BlockTime = 1
  MaxL1 = 3
  MaxL2 = 4
PROPERTIES CatchesUp
CHECK_DEADLOCK FALSE
