SPECIFICATION Spec
CONSTANTS
  Payload = {0, 1}
  SeqWindowSize = 2
  MaxReorgDepth = 3
  MaxL1 = 3
  MaxL2 = 4
  Inputs <- MCInputs
  L1Chains <- MCL1Chains
  MaxMoves = 1
INVARIANTS AgreesWithSyncHeads HeadsOrdered
PROPERTY SearchEnds
CHECK_DEADLOCK FALSE
