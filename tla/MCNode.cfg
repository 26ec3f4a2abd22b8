SPECIFICATION FairSpec
CONSTANTS
  Self = Self
  Found1 = Found1
  Foreign1 = Foreign1
  EngineA = EngineA
  EngineB = EngineB
  Idle = Idle
  Gone = Gone
  NoPeer = NoPeer
  Peers = {Found1, Foreign1}
  Records <- MCRecords
  Table <- MCTable
  L2ChainID = 901
  ConnectGoal = 1
  ConnectionWorkers = {w1}
  ConnectionBufferSize = 1
  DiscoveredNodesBuffer = 1
  PeersHi = 1
  MaxTimeouts = 1
  Setups <- MCSetups
  MaxAttempts = 2
  HeadsBuffer = 1
INVARIANTS InUseIsOpen PanicPlaces
PROPERTIES KnownWithReason StaticNotTrimmed CloseEnds 
CHECK_DEADLOCK FALSE
