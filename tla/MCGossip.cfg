SPECIFICATION Spec
CONSTANTS
  MaxExtra = 2
  Undecodable = Undecodable
  Panics = Panics
  Payloads <- MCPayloads
  Elsewhere <- MCElsewhere
  Strays <- MCStrays
  Plans <- MCPlans
  Slots = {1, 2}
  MaxSeen = 0
  LRUSize = 1
  SubBuffer = 1
  TooOld = 0
  TooNew = 0
  MaxGossipSize = 20
  MaxClock = 1
INVARIANTS
  OnlySequencerBlocks
  SeenBounded
  PublishedAccepted
PROPERTIES
  PublishedArrives
CHECK_DEADLOCK FALSE
