SPECIFICATION HostFairSpec
CONSTANTS
  Readers = {"main"}
  Count = 5
  Capacity = 7
  Submits = 2
CHECK_DEADLOCK FALSE
INVARIANTS
  NothingLost
  PopNeverBlocks
  RemovedIsComing
PROPERTIES
  RemovedIsReceived
  BothEnd
