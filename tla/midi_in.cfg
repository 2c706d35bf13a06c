SPECIFICATION FairSpec
CONSTANTS
  Devices = {"a", "b", "c"}
  Twins = {"a", "b"}
  MaxChanges = 2
  Bytes = {0, 128, 143, 240, 244, 255}
  DriverErrors = {3, 65}
CHECK_DEADLOCK FALSE
INVARIANTS
  StatusesAgree
  FailuresHaveOneCause
  CalledWhileThere
PROPERTIES
  DisconnectJustified
  DisconnectIsReported
  DestructionEnds
