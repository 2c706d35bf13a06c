SPECIFICATION FairSpec
CONSTANTS
  Impls = {i1, i2}
  NoImpl = NoImpl
  MaxRefs = 1
  Changes = 1
  Rules = {"first_last", "no_return", "queue_outlives"}
CHECK_DEADLOCK FALSE
PROPERTIES
  CreationEnds
