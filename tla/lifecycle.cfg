SPECIFICATION FairSpec
CONSTANTS
  Impls = {i1, i2, i3}
  NoImpl = NoImpl
  MaxRefs = 2
  Changes = 2
  Rules = {"first_last", "no_return", "queue_outlives"}
CHECK_DEADLOCK FALSE
INVARIANTS
  NothingDangles
  CountIsOwners
  LibraryOutlivesPlugin
PROPERTIES
  ReleasedForGood
