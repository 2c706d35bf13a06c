SPECIFICATION Spec
CHECK_DEADLOCK FALSE
CONSTANTS
  Slots = {1, 2}
  MaxHandles = 3
  MaxFailures = 1
  Room = 2
  Libraries <- MCLibraries
INVARIANTS
  ErrorsTellTheCause
  DescriptionIsOfThisError
  HandlesOwnedOnce
  DescriptorIsItsOwn
