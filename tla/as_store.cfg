SPECIFICATION Spec
CONSTANTS
  Readers = {r1, r2}
  Count = 4
CHECK_DEADLOCK FALSE
INVARIANTS
  StoreMatchesEvents
  ModifierNeverThrows
PROPERTIES
  NoentIsAnnounced
