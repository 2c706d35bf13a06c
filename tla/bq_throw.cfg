SPECIFICATION Spec
CONSTANTS
  Threads = {t1, t2, t3}
  Values = {v1, v2}
  MaxSize = 2
  ElementsThrow = TRUE
  NoThread = NoThread
  NoValue = NoValue
SYMMETRY Symmetry
CHECK_DEADLOCK FALSE
CONSTRAINT QueueBound
INVARIANTS
  PermitsNeverExceedMax
