SPECIFICATION FairSpec
CONSTANTS
  Threads = {t1, t2, t3}
  Values = {v1, v2}
  MaxSize = 2
  ElementsThrow = FALSE
  NoThread = NoThread
  NoValue = NoValue
CHECK_DEADLOCK FALSE
INVARIANTS
  TypeOK
  NeverPopsEmpty
  EveryPermitBacked
PROPERTIES
  FifoSpec
  RefusalIsJustified
  PoppersServed
  PushersServed
