SPECIFICATION FairSpec
CONSTANTS
  SyncConfigurators = {s}
  AsyncConfigurators = {a1}
  UserOutcomes = {"returns"}
  AwaitsEach = TRUE
  AwaitsLast = TRUE
  NoClient = NoClient
CHECK_DEADLOCK FALSE
PROPERTIES
  AwaitReturns
