SPECIFICATION FairSpec
CONSTANTS
  SyncConfigurators = {s}
  AsyncConfigurators = {a1}
  UserOutcomes = {"returns", "throws"}
  AwaitsEach = TRUE
  AwaitsLast = FALSE
  NoClient = NoClient
CHECK_DEADLOCK FALSE
INVARIANTS
  TypeOK
  CalledObjectExists
  ResultIsFresh
  ResultNotTorn
PROPERTIES
  AwaitReturnsUnlessCallbackDid
