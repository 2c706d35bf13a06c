SPECIFICATION Spec
CONSTANTS
  SyncConfigurators = {s}
  AsyncConfigurators = {a1}
  UserOutcomes = {"throws"}
  AwaitsEach = TRUE
  AwaitsLast = FALSE
  NoClient = NoClient
CHECK_DEADLOCK FALSE
PROPERTIES
  CallbackAsserted
