SPECIFICATION FairSpec
CONSTANTS
  Clients = {c1, c2, c3}
  Throwing = {c3}
  NoClient = NoClient
CHECK_DEADLOCK FALSE
INVARIANTS
  CallbackNotTorn
  AvailableUnlessBusy
PROPERTIES
  AcceptedIsReported
  DestructorJoins
  ServiceSpec
