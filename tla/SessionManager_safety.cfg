SPECIFICATION Spec
CONSTANTS
  Ids = {1, 2, 3}
  NoId = 0
  Users = {"root", "alice"}
  Root = "root"
  LiveUser = "alice"
  GreeterUser = "greeter"
  NoUser = "nobody"
  AutologinUser = "nobody"
  LiveEnvironment = FALSE
  MaxBatch = 2
  Failures = {"auth"}
  GreeterMayEnd = TRUE
INVARIANTS GreeterAlone JobsAccountedFor SeatShowsSession
PROPERTIES NoSpuriousStop
CHECK_DEADLOCK FALSE
