SPECIFICATION Spec
CONSTANTS
  Ids = {1, 2, 3}
  NoId = 0
  Users = {"root", "alice"}
  Root = "root"
  LiveUser = "alice"
  GreeterUser = "greeter"
  NoUser = "nobody"
  AutologinUser = "nobody"
  LiveEnvironment = FALSE
  MaxBatch = 2
  Failures = {}
  GreeterMayEnd = TRUE
INVARIANTS LoginAvailable
CHECK_DEADLOCK FALSE
