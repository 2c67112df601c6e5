SPECIFICATION FairSpec
CONSTANTS
  Ids = {1, 2}
  NoId = 0
  Users = {"alice"}
  Root = "root"
  LiveUser = "alice"
  GreeterUser = "greeter"
  NoUser = "nobody"
  AutologinUser = "nobody"
  LiveEnvironment = TRUE
  MaxBatch = 2
  Failures = {"startup"}
  GreeterMayEnd = FALSE
INVARIANTS NoOrphans LoginAvailable
PROPERTIES DeadSessionReaped InstallerOffered
CHECK_DEADLOCK FALSE
