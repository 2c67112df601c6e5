SPECIFICATION FairSpec
CONSTANTS
  Writers = {"main", "watchdog", "installer"}
  Main = "main"
  MaxMessages = 2
PROPERTIES DestructorReturns
CHECK_DEADLOCK FALSE
