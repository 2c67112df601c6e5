SPECIFICATION FairSpec
CONSTANTS
  MaxMessages = 2
  Sources = {"timer", "peer"}
  Idle = {}
  BlockingCalls = {}
  Threads = {"installer"}
PROPERTIES CallbacksRun
CHECK_DEADLOCK FALSE
