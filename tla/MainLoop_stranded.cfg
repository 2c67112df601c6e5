SPECIFICATION FairSpec
CONSTANTS
  MaxMessages = 2
  Sources = {"timer", "peer"}
  Idle = {}
  BlockingCalls = {"init", "callback"}
  Threads = {}
PROPERTIES MessagesHandled
CHECK_DEADLOCK FALSE
