SPECIFICATION FairAll
CONSTANTS
  MaxBusMessages = 3
  Sources = {"timer", "idle"}
  Idle = {"idle"}
  BlockingCalls = {"init", "callback"}
  Reporters = {"installer"}
  Timeout = 5
  Writers = {"main", "watchdog", "installer"}
  MainThread = "main"
  MaxMessages = 4
  Machines = {"old", "new"}
  Needs <- SharedPackages
  Tries = 2
  MaxConnections = 1
  MaxReboots = 2
  Capacity = 1
  MaxOutput = 2
  Leaders = {"s1", "s2"}
  Commands = {"c1"}
  Ttys = {1, 2}
  MaxKills = 1
INVARIANTS FrozenHandlerBounded CompleteMeansInstalled LeadersOwned
PROPERTIES CallbacksRunWithContext SignalEndsProcess
PROPERTIES AlarmNeedsBusyPeriod ImplementsQueue WorkersAnswer CommandReturns NoReaderStuck
CHECK_DEADLOCK FALSE
