SPECIFICATION SpecAll
CONSTANTS
  MaxMessages = 3
  Sources = {"timer", "idle"}
  Idle = {"idle"}
  BlockingCalls = {"init", "callback"}
  Threads = {"installer"}
  Sinks = {1, 2}
  Microphones = {1}
  Streams = {1}
  Names = {"a", "b"}
  PortSets = {{}, {"p", "q"}}
  MaxChanges = 2
  MaxRequests = 1
  Keys = {"k", "m"}
  Subs = {1, 2}
  MaxSignals = 3
  MaxFailures = 1
  Objects = {"o", "q"}
  Props = {"a", "b"}
  ReadOnly = {"b"}
  Values = {1, 2}
  MaxDepth = 3
  MaxCalls = 2
  Disks <- SixDisks
  Sizes = {1, 2}
  MaxOps = 3
  MinBoot = 2
  NewBoot = 2
  MinRoot = 2
  NewUsers = {"alice", "bob"}
  Groups = {1, 2}
  Others = {"mail"}
  MaxFaults = 2
  MaxAdded = 2
  Batteries = {"b0", "b1"}
  MaxEvents = 4
  Locales = {"en", "fi"}
  MaxLocaleChanges = 4
  Points = {"p", "q"}
  NoPoint = "none"
  Strengths = {1, 2}
  Profiles = {"A", "B"}
  NoProfile = "none"
  MaxBatches = 3
  MaxProfiles = 3
INVARIANTS TypesOK NothingStranded
INVARIANTS AudioMirrored LinksMirrored ProfilePreferred
INVARIANTS SignalsDelivered AnnouncedIsValue
INVARIANTS SizesAddUp OnlyNamedLost ExecutedAsPlanned
INVARIANTS InitialUserComplete MembershipsKept StatusMirrored
CHECK_DEADLOCK FALSE
