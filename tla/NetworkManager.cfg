SPECIFICATION FairSpec
CONSTANTS
  Devices = {"wlan0", "wlan1"}
  Profiles = {"A", "B"}
  NoProfile = "none"
  MaxRequests = 1
  MaxActivations = 2
  MaxEvents = 2
INVARIANTS OneTruthfulAnswer SignalsMatchDevices ConnectionsMirrored
PROPERTIES RequestAnswered
CHECK_DEADLOCK FALSE
