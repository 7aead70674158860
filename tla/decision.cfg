SPECIFICATION Spec
CONSTANTS
  Anomaly = {1, 2}
  About <- MCAbout
  Alert <- MCAlert
  Intel = {2}
  Doc <- MCDoc
  AddressWorld <- MCWorld
  Key = "k1"
  Limit = 2
  TickLength = 1000
  MaxTicks = 1
  MaxFaults = 2
INVARIANTS
  NothingSkipped
  CommandIsRecorded
  CommandsPerAnomaly
PROPERTIES
  AnomaliesDecided
CHECK_DEADLOCK FALSE
