SPECIFICATION Spec
CONSTANTS
  m1 = m1
  Vector = {1, 2}
  Invalid = {}
  Exported = {}
  Model = {m1}
  IsolationForest = {m1}
  PullLimit = 2
  PageSize = 2
  DrainLimit = 2
  DayLength = 4
  MaxTime = 1
  MaxModelChanges = 0
  MaxRequeues = 0
  MaxFaults = 1
  About <- MCAbout
  Alert = {}
  Intel = {1, 2}
  Doc <- MCDoc
  AddressWorld <- MCWorld
  Key = "k1"
  Limit = 2
INVARIANTS
  NeverSkipped
CHECK_DEADLOCK FALSE
