SPECIFICATION Spec
CONSTANTS
  m1 = m1  m2 = m2
  Vector = {1, 2, 3}
  Invalid = {1}
  Exported = {2}
  Model = {m1, m2}
  IsolationForest = {m1}
  PullLimit = 2
  PageSize = 2
  DrainLimit = 2
  DayLength = 1
  MaxTime = 1
  MaxModelChanges = 2
  MaxRequeues = 1
  MaxFaults = 1
INVARIANTS
  OneDocumentPerJob
  PulledIsQueued
PROPERTIES
  JobsEnd
CHECK_DEADLOCK FALSE
