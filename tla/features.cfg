SPECIFICATION Spec
CONSTANTS
  a = a  b = b
  Entity = {a, b}
  MaxWindow = 3
  Malformed = {1}
  Lookback = 2
  MaxWindows = 8
  MaxEvents = 2
  MaxIngested <- MCMaxIngested
  MaxFaults = 1
INVARIANTS
  DoneIsDelivered
PROPERTIES
  SettledWindowsFixed
  FailedWindowsSettle
CHECK_DEADLOCK FALSE
