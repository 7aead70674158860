SPECIFICATION Spec
CONSTANTS
  k1 = k1  k2 = k2
  NoOp = NoOp
  Op = {k1, k2}
  MaxFaults = 2
  MaxLate = 1
  MaxReboots = 1
  MaxQueue = 3
INVARIANTS
  VerifiedIsolationLifted
  VerifiedIsIsolated
CHECK_DEADLOCK FALSE
