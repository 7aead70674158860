SPECIFICATION Spec
CONSTANTS
  k1 = k1  k2 = k2
  NoKey = NoKey
  Key = {k1, k2}
  Peers = 2
  MaxFaults = 1
  MaxMoves = 1
INVARIANTS
  ForeignEntryKept
CHECK_DEADLOCK FALSE
