SPECIFICATION Spec
CONSTANTS
  k1 = k1  k2 = k2
  NoKey = NoKey
  Key = {k1, k2}
  Peers = 2
  MaxFaults = 3
  MaxMoves = 2
INVARIANTS
  PlacedIsOwned
  ContainmentLifted
  SharedEntryKept
  ObservedEntryKept
  RevertRepeats
CHECK_DEADLOCK FALSE
