SPECIFICATION Spec
CONSTANTS
  l1 = l1
  None = None
  Dir = {a, b, c, d}
  Job = {p, q}
  Forest = {f1}
  Lstm = {l1}
  Dataset = {d1}
  Good <- MCGood
  Contract = {1, 2}
  SharedOutput = FALSE
  MaxStarts = 4
  MaxFaults = 1
INVARIANTS
  ServedMeetsPolicy
  ApprovalIsComplete
SYMMETRY Interchangeable
CHECK_DEADLOCK FALSE
