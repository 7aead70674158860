SPECIFICATION Spec
CONSTANTS
  r1 = r1  r2 = r2  t1 = t1  p1 = p1
  None = None
  Response = {r1, r2}
  TargetOf <- MCOneTarget
  PolicyOf <- MCPolicyOf
  Catalogs = 1
  Protected <- MCProtected
  Ttl = 1
  AuthLife = 1
  RateWindow = 2
  MaxActions = 2
  ClockMayRegress = FALSE
  MaxClock = 2
  MaxCrashes = 1
  MaxAdapterFailures = 1
  RecoverEvery = 2
  MaxOutages = 1
SYMMETRY MCSymmetry
INVARIANTS
  UncertainApplyCompensated
  ExportFaithful
CHECK_DEADLOCK FALSE
