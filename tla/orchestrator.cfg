SPECIFICATION Spec
CONSTANTS
  r1 = r1  r2 = r2  r3 = r3  t1 = t1  t2 = t2  p1 = p1
  None = None
  Response = {r1, r2, r3}
  TargetOf <- MCTargetOf
  PolicyOf <- MCPolicyOf
  Catalogs = 2
  Protected <- MCProtected
  Ttl = 1
  AuthLife = 1
  RateWindow = 1
  MaxActions = 1
  ClockMayRegress = TRUE
  MaxClock = 2
  MaxCrashes = 1
  MaxAdapterFailures = 1
INVARIANTS
  TypeOK
  StoreAlwaysAccepts
  ContainmentRecoverable
  OneContainmentPerTarget
  AppliedAtMostOnce
  RateLimited
PROPERTIES
  ImplementsLifecycle
CHECK_DEADLOCK FALSE
