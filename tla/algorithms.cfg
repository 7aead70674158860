SPECIFICATION AlgorithmsSpec
CONSTANTS
  r1 = r1
  r2 = r2
  Captures <- MCCaptures
  Histories <- MCHistories
  Benchmarks <- MCBenchmarks
  Experiments <- MCExperiments
  Requests <- MCRequests
  Audits <- MCAudits
  Firewalls <- MCFirewalls
  Trials <- MCTrials
  Response = {r1, r2}
  MaxEvents <- MCMaxEvents
  MaxVersions = 5
CHECK_DEADLOCK FALSE
INVARIANTS
  VectorsFaithful
  HistoryServedAsTrained
  BenchmarkFaithful
  NoLeakage
  CommandFaithful
  StrictReportHolds
  LedgersFaithful
  CredentialIsCurrent
  BackendsFaithful
  LabRunFaithful
