SPECIFICATION Spec

CONSTANTS
  c1 = c1  c2 = c2  console = console
  Clients = {c1, c2}
  Console = console
  Buckets = 2
  MaxLevels = 2
  Workloads <- MCWorkloads
  BenchOps = 1

INVARIANTS
  AckedWritesSurvive
  UnavailableOnlyIfOutlived
  PagesAreConsistent
  GaugesAgree
  SnapshotsReleased
  BenchTotalsExact

PROPERTIES
  ProcessEnds
