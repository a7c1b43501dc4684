CONSTANTS
  Calls = 2
  PerCall = 2
  Durations = {0, 300}
  Modulus = 8
  QueueMax = 2
  Delta = 100
SPECIFICATION FairSpec
INVARIANT TypeOK
INVARIANT CurCountsInFlight
INVARIANT ResultsExact
INVARIANT ReportConsistent
INVARIANT CrashNeedsLeakOrZero
PROPERTY CallsEnd
PROPERTY QueueFreezes
