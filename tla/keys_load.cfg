CONSTANTS
  Counts = {0, 2, 3}
  RootBalance = 4
  MaxRuns = 3
  MaxKeys = 4
  MaxEvents = 2
SPECIFICATION Spec
INVARIANT WritesBack
