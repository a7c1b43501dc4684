CONSTANTS
  Counts = {0, 1, 2}
  Gaps = {1, 3}
  MaxHead = 4
  MaxFaults = 2
  None = None
SPECIFICATION FairSpec
INVARIANT TypeOK
INVARIANT ReportGapless
PROPERTY EveryBlockReported
