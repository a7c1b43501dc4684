CONSTANTS
  r1 = r1
  r2 = r2
  Runs = {r1, r2}
  MaxHeight = 2
  Times = {1, 2, 3}
  Values = {0, 1, 2}
  TmLogs <- SmallTmLogs
  AbciLogs <- SmallAbciLogs
  Nil = Nil
SPECIFICATION Spec
INVARIANT TypeOK
INVARIANT RecordsFromLogs
INVARIANT CleanRunComplete
SYMMETRY RunSymmetry
