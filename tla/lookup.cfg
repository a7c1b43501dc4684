CONSTANTS
  Accounts = {a1, a2}
  PoolSize = 2
  MaxFaults = 2
  N = 3
SPECIFICATION FairSpec
INVARIANT TypeOK
INVARIANT PaidInOrder
 
INVARIANT OnlyFaultsLose
PROPERTY CommandEnds
