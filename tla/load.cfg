CONSTANTS
  Accounts = {a1, a2}
  PoolSize = 2
  MaxFaults = 1
  Rounds = 3
  Delays = {0, 2}
  MaxLead = 2
  a1 = a1
  a2 = a2
SPECIFICATION FairSpec
INVARIANT TypeOK
INVARIANT Paced
INVARIANT RoundsInOrder
PROPERTY AllRounds
