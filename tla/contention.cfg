CONSTANTS
  s1 = s1
  s2 = s2
  a1 = a1
  Senders = {s1, s2}
  Accounts = {a1}
  Source <- SharedAccount
  Free = free
  NoHash = nohash
  N = 2
  Waiters = {s1}
  Retriers = {s1}
  WaitTime = 2
  PoolSize = 1
  MaxFaults = 1
SPECIFICATION FairSpec
INVARIANT TypeOK
INVARIANT FlagMatchesRecovery
INVARIANT NonceNotAhead
INVARIANT MetricsTrue
INVARIANT NoDoublePay
INVARIANT UntouchedMeansRecovered
INVARIANT PaymentsInOrder
PROPERTY ImplementsBackpressure
PROPERTY EveryoneSends
PROPERTY HashedReportReturns
