CONSTANTS
  Counts = {0, 1, 3}
  Sources = 2
  MaxLead = 2
  MaxFaults = 1
SPECIFICATION FairSpec
INVARIANT TypeOK
INVARIANT TwoPhasesPerBlock
INVARIANT WithdrawalsHaveDeposits
PROPERTY Terminates
