\* A deposit and a withdrawal whose fees wait for money, a crash or the loop.
SPECIFICATION FairSpec
CONSTANTS
  p1 = p1
  k1 = k1
  k2 = k2
  k3 = k3
  j1 = j1
  j2 = j2
  NoJob = NoJob
  Cron = Cron
  Pots = {p1}
  Keys = {k1, k2}
  Ask <- TwoAsks
  DepositFee = 1
  BreakFee = 1
  Deposited = 3
  Jobs = {j1}
  Horizon = 2
  MaxStarts = 2
  MaxFaults = 2
  MaxCredits = 1
PROPERTY FeesAreClaimed
CHECK_DEADLOCK FALSE
