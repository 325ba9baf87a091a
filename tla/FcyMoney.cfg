\* Two conversions of one business with euros for one, and the loop.
SPECIFICATION Spec
CONSTANTS
  c1 = c1
  c2 = c2
  b1 = b1
  j1 = j1
  j2 = j2
  NoJob = NoJob
  NoConv = NoConv
  Cron = Cron
  Convs = {c1, c2}
  Order <- TwoOrders
  Biz = {b1}
  Received <- ThreeEuros
  Jobs = {j1, j2}
  MaxConfirms = 2
  MaxFaults = 1
INVARIANTS
  TypeOK
  NairaAfterEuros
  NotOfferedAgain
  PaidMeansLanded
  NotOverdrawn
SYMMETRY Symmetry
CHECK_DEADLOCK FALSE
