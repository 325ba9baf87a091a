\* One conversion confirmed twice, the loop and late webhooks, under fairness.
SPECIFICATION FairSpec
CONSTANTS
  c1 = c1
  c2 = c2
  b1 = b1
  j1 = j1
  j2 = j2
  NoJob = NoJob
  NoConv = NoConv
  Cron = Cron
  Convs = {c1}
  Order <- OneOrder
  Biz = {b1}
  Received <- ThreeEuros
  Jobs = {j1}
  MaxConfirms = 1
  MaxFaults = 2
PROPERTY LandedIsSeen
CHECK_DEADLOCK FALSE
