\* "Nothing was taken from your balance", when the answer of the convert call is lost.
SPECIFICATION Spec
CONSTANTS
  c1 = c1
  c2 = c2
  b1 = b1
  j1 = j1
  j2 = j2
  NoJob = NoJob
  NoConv = NoConv
  Cron = Cron
  Convs = {c1}
  Order <- OneOrder
  Biz = {b1}
  Received <- ThreeEuros
  Jobs = {j1}
  MaxConfirms = 2
  MaxFaults = 2
INVARIANT FailedMeansUntouched
CHECK_DEADLOCK FALSE
