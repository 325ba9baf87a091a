\* "The net that guarantees the naira still arrives", when the server stops before the send.
SPECIFICATION FairSpec
CONSTANTS
  c1 = c1
  c2 = c2
  b1 = b1
  j1 = j1
  j2 = j2
  NoJob = NoJob
  NoConv = NoConv
  Cron = Cron
  Convs = {c1}
  Order <- OneOrder
  Biz = {b1}
  Received <- ThreeEuros
  Jobs = {j1}
  MaxConfirms = 1
  MaxFaults = 1
PROPERTY NairaRequested
CHECK_DEADLOCK FALSE
