\* An approval that booked its transfer and then fails to write its compliance flags.
SPECIFICATION Spec
CONSTANTS
  s1 = s1
  b1 = b1
  b2 = b2
  k1 = k1
  k2 = k2
  k3 = k3
  j1 = j1
  j2 = j2
  NoJob = NoJob
  Owner = Owner
  Keys = {k1}
  Intent <- PayoutIntent
  Staff = {s1}
  Biz = {b1}
  Jobs = {j1, j2}
  Caps = {0}
  NipFee = 1
  Day = 1
  Stuck = 1
  AmlWindows <- NoWindows
  Horizon = 1
  MaxStarts = 2
  MaxChanges = 0
  MaxDrops = 0
PROPERTY BookedNotFailed
CHECK_DEADLOCK FALSE
