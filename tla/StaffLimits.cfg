\* Three sends over two businesses against a daily cap and two velocity windows.
SPECIFICATION Spec
CONSTANTS
  s1 = s1
  b1 = b1
  b2 = b2
  k1 = k1
  k2 = k2
  k3 = k3
  j1 = j1
  j2 = j2
  NoJob = NoJob
  Owner = Owner
  Keys = {k1, k2, k3}
  Intent <- LimitsIntent
  Staff = {s1}
  Biz = {b1, b2}
  Jobs = {j1, j2}
  Caps = {0, 4}
  NipFee = 1
  Day = 1
  Stuck = 1
  AmlWindows <- LimitsWindows
  Horizon = 2
  MaxStarts = 3
  MaxChanges = 1
  MaxDrops = 0
SYMMETRY JobSymmetry
INVARIANTS
  CapHonoured
  AmlHonoured
  BooksCoverBank
  SuccessIsBanked
CHECK_DEADLOCK FALSE
