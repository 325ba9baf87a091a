\* A retry after the cap was raised, with the first attempt still queued.
SPECIFICATION Spec
CONSTANTS
  s1 = s1
  b1 = b1
  b2 = b2
  k1 = k1
  k2 = k2
  k3 = k3
  j1 = j1
  j2 = j2
  NoJob = NoJob
  Owner = Owner
  Keys = {k1}
  Intent <- PayoutIntent
  Staff = {s1}
  Biz = {b1}
  Jobs = {j1, j2}
  Caps = {0, 5}
  NipFee = 1
  Day = 1
  Stuck = 1
  AmlWindows <- NoWindows
  Horizon = 2
  MaxStarts = 4
  MaxChanges = 1
  MaxDrops = 0
INVARIANT IntentPaidOnce
CHECK_DEADLOCK FALSE
