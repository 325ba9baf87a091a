\* A deposit, its withdrawal and a send, with lock edits, late calls and the loop.
SPECIFICATION Spec
CONSTANTS
  p1 = p1
  k1 = k1
  k2 = k2
  k3 = k3
  j1 = j1
  j2 = j2
  NoJob = NoJob
  Cron = Cron
  Pots = {p1}
  Keys = {k1, k2, k3}
  Ask <- ThreeAsks
  DepositFee = 1
  BreakFee = 1
  Deposited = 3
  Jobs = {j1, j2}
  Horizon = 2
  MaxStarts = 3
  MaxFaults = 1
  MaxCredits = 1
SYMMETRY JobSymmetry
INVARIANTS
  ReserveBacked
  FeeTakenOnce
  PotsMatchMoves
PROPERTY NoWayRoundTheLock
CHECK_DEADLOCK FALSE
