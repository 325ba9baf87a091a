\* A payment queued behind a debt on a closed day: expected to be violated.
SPECIFICATION Spec
CONSTANTS
  x1 = x1
  x2 = x2
  q1 = q1
  q2 = q2
  q3 = q3
  q4 = q4
  k1 = k1
  k2 = k2
  k3 = k3
  j1 = j1
  j2 = j2
  NoJob = NoJob
  Debts = {x1, x2}
  Amount <- Sizes
  Op <- DebtAndPayment
  Queue <- DebtThenPay
  Old = {q2}
  Jobs = {j1, j2}
  MaxFaults = 0
  MaxLocks = 2
INVARIANT NothingDropped
CHECK_DEADLOCK FALSE
