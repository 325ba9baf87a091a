\* What the deletion of a customer leaves: expected to be violated.
SPECIFICATION Spec
CONSTANTS
  c1 = c1
  c2 = c2
  d1 = d1
  s1 = s1
  x1 = x1
  x2 = x2
  i1 = i1
  i2 = i2
  k1 = k1
  None = None
  Credits <- TwoCredits
  Deposits = {d1}
  Sales = {s1}
  Debts = {x1, x2}
  Invoices = {i1, i2}
  Customers = {k1}
  Amount <- Amounts
  Day <- DaysOf
  Owner <- OneOwner
  Holds <- HeldIn
  LastDay = 3
  Window = 1
  PaymentIds = {1, 2, 3}
  MaxOps = 5
  SaleAmounts = {3}
  HandDays = {1}
  DepositDays = {1, 3}
  LockDays = {0, 1, 2}
INVARIANT MatchedMoneyKept
CHECK_DEADLOCK FALSE
