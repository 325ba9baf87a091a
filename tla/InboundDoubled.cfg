\* Events that come late: expected to be violated.
SPECIFICATION Spec
CONSTANTS
  a = a
  b = b
  k = k
  a1 = a1
  a2 = a2
  b1 = b1
  k1 = k1
  None = None
  Credits = {a, b, k}
  Events = {a1, a2, b1, k1}
  About <- AboutOf
  Kind <- KindOf
  Order <- OrderOf
  Amount <- AmountOf
  MadeAt <- Minute
  ListAt <- Minute
  PaidAt <- PaidAtOf
  Timed = {a, b, k}
  Linked = {k}
  Quoted = {}
  Anonymous = {a, b}
  ListSize = 3
  MaxCrashes = 1
INVARIANT ConvergeOnOneRow
CHECK_DEADLOCK FALSE
