\* Two salaries over a week: changes that cross, dismissals, batches and crashes.
SPECIFICATION Spec
SYMMETRY Symmetry
CONSTANTS
  MonthDays <- FromSeptember2026
  FirstWeekday = 2
  s1 = s1
  s2 = s2
  p1 = p1
  p2 = p2
  a1 = a1
  a2 = a2
  x1 = x1
  x2 = x2
  r1 = r1
  r2 = r2
  b1 = b1
  b2 = b2
  None = None
  Schedules = {s1, s2}
  Staff = {p1, p2}
  Amounts = {a1, a2}
  Payees = {x1, x2}
  Requests = {r1, r2}
  Batches = {b1, b2}
  Given <- Fridays
  Offers <- FirstOffer
  Edits <- EditsOf
  Days = {7, 10, 14}
  MaxEdits = 2
  MaxFaults = 1
INVARIANTS
  TypeOK
  PaidOnce
  ConsentedTogether
  NoneForgotten
CHECK_DEADLOCK FALSE
