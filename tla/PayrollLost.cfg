\* Salaries due on the first of the month and on Saturdays, Fridays as paid.
SPECIFICATION Spec
CONSTANTS
  MonthDays <- FromSeptember2026
  FirstWeekday = 2
  s1 = s1
  s2 = s2
  p1 = p1
  p2 = p2
  a1 = a1
  a2 = a2
  x1 = x1
  x2 = x2
  r1 = r1
  r2 = r2
  b1 = b1
  b2 = b2
  None = None
  Schedules = {s1}
  Staff = {p1}
  Amounts = {a1, a2}
  Payees = {x1, x2}
  Requests = {r1}
  Batches = {b1}
  Given <- Weekends
  Offers <- WeekendOffers
  Edits = {}
  Days = {8, 10, 17, 24, 30, 31, 38, 45, 52, 59}
  MaxEdits = 0
  MaxFaults = 0
INVARIANT EveryPayDayQueued
CHECK_DEADLOCK FALSE
