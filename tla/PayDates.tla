------------------------------- MODULE PayDates -------------------------------
(***************************************************************************)
(* The arithmetic of pay days (utils/salarySchedule.js), on Lagos civil     *)
(* days: day 0 is the first of the first month modelled.                    *)
(***************************************************************************)
EXTENDS Integers, Sequences, FiniteSets
LOCAL INSTANCE FiniteSetsExt

CONSTANTS
  MonthDays,    \* the lengths of the months modelled, in order
  FirstWeekday  \* the weekday of day 0; Sunday is 0

ASSUME CalendarAssumption == /\ MonthDays \in Seq(28..31) /\ MonthDays # <<>>
                             /\ FirstWeekday \in 0..6

Months == 1..Len(MonthDays)
MonthStart[m \in 1..(Len(MonthDays) + 1)] == IF m = 1 THEN 0 ELSE MonthStart[m - 1] + MonthDays[m - 1]
MonthOf(day) == CHOOSE m \in Months : MonthStart[m] <= day /\ day < MonthStart[m + 1]
Weekday(day) == (FirstWeekday + day) % 7

\* A pay day on a weekend is the Friday before.
ShiftForWeekend(day) ==
  CASE Weekday(day) = 6 -> day - 1
    [] Weekday(day) = 0 -> day - 2
    [] OTHER -> day

\* Pay days are monthly, clamped to the month's length, or weekly.
Anchors == [every : {"month"}, day : 1..31] \cup [every : {"week"}, day : 0..6]

PayDay(anchor, m) == ShiftForWeekend(MonthStart[m] + Min({anchor.day, MonthDays[m]}) - 1)

NextPayDate(anchor, from) ==
  IF anchor.every = "week"
  THEN LET ahead == (anchor.day - Weekday(from) + 7) % 7
       IN  ShiftForWeekend(from + IF ahead = 0 THEN 7 ELSE ahead)
  ELSE LET m == MonthOf(from)
       IN  Min({day \in {PayDay(anchor, k) : k \in m..(m + 3) \cap Months} : day > from})

\* The month or the ISO week a pay date lies in.
PeriodKey(anchor, day) ==
  IF anchor.every = "week" THEN (day + ((FirstWeekday + 6) % 7)) \div 7 ELSE MonthOf(day)
=============================================================================
