------------------------------ MODULE MCPayroll ------------------------------
(* Small instances of Payroll for TLC, on the calendar from September 2026. *)
EXTENDS Payroll, TLC

CONSTANTS s1, s2, p1, p2, a1, a2, x1, x2, r1, r2, b1, b2

FromSeptember2026 == <<30, 31, 30, 31, 31, 28>>

Monthly(day) == [every |-> "month", day |-> day]
Weekly(day)  == [every |-> "week", day |-> day]

No == [amount |-> None, payee |-> None, anchor |-> None, status |-> None]
EditsOf == {[No EXCEPT !.amount = a2], [No EXCEPT !.payee = x2],
            [No EXCEPT !.status = "paused"], [No EXCEPT !.status = "active", !.anchor = Weekly(4)]}

StatusEdits == {[No EXCEPT !.status = "paused"]}
FirstOffer == {[amount |-> a1, payee |-> x1, anchor |-> Weekly(5)]}
Fridays   == {Weekly(5), Weekly(4)}
Weekends  == {Weekly(6), Monthly(1)}
WeekendOffers == {[amount |-> a1, payee |-> x1, anchor |-> a] : a \in Weekends}
Symmetry == UNION {Permutations(S) : S \in {Requests, Batches, Schedules, Staff}}
=============================================================================
