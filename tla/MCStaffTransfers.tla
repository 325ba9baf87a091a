--------------------------- MODULE MCStaffTransfers ---------------------------
(***************************************************************************)
(* Small instances of StaffTransfers for TLC.                              *)
(***************************************************************************)
EXTENDS StaffTransfers, TLC

CONSTANTS s1, b1, b2, k1, k2, k3, j1, j2

\* Payout instance: one transfer of a staff member to another bank.
PayoutIntent ==
  k1 :> [actor |-> s1, biz |-> b1, amount |-> 1, internal |-> FALSE]

NoWindows == {}

\* Limits instance: a staff member acting for two businesses of an owner who
\* also sends from the first of them.
LimitsIntent ==
  (k1 :> [actor |-> s1, biz |-> b1, amount |-> 2, internal |-> FALSE]) @@
  (k2 :> [actor |-> s1, biz |-> b2, amount |-> 2, internal |-> TRUE]) @@
  (k3 :> [actor |-> Owner, biz |-> b1, amount |-> 2, internal |-> FALSE])

\* One transfer a day and three in two days: [len, limit] as in amlLimits.
LimitsWindows == {[len |-> 1, limit |-> 3], [len |-> 2, limit |-> 5]}

JobSymmetry == Permutations(Jobs)

=============================================================================
