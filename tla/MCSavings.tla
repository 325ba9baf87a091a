------------------------------ MODULE MCSavings ------------------------------
(***************************************************************************)
(* Small instances of Savings for TLC: one pot, a deposit into it, a        *)
(* withdrawal of the same amount, and a send.                               *)
(***************************************************************************)
EXTENDS Savings, TLC

CONSTANTS p1, k1, k2, k3, j1, j2

ThreeAsks ==
  (k1 :> [op |-> "deposit", pot |-> p1, amount |-> 2]) @@
  (k2 :> [op |-> "withdraw", pot |-> p1, amount |-> 2]) @@
  (k3 :> [op |-> "send", pot |-> p1, amount |-> 2])

TwoAsks ==
  (k1 :> [op |-> "deposit", pot |-> p1, amount |-> 2]) @@
  (k2 :> [op |-> "withdraw", pot |-> p1, amount |-> 1])

JobSymmetry == Permutations(Jobs)

=============================================================================
