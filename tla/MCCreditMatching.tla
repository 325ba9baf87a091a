-------------------------- MODULE MCCreditMatching --------------------------
(***************************************************************************)
(* A small instance of CreditMatching for TLC: two transfers of 2 on two    *)
(* days, a deposit, a sale, a customer's two debts and two invoices.        *)
(***************************************************************************)
EXTENDS Ledger, TLC

CONSTANTS c1, c2, d1, s1, x1, x2, i1, i2, k1

TwoCredits == {c1, c2}
Amounts == (c1 :> 2) @@ (c2 :> 2) @@ (d1 :> 2) @@ (x1 :> 1) @@ (x2 :> 2) @@ (i1 :> 2) @@ (i2 :> 1)
DaysOf == (c1 :> 2) @@ (c2 :> 3) @@ (s1 :> 2) @@ (x1 :> 1) @@ (x2 :> 2) @@ (i1 :> 1) @@ (i2 :> 2)
HeldIn == (s1 :> "Matching") @@ (x1 :> "Cash") @@ (x2 :> "OtherBank") @@ (i1 :> "Cash") @@ (i2 :> "Undeposited")
OneOwner == [x \in {x1, x2} |-> k1]

=============================================================================
