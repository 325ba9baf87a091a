--------------------------- MODULE MCCustomerDebts ---------------------------
(* Small instances of CustomerDebts for TLC. *)
EXTENDS CustomerDebts, TLC

CONSTANTS x1, x2, q1, q2, q3, q4, k1, k2, k3, j1, j2

Do(kind, debt, amount) == [kind |-> kind, debt |-> debt, amount |-> amount]

Sizes == (x1 :> 2) @@ (x2 :> 2)

\* The phone adds the customer, a debt and its payment, then deletes the
\* customer; the desk is paid for the debt too, gives more credit, and gives
\* up on the customer.
NewDebt == (q1 :> Do("customer", x1, 1)) @@ (q2 :> Do("debt", x1, 2))
Paid    == q3 :> Do("pay", x1, 2)
AtTill  == k1 :> Do("pay", x1, 1)
PhoneAndDesk ==
  NewDebt @@ Paid @@ (q4 :> Do("drop", x1, 1)) @@ AtTill @@ (k2 :> Do("debt", x2, 2)) @@ (k3 :> Do("drop", x1, 1))
AllQueued == <<q1, q2, q3, q4>>

DebtAndTill == NewDebt @@ AtTill
DebtOnly == <<q1, q2>>

DebtAndPayment == NewDebt @@ Paid
DebtThenPay == <<q1, q2, q3>>

Symmetry == Permutations(Jobs)
=============================================================================
