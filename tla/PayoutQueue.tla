----------------------------- MODULE PayoutQueue -----------------------------
(***************************************************************************)
(* What the queue of staff transfers over their cap promises, without the  *)
(* handlers, locks and bank calls that realise it: a held transfer is paid *)
(* at most once, only after the owner claimed it, never again offered once *)
(* paid, and reported executed only when paid.                             *)
(***************************************************************************)
EXTENDS Naturals

CONSTANT Keys

VARIABLES
  status,   \* [Keys -> the request's status]
  paid      \* [Keys -> Nat]: how often the bank paid it

vars == <<status, paid>>

Init == status = [k \in Keys |-> "none"] /\ paid = [k \in Keys |-> 0]

Move(k, s) == status' = [status EXCEPT ![k] = s] /\ UNCHANGED paid

Hold(k) == status[k] = "none" /\ Move(k, "pending")

Claim(k) == status[k] = "pending" /\ Move(k, "approving")

\* The owner said yes, or the approval was given up while a call was out.
Pay(k) ==
  /\ status[k] \in {"approving", "failed"} /\ paid[k] = 0
  /\ paid' = [paid EXCEPT ![k] = 1]
  /\ UNCHANGED status

\* Offered again: only while no money has moved.
Requeue(k) == status[k] \in {"approving", "failed"} /\ paid[k] = 0 /\ Move(k, "pending")

Finish(k) == status[k] \in {"approving", "failed"} /\ paid[k] = 1 /\ Move(k, "executed")

\* Sweeps and staff removal decide several requests in one statement.
MoveAll(K, s) == status' = [k \in Keys |-> IF k \in K THEN s ELSE status[k]] /\ UNCHANGED paid

Withdraw(K, s) == (\A k \in K : status[k] = "pending") /\ MoveAll(K, s)

Park(K) == (\A k \in K : status[k] = "approving") /\ MoveAll(K, "failed")

Next ==
  \/ \E k \in Keys : Hold(k) \/ Claim(k) \/ Pay(k) \/ Requeue(k) \/ Finish(k)
  \/ \E K \in SUBSET Keys :
       \/ \E s \in {"rejected", "cancelled", "expired"} : Withdraw(K, s)
       \/ Park(K)

Spec == Init /\ [][Next]_vars

=============================================================================
