-------------------------- MODULE MCInboundCredits --------------------------
(* Small instances of InboundCredits for TLC. *)
EXTENDS InboundCredits, TLC

CONSTANTS a, b, k, a1, a2, b1, k1

AboutOf   == (a1 :> a) @@ (a2 :> a) @@ (b1 :> b) @@ (k1 :> k)
KindOf    == (a :> "nip") @@ (b :> "nip") @@ (k :> "book")
OrderOf   == (a :> 1) @@ (b :> 2) @@ (k :> 3)
AmountOf  == [x \in {a, b, k} |-> 1]
Minute    == (a :> 0) @@ (b :> 0) @@ (k :> 4)
\* The webhook gives a's time an hour late.
PaidAtOf  == (a :> 60) @@ (b :> 0) @@ (k :> 4)
=============================================================================
