--------------------------- MODULE MCFcyConversion ---------------------------
(***************************************************************************)
(* Small instances of FcyConversion for TLC: two conversions of one         *)
(* business that holds euros for only one of them.                          *)
(***************************************************************************)
EXTENDS FcyConversion, TLC

CONSTANTS c1, c2, b1, j1, j2

TwoOrders ==
  (c1 :> [biz |-> b1, amount |-> 2]) @@ (c2 :> [biz |-> b1, amount |-> 2])

OneOrder == c1 :> [biz |-> b1, amount |-> 2]

ThreeEuros == b1 :> 3

\* The two conversions are alike as well as the handlers.
Symmetry == Permutations(Jobs) \cup Permutations(Convs)

=============================================================================
