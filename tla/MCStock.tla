------------------------------- MODULE MCStock -------------------------------
(* Small instances of Stock for TLC. *)
EXTENDS Stock, TLC

Symmetry == Permutations(Records)

CONSTANTS p, r1, r2

L(q, stocked) == [item |-> p, qty |-> q, stocked |-> stocked]
B(q, cost)    == [item |-> p, qty |-> q, cost |-> cost]

ListsOf == {<<L(1, TRUE)>>, <<L(1, TRUE), L(1, TRUE)>>}
BillListsOf == {<<B(2, 3)>>, <<B(1, 1)>>}
ChangesOf == {-1, 1}
=============================================================================
