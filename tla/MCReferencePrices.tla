-------------------------- MODULE MCReferencePrices --------------------------
(* Prices within a factor of ten, of a hundred and beyond it, and none.    *)
EXTENDS ReferencePrices, TLC

MCPrice == {5, 60, 700}
Symmetry == Permutations(Worker)
=============================================================================
