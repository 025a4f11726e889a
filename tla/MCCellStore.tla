---------------------------- MODULE MCCellStore ----------------------------
(* Instances of CellStore for TLC. *)
EXTENDS CellStore, TLC

CONSTANTS tt, pa, v1, v2

MCIndex == {tt, pa}

MCValue == {v1, v2}

Symmetry == Permutations(MCValue)
=============================================================================
