------------------------------ MODULE MCReadCell ------------------------------
(* Symmetry of the reader's cells, for TLC.                                *)
EXTENDS ReadCell, TLC

CellSymmetry == Permutations(Cells)
===============================================================================
