------------------------------ MODULE MCTablet -------------------------------
(* Tablet with four rows, a MemTable of two, one restart, one TRUNCATE, one  *)
(* I/O error and one rollback.  The rows are interchangeable.                *)
EXTENDS Tablet, TLC

CONSTANTS r1, r2, r3, r4

FourRows == {r1, r2, r3, r4}
ThreeRows == {r1, r2, r3}
Symmetry == Permutations(Rows)
==============================================================================
