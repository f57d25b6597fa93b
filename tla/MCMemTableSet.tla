---------------------------- MODULE MCMemTableSet ----------------------------
(* MemTableSet with three writers and four rows, two of which fill a table. *)
EXTENDS MemTableSet, TLC

CONSTANTS w1, w2, w3, r1, r2, r3, r4

MCWriters == {w1, w2, w3}
MCRows == {r1, r2, r3, r4}
\* One row fills a table by itself; two of the others do.
MCRowSize == (r1 :> 2) @@ [r \in MCRows |-> 1]
==============================================================================
