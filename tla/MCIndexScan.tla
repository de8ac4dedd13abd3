----------------------------- MODULE MCIndexScan -----------------------------
(* Small instances of IndexScan for TLC.                                     *)
EXTENDS IndexScan

Symmetry == Permutations(Row \ (Local \union Stale))
=============================================================================
