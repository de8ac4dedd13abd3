----------------------------- MODULE MCRTreeIndex -----------------------------
(* Small instances of RTreeIndex for TLC.                                    *)
EXTENDS RTreeIndex, TLC

Symmetry == Permutations(Row) \union Permutations(Box \ Raises)
=============================================================================
