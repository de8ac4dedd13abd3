--------------------------- MODULE MCMeosAggregate ---------------------------
(* Small instances of MeosAggregate for TLC.                                 *)
EXTENDS MeosAggregate, TLC

Symmetry == Permutations(Row)
=============================================================================
