----------------------------- MODULE MCIndexJoin -----------------------------
(* Small instances of IndexJoin for TLC.                                     *)
EXTENDS IndexJoin
=============================================================================
