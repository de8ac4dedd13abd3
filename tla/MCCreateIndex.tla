---------------------------- MODULE MCCreateIndex ----------------------------
(* A small instance of CreateIndex for TLC.                                  *)
EXTENDS CreateIndex
=============================================================================
