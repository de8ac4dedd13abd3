---------------------------- MODULE MCNearestScan ----------------------------
(* Small instances of NearestScan for TLC.                                   *)
EXTENDS NearestScan
=============================================================================
