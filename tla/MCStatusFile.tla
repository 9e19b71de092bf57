---------------------------- MODULE MCStatusFile ----------------------------
(* An instance of StatusFile for TLC: both ways of dealing with a file that  *)
(* is not available, with the status of a gateway.                           *)
EXTENDS StatusFile, StatusMerge, TLC

CONSTANTS w1, w2, g1, g2, a1
=============================================================================
