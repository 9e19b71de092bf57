---------------------------- MODULE MCControlFile ----------------------------
(* Instances of ControlFile for TLC.                                         *)
EXTENDS ControlFile, TLC

CONSTANTS monitor, i1, t1, t2, c1, c2
=============================================================================
