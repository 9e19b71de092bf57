---------------------------- MODULE MCServerStats ----------------------------
(* Instances of ServerStats for TLC.                                         *)
EXTENDS ServerStats, TLC

CONSTANTS w1, w2, h1

Interchangeable == Permutations({w1, w2})
=============================================================================
