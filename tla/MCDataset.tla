------------------------------ MODULE MCDataset ------------------------------
(* Instances of Dataset for TLC.                                             *)
EXTENDS Dataset

MinusOne == -1
\* A dust sensor: nothing, a group without the value, and values below, inside
\* and above the range of dcheck.go.
Dust == {Absent} \cup [value : {Absent, MinusOne, 40, 601}]
DustNormal == 0 .. 600
=============================================================================
