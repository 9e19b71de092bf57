------------------------------- MODULE MCStamp -------------------------------
(***************************************************************************)
(* Instances of Stamp for TLC: a stamp that has everything and one that    *)
(* has nothing, so that each optional field is both present and absent.    *)
(***************************************************************************)
EXTENDS Stamp, TLC

CONSTANTS i1, d1, s1, s2, t1, t2

OneInstanceHome == t1 :> i1 @@ t2 :> i1
=============================================================================
