------------------------------ MODULE MCUploads ------------------------------
(* An instance of Uploads for TLC. *)
EXTENDS Uploads, TLC

CONSTANTS u1, u2, u3

\* Errors and delays are recorded apart, so that they are not combined.
EitherTrouble == {{"errors"}, {"delays"}}

Symmetry == Permutations(Upload)
=============================================================================
