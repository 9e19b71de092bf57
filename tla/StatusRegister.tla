--------------------------- MODULE StatusRegister ---------------------------
(***************************************************************************)
(* The promise of a status file (src/dstatus.go, src/gstatus.go): a value  *)
(* into which messages are merged one after the other, each at one moment. *)
(* A message may be dropped, by not taking the step.  The promise holds    *)
(* until the file is disturbed, and is not made again afterwards.          *)
(***************************************************************************)
CONSTANTS Message, Empty, Merge(_, _)

VARIABLES status, disturbed

Init == status = Empty /\ ~disturbed

Accept(m) ==
    /\ ~disturbed
    /\ status' = Merge(status, m)
    /\ UNCHANGED disturbed

Disturb == disturbed' = TRUE

Next == Disturb \/ \E m \in Message : Accept(m)

Spec == Init /\ [][Next]_<<status, disturbed>>
=============================================================================
