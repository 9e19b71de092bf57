----------------------------- MODULE MCDeviceLog -----------------------------
(* Instances of DeviceLog for TLC.                                           *)
EXTENDS DeviceLog, TLC

CONSTANTS i1, i2, p1, p2

TwoInstances == p1 :> i1 @@ p2 :> i2
TwoAndOne == p1 :> 2 @@ p2 :> 1
=============================================================================
