-------------------------- MODULE MCDeviceRegister --------------------------
(* Instances of DeviceRegister for TLC.                                      *)
EXTENDS DeviceRegister

\* Messages with at most one location, one measurement or one error count.
SparseMessage ==
    {m \in DeviceMessage :
        Len(SelectSeq(<<m.loc # Nowhere, m.pms # Nothing, m.lnd # Nothing, m.err # NoReading>>,
                      LAMBDA b : b)) <= 1}
=============================================================================
