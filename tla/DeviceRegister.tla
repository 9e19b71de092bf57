--------------------------- MODULE DeviceRegister ---------------------------
(***************************************************************************)
(* The status of a device over time: StatusRegister, which is what the     *)
(* goroutines of StatusFile implement, with the merging of StatusMerge.    *)
(***************************************************************************)
EXTENDS StatusMerge

CONSTANT Report    \* the messages that the device may send

ASSUME ReportAssumption == Report \subseteq DeviceMessage

VARIABLE status

DeviceInit == status = EmptyDevice
DeviceAccept(m) == status' = DeviceMerge(status, m)
DeviceNext == \E m \in Report : DeviceAccept(m)
DeviceSpec == DeviceInit /\ [][DeviceNext]_status

-----------------------------------------------------------------------------
DeviceTypeOK == status \in DeviceStatus

OrZero(x) == [c \in Channel |-> IF x[c] = NoReading THEN 0 ELSE x[c]]

\* The histories of a status and its current values agree.
InStep(v) ==
    LET p == v.pmsHistory
        g == v.geigerHistory
    IN /\ v.pms = IF p = <<>> THEN Nothing ELSE p[1]
       /\ \A i \in DOMAIN p \ {1} : p[i] # p[i - 1]
       /\ OrZero(v.lnd) = OrZero(IF g = <<>> THEN Nothing ELSE g[1])
       /\ \A i \in DOMAIN g \ {1} : OrZero(g[i]) # OrZero(g[i - 1])

\* The arithmetic of nil pointers and array shuffles keeps each history in step
\* with the current value: what is newest in it is what is current, and no two
\* neighbours are the same, so that five entries are five changes.  For the
\* Geiger tubes this holds up to a first reading of 0, which is not recorded.
HistoryFollowsValue == InStep(status)

\* A history stays as it is or has all but perhaps its oldest entry move down.
Follows(new, old) ==
    \/ new = old
    \/ /\ Len(new) = IF Len(old) < HistoryLength THEN Len(old) + 1 ELSE HistoryLength
       /\ \A i \in DOMAIN new \ {1} : new[i] = old[i - 1]

Shifted(new, old) ==
    /\ Follows(new.pmsHistory, old.pmsHistory)
    /\ Follows(new.geigerHistory, old.geigerHistory)

Kept(new, old) ==
    /\ old.loc \in Place => new.loc \in Place
    /\ \A c \in Channel : old.pms[c] # NoReading => new.pms[c] # NoReading
    /\ \A c \in Channel : old.lnd[c] # NoReading => new.lnd[c] # NoReading
    /\ new.err >= old.err

\* An older history is a part of the newer one, until its end falls out: a
\* change is entered once, and no change pushes out two.
HistoryShifts == [][Shifted(status', status)]_status

\* Nothing that is known is forgotten or made worse by a later message: a good
\* location stays good, a channel keeps a reading, an error counter its maximum.
NothingForgotten == [][Kept(status', status)]_status
=============================================================================
