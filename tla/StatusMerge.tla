---------------------------- MODULE StatusMerge ----------------------------
(***************************************************************************)
(* What a message does to the status of its device, the middle part of     *)
(* WriteDeviceStatus (src/dstatus.go), and to that of a gateway, the       *)
(* middle part of WriteGatewayStatus (src/gstatus.go).                     *)
(*                                                                         *)
(* A measurement is a function from the channels of a sensor to readings,  *)
(* NoReading being a nil pointer.  The Opc and Pms2 sensors are treated as *)
(* Pms is, and every error counter as err is.  A history is an array of    *)
(* five entries, the newest first; here a sequence without the blank rest. *)
(***************************************************************************)
EXTENDS Integers, Sequences

CONSTANTS
    Channel,        \* fields of a sensor group
    MaxReading,     \* readings are 0 .. MaxReading
    MaxError,       \* error counters are 0 .. MaxError
    Place,          \* nonzero locations
    HistoryLength,  \* 5
    Nowhere, Zero,  \* no location, and latitude and longitude 0
    Ttg, Address, Unknown  \* what a gateway reports, IP addresses, nothing yet

ASSUME StatusMergeAssumption ==
    /\ MaxReading \in Nat /\ MaxError \in Nat
    /\ HistoryLength \in Nat \ {0}
    /\ Nowhere \notin Place /\ Zero \notin Place /\ Nowhere # Zero
    /\ Unknown \notin Ttg \cup Address

NoReading == -1
Reading == 0 .. MaxReading
Measurement == [Channel -> Reading \cup {NoReading}]
Error == 0 .. MaxError
Nothing == [c \in Channel |-> NoReading]

DeviceMessage ==
    [loc : Place \cup {Nowhere, Zero}, pms : Measurement, lnd : Measurement,
     err : Error \cup {NoReading}]

History(S) == {h \in Seq(S) : Len(h) <= HistoryLength}

DeviceStatus ==
    [loc : Place \cup {Nowhere, Zero}, locationHistory : History(Place),
     pms : Measurement, pmsHistory : History(Measurement),
     lnd : Measurement, geigerHistory : History(Measurement),
     err : Error \cup {NoReading}]

EmptyDevice ==
    [loc |-> Nowhere, locationHistory |-> <<>>, pms |-> Nothing, pmsHistory |-> <<>>,
     lnd |-> Nothing, geigerHistory |-> <<>>, err |-> NoReading]

\* Bug: the array is not shuffled, only its first entry replaced.
ShuffleNone(history, new) == IF history = <<>> THEN <<new>> ELSE [history EXCEPT ![1] = new]

\* "Shuffle": the oldest entry falls out.
Shuffle(history, new) ==
    LET longer == <<new>> \o history
    IN IF Len(longer) <= HistoryLength THEN longer ELSE SubSeq(longer, 1, HistoryLength)

\* "Don't overwrite a good lat/lon with an unsupplied lat/lon".
MergeLocation(old, new) ==
    IF new \in Place THEN new
    ELSE IF new = Zero /\ old = Nowhere THEN Zero
    ELSE old

\* Whether the location has changed is asked after it has been assigned.
ChangedLoc(old, new) == new \in Place /\ MergeLocation(old, new) # new

\* Only the channels that the message has.
MergeReadings(old, new) ==
    [c \in Channel |-> IF new[c] = NoReading THEN old[c] ELSE new[c]]

\* Bug: a channel that the message does not have counts as changed.
ChangedAlways(old, new) == \E c \in Channel : old[c] # new[c]

ChangedPms(old, new) == \E c \in Channel : new[c] # NoReading /\ old[c] # new[c]

\* A Geiger channel without a value yet is compared as if it were 0.
ChangedGeiger(old, new) ==
    \E c \in Channel :
        new[c] # NoReading /\ (IF old[c] = NoReading THEN 0 ELSE old[c]) # new[c]

\* Bug: the value supplied last.
MergeLastErrors(old, new) == IF new = NoReading THEN old ELSE new

\* "Maximize error values that are supplied".
MergeErrors(old, new) == IF new # NoReading /\ (old = NoReading \/ new > old) THEN new ELSE old

DeviceMerge(v, m) ==
    LET loc == MergeLocation(v.loc, m.loc)
        pms == MergeReadings(v.pms, m.pms)
        lnd == MergeReadings(v.lnd, m.lnd)
    IN [loc |-> loc,
        locationHistory |-> IF ChangedLoc(v.loc, m.loc)
                                THEN Shuffle(v.locationHistory, loc) ELSE v.locationHistory,
        pms |-> pms,
        pmsHistory |-> IF ChangedPms(v.pms, m.pms)
                           THEN Shuffle(v.pmsHistory, pms) ELSE v.pmsHistory,
        lnd |-> lnd,
        geigerHistory |-> IF ChangedGeiger(v.lnd, m.lnd)
                              THEN Shuffle(v.geigerHistory, lnd) ELSE v.geigerHistory,
        err |-> MergeErrors(v.err, m.err)]

-----------------------------------------------------------------------------
\* The status of a gateway is replaced; the information about its address is
\* kept until the address changes, and fetched from a service that may fail.
GatewayMessage == [ttg : Ttg, ip : Address, found : BOOLEAN]
GatewayStatus == [ttg : Ttg \cup {Unknown}, ipInfo : Address \cup {Unknown}]
EmptyGateway == [ttg |-> Unknown, ipInfo |-> Unknown]

GatewayMerge(v, m) ==
    [ttg |-> m.ttg,
     ipInfo |-> IF v.ipInfo # m.ip /\ m.found THEN m.ip ELSE v.ipInfo]
=============================================================================
