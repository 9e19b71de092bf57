---------------------------- MODULE StatusProofs ----------------------------
(***************************************************************************)
(* Proofs about the status of a device: what merging a message does to it  *)
(* (StatusMerge, DeviceRegister); what the integrity check of its file     *)
(* achieves however many writers overlap (StatusFile); that updates which  *)
(* do not overlap implement StatusRegister; and what follows from both for *)
(* the file of a device.                                                   *)
(***************************************************************************)
EXTENDS StatusFile, DeviceRegister, TLAPS

\* The first k entries of a sequence.
LEMMA PrefixEffect ==
    ASSUME NEW S, NEW s \in Seq(S), NEW k \in 1 .. Len(s)
    PROVE  /\ SubSeq(s, 1, k) \in Seq(S)
           /\ Len(SubSeq(s, 1, k)) = k
           /\ \A i \in 1 .. k : SubSeq(s, 1, k)[i] = s[i]
  OBVIOUS

\* The newest entry of a shuffled array is the new one, the others move down by
\* one, and the array does not grow beyond its length.
LEMMA ShuffleEffect ==
    ASSUME NEW S, NEW h \in History(S), NEW x \in S
    PROVE  /\ Shuffle(h, x) \in History(S)
           /\ Shuffle(h, x) # <<>>
           /\ Shuffle(h, x)[1] = x
           /\ \A i \in DOMAIN Shuffle(h, x) \ {1} :
                 i - 1 \in DOMAIN h /\ Shuffle(h, x)[i] = h[i - 1]
           /\ Len(Shuffle(h, x)) =
                 IF Len(h) < HistoryLength THEN Len(h) + 1 ELSE HistoryLength
<1> DEFINE longer == <<x>> \o h
<1>1. /\ longer \in Seq(S) /\ Len(longer) = Len(h) + 1
      /\ longer[1] = x
      /\ \A i \in 2 .. Len(h) + 1 : longer[i] = h[i - 1]
  BY DEF History
<1>2. HistoryLength \in Nat \ {0} /\ h \in Seq(S) /\ Len(h) \in Nat /\ Len(h) <= HistoryLength
  BY StatusMergeAssumption DEF History
<1>3. CASE Len(longer) <= HistoryLength
  <2>1. Shuffle(h, x) = longer
    BY <1>3 DEF Shuffle
  <2>2. QED
    BY <1>1, <1>2, <1>3, <2>1 DEF History
<1>4. CASE ~(Len(longer) <= HistoryLength)
  <2> DEFINE n == Shuffle(h, x)
  <2>1. n = SubSeq(longer, 1, HistoryLength)
    BY <1>4 DEF Shuffle
  <2>2. HistoryLength = Len(h) /\ HistoryLength \in 1 .. Len(longer)
    BY <1>1, <1>2, <1>4
  <2> HIDE DEF n, longer
  <2>3. /\ n \in Seq(S) /\ Len(n) = HistoryLength
        /\ \A i \in 1 .. HistoryLength : n[i] = longer[i]
    BY <1>1, <2>1, <2>2, PrefixEffect
  <2>4. DOMAIN n = 1 .. HistoryLength
    BY <2>3
  <2>5. \A i \in DOMAIN n \ {1} : i - 1 \in DOMAIN h /\ n[i] = h[i - 1]
    BY <1>1, <1>2, <2>2, <2>3, <2>4
  <2>6. n[1] = x /\ n # <<>> /\ n \in History(S)
    BY <1>1, <1>2, <2>3 DEF History
  <2>7. QED
    BY <1>2, <2>2, <2>3, <2>5, <2>6 DEF n
<1>5. QED
  BY <1>3, <1>4

\* Merging measurements gives a measurement.
LEMMA MergeReadingsType ==
    \A old, new \in Measurement : MergeReadings(old, new) \in Measurement
  BY DEF Measurement, MergeReadings

\* A message turns the status of a device into a status of it.
THEOREM DeviceMergeClosed ==
    \A v \in DeviceStatus, m \in DeviceMessage : DeviceMerge(v, m) \in DeviceStatus
<1> SUFFICES ASSUME NEW v \in DeviceStatus, NEW m \in DeviceMessage
             PROVE  DeviceMerge(v, m) \in DeviceStatus
  OBVIOUS
<1>1. /\ v.loc \in Place \cup {Nowhere, Zero} /\ v.locationHistory \in History(Place)
      /\ v.pms \in Measurement /\ v.pmsHistory \in History(Measurement)
      /\ v.lnd \in Measurement /\ v.geigerHistory \in History(Measurement)
      /\ v.err \in Error \cup {NoReading}
  BY DEF DeviceStatus
<1>2. /\ m.loc \in Place \cup {Nowhere, Zero} /\ m.pms \in Measurement
      /\ m.lnd \in Measurement /\ m.err \in Error \cup {NoReading}
  BY DEF DeviceMessage
<1>3. MergeLocation(v.loc, m.loc) \in Place \cup {Nowhere, Zero}
  BY <1>1, <1>2 DEF MergeLocation
<1>4. ~ChangedLoc(v.loc, m.loc)
  BY DEF ChangedLoc, MergeLocation
<1>5. /\ MergeReadings(v.pms, m.pms) \in Measurement
      /\ MergeReadings(v.lnd, m.lnd) \in Measurement
  BY <1>1, <1>2, MergeReadingsType
<1>6. /\ Shuffle(v.pmsHistory, MergeReadings(v.pms, m.pms)) \in History(Measurement)
      /\ Shuffle(v.geigerHistory, MergeReadings(v.lnd, m.lnd)) \in History(Measurement)
  BY <1>1, <1>5, ShuffleEffect
<1>7. MergeErrors(v.err, m.err) \in Error \cup {NoReading}
  BY <1>1, <1>2 DEF MergeErrors
<1>8. QED
  BY <1>1, <1>3, <1>4, <1>5, <1>6, <1>7 DEF DeviceMerge, DeviceStatus

\* And that of a gateway likewise.
THEOREM GatewayMergeClosed ==
    \A v \in GatewayStatus, m \in GatewayMessage : GatewayMerge(v, m) \in GatewayStatus
  BY DEF GatewayMerge, GatewayStatus, GatewayMessage

-----------------------------------------------------------------------------
\* What has not changed needs no entry, and what has changed differs.
LEMMA PmsChange ==
    ASSUME NEW old \in Measurement, NEW new \in Measurement
    PROVE  ChangedPms(old, new) <=> MergeReadings(old, new) # old
  BY DEF ChangedPms, MergeReadings, Measurement

\* The same for the Geiger tubes, up to a first reading of 0.
LEMMA GeigerChange ==
    ASSUME NEW old \in Measurement, NEW new \in Measurement
    PROVE  ChangedGeiger(old, new) <=> OrZero(MergeReadings(old, new)) # OrZero(old)
  BY DEF ChangedGeiger, MergeReadings, OrZero, Measurement, Reading, NoReading

\* Every message keeps the histories in step with the values.
LEMMA MergeKeepsStep ==
    ASSUME NEW v \in DeviceStatus, NEW m \in DeviceMessage, InStep(v)
    PROVE  InStep(DeviceMerge(v, m))
<1> DEFINE p == v.pmsHistory
           g == v.geigerHistory
           pms == MergeReadings(v.pms, m.pms)
           lnd == MergeReadings(v.lnd, m.lnd)
           w == DeviceMerge(v, m)
<1>1. /\ m.pms \in Measurement /\ m.lnd \in Measurement
      /\ v.pms \in Measurement /\ p \in History(Measurement)
      /\ v.lnd \in Measurement /\ g \in History(Measurement)
  BY DEF DeviceStatus, DeviceMessage
<1>2. pms \in Measurement /\ lnd \in Measurement
  BY <1>1, MergeReadingsType
<1>3. /\ w.pms = pms
      /\ w.pmsHistory = IF ChangedPms(v.pms, m.pms) THEN Shuffle(p, pms) ELSE p
      /\ w.lnd = lnd
      /\ w.geigerHistory =
            IF ChangedGeiger(v.lnd, m.lnd) THEN Shuffle(g, lnd) ELSE g
  BY DEF DeviceMerge
<1>4. /\ v.pms = IF p = <<>> THEN Nothing ELSE p[1]
      /\ \A i \in DOMAIN p \ {1} : p[i] # p[i - 1]
      /\ OrZero(v.lnd) = OrZero(IF g = <<>> THEN Nothing ELSE g[1])
      /\ \A i \in DOMAIN g \ {1} : OrZero(g[i]) # OrZero(g[i - 1])
  BY DEF InStep
<1>5. /\ w.pms = IF w.pmsHistory = <<>> THEN Nothing ELSE w.pmsHistory[1]
      /\ \A i \in DOMAIN w.pmsHistory \ {1} :
            w.pmsHistory[i] # w.pmsHistory[i - 1]
  <2>1. CASE ~ChangedPms(v.pms, m.pms)
    BY <1>1, <1>3, <1>4, <2>1, PmsChange
  <2>2. CASE ChangedPms(v.pms, m.pms)
    <3> DEFINE n == Shuffle(p, pms)
    <3>1. w.pmsHistory = n /\ pms # v.pms
      BY <1>1, <1>3, <2>2, PmsChange
    <3>2. /\ n # <<>> /\ n[1] = pms /\ n \in Seq(Measurement)
          /\ \A i \in DOMAIN n \ {1} : i - 1 \in DOMAIN p /\ n[i] = p[i - 1]
      <4> HIDE DEF n
      <4>1. n = Shuffle(p, pms) /\ p \in History(Measurement) /\ pms \in Measurement
        BY <1>1, <1>2 DEF n
      <4>2. n \in History(Measurement)
        BY <4>1, ShuffleEffect
      <4> HIDE DEF p, pms
      <4>3. n \in Seq(Measurement)
        BY <4>2 DEF History
      <4>4. /\ Shuffle(p, pms) # <<>> /\ Shuffle(p, pms)[1] = pms
            /\ \A i \in DOMAIN Shuffle(p, pms) \ {1} :
                  i - 1 \in DOMAIN p /\ Shuffle(p, pms)[i] = p[i - 1]
        BY <4>1, ShuffleEffect
      <4>5. QED
        BY <4>1, <4>3, <4>4
    <3>3. ASSUME NEW i \in DOMAIN n \ {1} PROVE n[i] # n[i - 1]
      <4>1. i \in Nat /\ i > 1 /\ i - 1 \in DOMAIN n /\ i - 1 \in DOMAIN p /\ n[i] = p[i - 1]
        BY <3>2
      <4>2. CASE i = 2
        BY <1>4, <3>1, <3>2, <4>1, <4>2
      <4>3. CASE i # 2
        BY <1>4, <3>2, <4>1, <4>3
      <4>4. QED
        BY <4>2, <4>3
    <3>4. QED
      BY <1>3, <3>1, <3>2, <3>3
  <2>3. QED
    BY <2>1, <2>2
<1>6. /\ OrZero(w.lnd) = OrZero(IF w.geigerHistory = <<>> THEN Nothing
                                      ELSE w.geigerHistory[1])
      /\ \A i \in DOMAIN w.geigerHistory \ {1} :
            OrZero(w.geigerHistory[i]) # OrZero(w.geigerHistory[i - 1])
  <2>1. CASE ~ChangedGeiger(v.lnd, m.lnd)
    BY <1>1, <1>3, <1>4, <2>1, GeigerChange
  <2>2. CASE ChangedGeiger(v.lnd, m.lnd)
    <3> DEFINE n == Shuffle(g, lnd)
    <3>1. w.geigerHistory = n /\ OrZero(lnd) # OrZero(v.lnd)
      BY <1>1, <1>3, <2>2, GeigerChange
    <3>2. /\ n # <<>> /\ n[1] = lnd /\ n \in Seq(Measurement)
          /\ \A i \in DOMAIN n \ {1} : i - 1 \in DOMAIN g /\ n[i] = g[i - 1]
      <4> HIDE DEF n
      <4>1. n = Shuffle(g, lnd) /\ g \in History(Measurement) /\ lnd \in Measurement
        BY <1>1, <1>2 DEF n
      <4>2. n \in History(Measurement)
        BY <4>1, ShuffleEffect
      <4> HIDE DEF g, lnd
      <4>3. n \in Seq(Measurement)
        BY <4>2 DEF History
      <4>4. /\ Shuffle(g, lnd) # <<>> /\ Shuffle(g, lnd)[1] = lnd
            /\ \A i \in DOMAIN Shuffle(g, lnd) \ {1} :
                  i - 1 \in DOMAIN g /\ Shuffle(g, lnd)[i] = g[i - 1]
        BY <4>1, ShuffleEffect
      <4>5. QED
        BY <4>1, <4>3, <4>4
    <3>3. ASSUME NEW i \in DOMAIN n \ {1} PROVE OrZero(n[i]) # OrZero(n[i - 1])
      <4>1. i \in Nat /\ i > 1 /\ i - 1 \in DOMAIN n /\ i - 1 \in DOMAIN g /\ n[i] = g[i - 1]
        BY <3>2
      <4>2. CASE i = 2
        BY <1>4, <3>1, <3>2, <4>1, <4>2
      <4>3. CASE i # 2
        BY <1>4, <3>2, <4>1, <4>3
      <4>4. QED
        BY <4>2, <4>3
    <3>4. QED
      BY <1>3, <3>1, <3>2, <3>3
  <2>3. QED
    BY <2>1, <2>2
<1>7. QED
  BY <1>5, <1>6 DEF InStep

\* A history that is not shuffled stays, and a shuffled one has moved down.
LEMMA ShuffleFollows ==
    \A h \in History(Measurement), x \in Measurement :
        Follows(h, h) /\ Follows(Shuffle(h, x), h)
<1> SUFFICES ASSUME NEW h \in History(Measurement), NEW x \in Measurement
             PROVE  Follows(Shuffle(h, x), h)
  BY DEF Follows
<1>1. /\ \A i \in DOMAIN Shuffle(h, x) \ {1} : Shuffle(h, x)[i] = h[i - 1]
      /\ Len(Shuffle(h, x)) =
            IF Len(h) < HistoryLength THEN Len(h) + 1 ELSE HistoryLength
  BY ShuffleEffect
<1>2. QED
  BY <1>1 DEF Follows

\* Every message enters a change once, at the front.
LEMMA MergeShifts ==
    \A v \in DeviceStatus, m \in DeviceMessage : Shifted(DeviceMerge(v, m), v)
<1> SUFFICES ASSUME NEW v \in DeviceStatus, NEW m \in DeviceMessage
             PROVE  Shifted(DeviceMerge(v, m), v)
  OBVIOUS
<1> DEFINE pms == MergeReadings(v.pms, m.pms)
           lnd == MergeReadings(v.lnd, m.lnd)
<1>1. /\ pms \in Measurement /\ v.pmsHistory \in History(Measurement)
      /\ lnd \in Measurement /\ v.geigerHistory \in History(Measurement)
  BY MergeReadingsType DEF DeviceStatus, DeviceMessage
<1>2. /\ DeviceMerge(v, m).pmsHistory \in {v.pmsHistory, Shuffle(v.pmsHistory, pms)}
      /\ DeviceMerge(v, m).geigerHistory \in {v.geigerHistory, Shuffle(v.geigerHistory, lnd)}
  BY DEF DeviceMerge
<1> HIDE DEF pms, lnd
<1>3. QED
  BY <1>1, <1>2, ShuffleFollows DEF Shifted

\* No message makes a location bad, a channel blank or an error count smaller.
LEMMA MergeKeeps ==
    \A v \in DeviceStatus, m \in DeviceMessage : Kept(DeviceMerge(v, m), v)
<1> SUFFICES ASSUME NEW v \in DeviceStatus, NEW m \in DeviceMessage
             PROVE  Kept(DeviceMerge(v, m), v)
  OBVIOUS
<1> DEFINE w == DeviceMerge(v, m)
<1>1. v.loc \in Place => w.loc \in Place
  BY StatusMergeAssumption DEF DeviceMerge, MergeLocation
<1>2. /\ \A c \in Channel : v.pms[c] # NoReading => w.pms[c] # NoReading
      /\ \A c \in Channel : v.lnd[c] # NoReading => w.lnd[c] # NoReading
  BY DEF DeviceMerge, MergeReadings
<1>3. w.err >= v.err
  <2>1. v.err \in Int /\ m.err \in Int
    BY StatusMergeAssumption DEF DeviceStatus, DeviceMessage, Error, NoReading
  <2>2. w.err = MergeErrors(v.err, m.err)
    BY DEF DeviceMerge
  <2>3. v.err = NoReading => m.err >= v.err
    BY StatusMergeAssumption DEF DeviceMessage, Error, NoReading
  <2>4. QED
    BY <2>1, <2>2, <2>3 DEF MergeErrors
<1>4. QED
  BY <1>1, <1>2, <1>3 DEF Kept

-----------------------------------------------------------------------------
(* The register of a device.                                                *)
\* A blank status is one, and in step.
LEMMA EmptyDeviceType == EmptyDevice \in DeviceStatus /\ InStep(EmptyDevice)
<1>1. <<>> \in History(Place) /\ <<>> \in History(Measurement)
  BY StatusMergeAssumption DEF History
<1>2. Nothing \in Measurement
  BY DEF Nothing, Measurement
<1>3. EmptyDevice \in DeviceStatus
  BY <1>1, <1>2 DEF EmptyDevice, DeviceStatus
<1>4. InStep(EmptyDevice)
  BY DEF EmptyDevice, InStep, OrZero
<1>5. QED
  BY <1>3, <1>4

\* Every message keeps the type.
LEMMA DeviceStepType == DeviceTypeOK /\ [DeviceNext]_status => DeviceTypeOK'
  BY DeviceMergeClosed, ReportAssumption DEF DeviceNext, DeviceAccept, DeviceTypeOK

\* The status of a device is one for every sequence of messages.
THEOREM DeviceTypeCorrect == DeviceSpec => []DeviceTypeOK
<1>1. DeviceInit => DeviceTypeOK
  BY EmptyDeviceType DEF DeviceInit, DeviceTypeOK
<1>2. QED
  BY <1>1, DeviceStepType, PTL DEF DeviceSpec

\* However many readings, of however many channels, a device has sent: its
\* histories and its current values agree.
THEOREM HistoriesFollowValues == DeviceSpec => []HistoryFollowsValue
<1>1. DeviceInit => DeviceTypeOK /\ HistoryFollowsValue
  BY EmptyDeviceType DEF DeviceInit, DeviceTypeOK, HistoryFollowsValue
<1>2. DeviceTypeOK /\ HistoryFollowsValue /\ [DeviceNext]_status => HistoryFollowsValue'
  BY MergeKeepsStep, ReportAssumption
  DEF DeviceTypeOK, HistoryFollowsValue, DeviceNext, DeviceAccept
<1>3. QED
  BY <1>1, <1>2, DeviceStepType, PTL DEF DeviceSpec

\* What every message does to a status, it does to the register.
LEMMA DeviceStepKeeps ==
    DeviceTypeOK /\ [DeviceNext]_status =>
        [Shifted(status', status)]_status /\ [Kept(status', status)]_status
  BY MergeShifts, MergeKeeps, ReportAssumption DEF DeviceTypeOK, DeviceNext, DeviceAccept

\* However long a history is: a change is entered at its front, and pushes out
\* no more than the oldest entry of a full one.
THEOREM HistoriesShift == DeviceSpec => HistoryShifts
<1>1. DeviceInit => DeviceTypeOK
  BY EmptyDeviceType DEF DeviceInit, DeviceTypeOK
<1>2. QED
  BY <1>1, DeviceStepType, DeviceStepKeeps, PTL DEF DeviceSpec, HistoryShifts

\* No message of a device makes its status forget what it has known.
THEOREM NothingIsForgotten == DeviceSpec => NothingForgotten
<1>1. DeviceInit => DeviceTypeOK
  BY EmptyDeviceType DEF DeviceInit, DeviceTypeOK
<1>2. QED
  BY <1>1, DeviceStepType, DeviceStepKeeps, PTL DEF DeviceSpec, NothingForgotten

-----------------------------------------------------------------------------
\* What the proofs ask of the merging of messages.
MergeClosed == \A v \in Value, m \in Message : Merge(v, m) \in Value

Label == {"idle", "read", "ask", "hung", "open", "write", "check"}

-----------------------------------------------------------------------------
(* However many writers overlap.                                            *)
AttendedInv ==
    /\ pc \in [Writer -> Label]
    /\ CorruptionAttended

\* Every step leaves a corrupt file with a writer, or with an excuse.
LEMMA AttendedStep == AttendedInv /\ [Next]_vars => AttendedInv'
<1> SUFFICES ASSUME AttendedInv, [Next]_vars PROVE AttendedInv'
  OBVIOUS
<1> USE DEF AttendedInv, CorruptionAttended, Label, Goto, End
<1>1. CASE UNCHANGED vars
  BY <1>1 DEF vars
<1>2. ASSUME NEW w \in Writer, NEW m \in Message, Receive(w, m) PROVE AttendedInv'
  BY <1>2 DEF Receive
<1>3. ASSUME NEW w \in Writer, ReadIntact(w) PROVE AttendedInv'
  BY <1>3 DEF ReadIntact, Update
<1>4. ASSUME NEW w \in Writer, ReadReset(w) \/ ReadFails(w) PROVE AttendedInv'
  BY <1>4 DEF ReadReset, ReadFails, WaitOrReset, Update
<1>5. ASSUME NEW w \in Writer, Open(w) PROVE AttendedInv'
  BY <1>5 DEF Open
<1>6. ASSUME NEW w \in Writer, OpenFails(w) \/ Crash(w) PROVE AttendedInv'
  BY <1>6 DEF OpenFails, Crash, Writing
<1>7. ASSUME NEW w \in Writer, Write(w) PROVE AttendedInv'
  BY <1>7 DEF Write
<1>8. ASSUME NEW w \in Writer, CheckIntact(w) PROVE AttendedInv'
  BY <1>8 DEF CheckIntact
<1>9. ASSUME NEW w \in Writer, CheckCorrupt(w) PROVE AttendedInv'
  BY <1>9 DEF CheckCorrupt
<1>10. ASSUME NEW w \in Writer, Informed(w) \/ Hang(w) PROVE AttendedInv'
  BY <1>10 DEF Informed, Hang
<1>11. QED
  BY <1>1, <1>2, <1>3, <1>4, <1>5, <1>6, <1>7, <1>8, <1>9, <1>10 DEF Next, Work

\* A corrupt status file always has a writer that is about to write it again,
\* for any number of writers, whatever the messages and whatever fails.
THEOREM CorruptionIsAttended == Spec => []CorruptionAttended
<1>1. Init => AttendedInv
  BY StatusFileAssumption DEF Init, AttendedInv, Label, CorruptionAttended
<1>2. AttendedInv => CorruptionAttended
  BY DEF AttendedInv
<1>3. QED
  BY <1>1, <1>2, AttendedStep, PTL DEF Spec

-----------------------------------------------------------------------------
(* Types.                                                                   *)
TypeInv ==
    /\ TypeOK
    /\ \A w \in Writer : pc[w] # "idle" => msg[w] \in Message

\* Every step keeps the types, and a goroutine its message.
LEMMA TypeInvStep == MergeClosed /\ TypeInv /\ [Next]_vars => TypeInv'
<1> SUFFICES ASSUME MergeClosed, TypeInv, [Next]_vars PROVE TypeInv'
  OBVIOUS
<1>0. 0 \in 0 .. MaxReads - 1
  BY StatusFileAssumption
<1> USE <1>0, StatusFileAssumption DEF TypeInv, TypeOK, Label, Goto, End
<1>1. CASE UNCHANGED vars
  BY <1>1 DEF vars
<1>2. ASSUME NEW w \in Writer, NEW m \in Message, Receive(w, m) PROVE TypeInv'
  BY <1>2 DEF Receive
<1>3. ASSUME NEW w \in Writer, ReadIntact(w) PROVE TypeInv'
  <2>1. /\ (IF file = Missing THEN Empty ELSE file) \in Value
        /\ msg[w] \in Message
    BY <1>3 DEF ReadIntact
  <2>2. Merge(IF file = Missing THEN Empty ELSE file, msg[w]) \in Value
    BY <2>1 DEF MergeClosed
  <2>3. QED
    BY <1>3, <2>2 DEF ReadIntact, Update
<1>4. ASSUME NEW w \in Writer, pc[w] = "read", WaitOrReset(w),
             UNCHANGED <<givesUp, file, msg, abandoned>>, disturbed' \in BOOLEAN
      PROVE  TypeInv'
  <2>1. Merge(Empty, msg[w]) \in Value
    BY <1>4 DEF MergeClosed
  <2>2. CASE tries[w] + 1 < MaxReads
    <3>1. tries[w] + 1 \in 0 .. MaxReads - 1
      BY <2>2
    <3>2. QED
      BY <1>4, <2>2, <3>1 DEF WaitOrReset
  <2>3. CASE ~(tries[w] + 1 < MaxReads)
    BY <1>4, <2>1, <2>3 DEF WaitOrReset, Update
  <2>4. QED
    BY <2>2, <2>3
<1>5. ASSUME NEW w \in Writer, ReadReset(w) \/ ReadFails(w) PROVE TypeInv'
  BY <1>4, <1>5 DEF ReadReset, ReadFails
<1>6. ASSUME NEW w \in Writer, Open(w) PROVE TypeInv'
  BY <1>6 DEF Open, Corrupt
<1>e. ASSUME NEW w \in Writer, End(w)
      PROVE  /\ pc' \in [Writer -> Label]
             /\ msg' \in [Writer -> Message \cup {None}]
             /\ value' \in [Writer -> Value]
             /\ tries' \in [Writer -> 0 .. MaxReads - 1]
             /\ \A u \in Writer : pc'[u] # "idle" => msg'[u] \in Message
  <2>1. pc' = [pc EXCEPT ![w] = "idle"] /\ msg' = [msg EXCEPT ![w] = None]
    BY <1>e
  <2>2. value' = [value EXCEPT ![w] = Empty] /\ tries' = [tries EXCEPT ![w] = 0]
    BY <1>e
  <2>3. msg' \in [Writer -> Message \cup {None}]
    BY <2>1
  <2>4. \A u \in Writer : pc'[u] # "idle" => u # w /\ pc[u] # "idle" /\ msg'[u] = msg[u]
    BY <2>1
  <2>5. value' \in [Writer -> Value] /\ tries' \in [Writer -> 0 .. MaxReads - 1]
    BY <2>2
  <2>6. pc' \in [Writer -> Label]
    BY <2>1
  <2>7. QED
    BY <2>3, <2>4, <2>5, <2>6
<1>7. ASSUME NEW w \in Writer, OpenFails(w) \/ Crash(w) PROVE TypeInv'
  <2>1. /\ End(w) /\ file' = file /\ abandoned' \in BOOLEAN
        /\ givesUp' = givesUp /\ disturbed' \in BOOLEAN
    BY <1>7 DEF OpenFails, Crash
  <2>2. QED
    BY <1>e, <2>1
<1>8. ASSUME NEW w \in Writer, Write(w) PROVE TypeInv'
  BY <1>8 DEF Write, Corrupt
<1>9. ASSUME NEW w \in Writer, CheckIntact(w) PROVE TypeInv'
  <2>1. /\ End(w) /\ file' = file /\ abandoned' = FALSE
        /\ givesUp' = givesUp /\ disturbed' = disturbed
    BY <1>9 DEF CheckIntact
  <2>2. QED
    BY <1>e, <2>1
<1>10. ASSUME NEW w \in Writer, CheckCorrupt(w) PROVE TypeInv'
  BY <1>10 DEF CheckCorrupt
<1>11. ASSUME NEW w \in Writer, Informed(w) \/ Hang(w) PROVE TypeInv'
  BY <1>11 DEF Informed, Hang
<1>12. QED
  BY <1>1, <1>2, <1>3, <1>5, <1>6, <1>7, <1>8, <1>9, <1>10, <1>11 DEF Next, Work

\* The types hold initially.
LEMMA TypeInvInit == Init => TypeInv
<1>1. 0 \in 0 .. MaxReads - 1
  BY StatusFileAssumption
<1>2. QED
  BY <1>1, StatusFileAssumption DEF Init, TypeInv, TypeOK

\* Every variable keeps its type, whatever the merging does that stays in Value.
THEOREM FileTypeCorrect ==
    ASSUME MergeClosed
    PROVE  Spec => []TypeOK
<1>1. TypeInv => TypeOK
  BY DEF TypeInv
<1>2. QED
  BY <1>1, TypeInvInit, TypeInvStep, PTL DEF Spec

-----------------------------------------------------------------------------
(* Updates until the file is disturbed.  Then at most one goroutine is at    *)
(* work, has opened the file from what it found there, and from then on the  *)
(* file holds what it writes or is corrupt.                                  *)
SerialInv ==
    ~disturbed =>
        /\ \A u, w \in AtWork : u = w
        /\ Writing = {} => file \notin Corrupt
        /\ \A w \in Writer :
              /\ pc[w] = "ask" => value[w] = Merge(Status, msg[w])
              /\ pc[w] = "open" =>
                    \/ file \notin Corrupt /\ value[w] = Merge(Status, msg[w])
                    \/ file \in Corrupt \cup {value[w]}
              /\ pc[w] \in {"write", "check"} => file \in Corrupt \cup {value[w]}

\* What the status is, seen from the only goroutine at work.
LEMMA SerialStatus ==
    ASSUME TypeInv, NEW w \in Writer, AtWork \subseteq {w}
    PROVE  /\ file = Missing => Status = Empty
           /\ file \in Value => Status = file
           /\ file \in Corrupt /\ w \in Writing => Status = value[w]
<1>1. ASSUME w \in Writing PROVE Writing = {w}
  BY <1>1 DEF Writing, AtWork
<1>2. (CHOOSE u \in {w} : TRUE) = w
  OBVIOUS
<1>3. ASSUME w \in Writing, file \in Corrupt PROVE Status = value[w]
  BY <1>1, <1>2, <1>3, StatusFileAssumption DEF Status, Corrupt
<1>4. QED
  BY <1>3, StatusFileAssumption DEF Status, Corrupt

\* The status only depends on the file while that is not corrupt.
LEMMA StatusOfFile ==
    ASSUME file \notin Corrupt
    PROVE  Status = IF file = Missing THEN Empty ELSE file
BY DEF Status

\* A step that does not disturb is that of the only goroutine at work, or the end
\* of one that hangs.
LEMMA WhoSteps ==
    ASSUME TypeInv, SerialInv, ~disturbed, ~disturbed', NEW w \in Writer,
           Work(w) \/ Crash(w) \/ \E m \in Message : Receive(w, m)
    PROVE  \/ AtWork \subseteq {w} /\ pc[w] # "hung"
           \/ pc[w] = "hung" /\ Crash(w)
<1>1. CASE \E m \in Message : Receive(w, m)
  BY <1>1 DEF Receive
<1>2. CASE Work(w)
  <2>1. pc[w] \notin {"idle", "hung"}
    BY <1>2 DEF Work, ReadIntact, ReadReset, ReadFails, Informed, Hang, Open, OpenFails, Write,
                CheckIntact, CheckCorrupt
  <2>2. QED
    BY <2>1 DEF SerialInv, AtWork
<1>3. CASE Crash(w)
  BY <1>3 DEF Crash, SerialInv, AtWork
<1>4. QED
  BY <1>1, <1>2, <1>3

\* Nobody else moves.
LEMMA OthersStay ==
    ASSUME TypeInv, NEW w \in Writer,
           Work(w) \/ Crash(w) \/ \E m \in Message : Receive(w, m)
    PROVE  \A u \in Writer \ {w} : /\ pc'[u] = pc[u]
                                   /\ value'[u] = value[u]
                                   /\ msg'[u] = msg[u]
  BY DEF Work, ReadIntact, ReadReset, ReadFails, WaitOrReset, Update, Informed, Hang, Open,
         OpenFails, Write, CheckIntact, CheckCorrupt, Crash, Receive, Goto, End, TypeInv, TypeOK

\* A goroutine that hangs can end without anybody noticing.
LEMMA HungEnds ==
    ASSUME TypeInv, NEW w \in Writer, pc[w] = "hung", Crash(w)
    PROVE  /\ AtWork' = AtWork /\ Writing' = Writing /\ file' = file
           /\ disturbed' = disturbed /\ Status' = Status
           /\ pc'[w] = "idle"
<1>1. /\ pc' = [pc EXCEPT ![w] = "idle"] /\ pc \in [Writer -> Label]
      /\ value' = [value EXCEPT ![w] = Empty] /\ value \in [Writer -> Value]
      /\ file' = file
  BY DEF Crash, End, Goto, TypeInv, TypeOK, Label
<1>2. AtWork' = AtWork /\ Writing' = Writing /\ w \notin Writing /\ pc'[w] = "idle"
  BY <1>1 DEF AtWork, Writing
<1>3. disturbed' = disturbed
  BY <1>2 DEF Crash, TypeInv, TypeOK
<1>4. CASE Writing = {}
  BY <1>1, <1>2, <1>3, <1>4 DEF Status
<1>5. CASE Writing # {}
  <2>1. (CHOOSE u \in Writing : TRUE) \in Writing
    BY <1>5
  <2>2. \A u \in Writing : value'[u] = value[u]
    BY <1>1, <1>2 DEF Writing
  <2>3. QED
    BY <1>1, <1>2, <1>3, <2>1, <2>2 DEF Status
<1>6. QED
  BY <1>1, <1>2, <1>3, <1>4, <1>5

\* The step of one goroutine, while the others are idle, keeps the invariant.
LEMMA SerialStep ==
    ASSUME MergeClosed, TypeInv, SerialInv, [Next]_vars
    PROVE  SerialInv'
<1> USE StatusFileAssumption DEF Goto, End
<1>1. CASE UNCHANGED vars
  BY <1>1 DEF vars, SerialInv, AtWork, Status, Writing
<1>2. CASE Next
  <2> SUFFICES ASSUME ~disturbed' PROVE SerialInv'
    BY DEF SerialInv
  <2>0. ~disturbed
    BY <1>2 DEF Next, Work, Receive, ReadIntact, ReadReset, ReadFails, Informed, Hang, Open,
                OpenFails, Write, CheckIntact, CheckCorrupt, Crash, TypeInv, TypeOK
  <2>1. PICK w \in Writer : Work(w) \/ Crash(w) \/ \E m \in Message : Receive(w, m)
    BY <1>2 DEF Next
  <2>o. \A u \in Writer \ {w} : pc'[u] = pc[u] /\ value'[u] = value[u] /\ msg'[u] = msg[u]
    BY <2>1, OthersStay
  <2>h. CASE pc[w] = "hung" /\ Crash(w)
    <3>1. /\ AtWork' = AtWork /\ Writing' = Writing /\ file' = file
          /\ Status' = Status /\ pc'[w] = "idle"
      BY <2>h, HungEnds
    <3>2. QED
      BY <2>0, <2>o, <3>1 DEF SerialInv
  <2>n. CASE AtWork \subseteq {w} /\ pc[w] # "hung"
    <3> USE DEF TypeInv, TypeOK
    <3>c. pc' \in [Writer -> Label]
      BY TypeInvStep DEF Label
    <3>b. AtWork' \subseteq {w} /\ Writing' \subseteq {w}
      BY <2>n, <2>o DEF AtWork, Writing
    <3>d. Writing = {} <=> w \notin Writing
      BY <2>n DEF AtWork, Writing
    <3>e. /\ pc[w] \in {"idle", "read", "ask"} => file \notin Corrupt
          /\ pc[w] = "ask" => value[w] = Merge(Status, msg[w])
          /\ pc[w] = "open" =>
                \/ file \notin Corrupt /\ value[w] = Merge(Status, msg[w])
                \/ file \in Corrupt \cup {value[w]}
          /\ pc[w] \in {"write", "check"} => file \in Corrupt \cup {value[w]}
      BY <2>0, <3>d DEF SerialInv, Writing
    <3>f. SUFFICES
          /\ pc'[w] \in {"idle", "hung", "read", "ask"} => file' \notin Corrupt
          /\ pc'[w] = "ask" => value'[w] = Merge(Status', msg'[w])
          /\ pc'[w] = "open" =>
                \/ file' \notin Corrupt /\ value'[w] = Merge(Status', msg'[w])
                \/ file' \in Corrupt \cup {value'[w]}
          /\ pc'[w] \in {"write", "check"} => file' \in Corrupt \cup {value'[w]}
      <4>1. \A u \in Writer \ {w} : pc'[u] \in {"idle", "hung"}
        BY <3>b DEF AtWork
      <4>2. Writing' = {} => pc'[w] \in {"idle", "hung", "read", "ask"}
        BY <3>c DEF Writing, Label
      <4>3. QED
        BY <3>b, <3>f, <4>1, <4>2 DEF SerialInv, Corrupt
    <3>2. ASSUME NEW m \in Message, Receive(w, m) PROVE file' \notin Corrupt /\ pc'[w] = "read"
      BY <3>2, <3>e DEF Receive
    <3>3. CASE ReadIntact(w)
      <4>1. pc'[w] = "ask" /\ file' = file /\ file \notin Corrupt /\ msg' = msg
        BY <3>3 DEF ReadIntact, Update
      <4>2. Status' = IF file = Missing THEN Empty ELSE file
        BY <4>1 DEF Status
      <4>3. value'[w] = Merge(Status', msg'[w])
        BY <3>3, <4>1, <4>2 DEF ReadIntact, Update
      <4>4. QED
        BY <4>1, <4>3
    <3>4. CASE ReadReset(w)
      BY <3>4, <3>e DEF ReadReset
    <3>5. CASE ReadFails(w)
      <4>1. file' = file /\ file \notin Corrupt
        BY <3>5, <3>e DEF ReadFails
      <4>2. pc'[w] \in {"idle", "read"}
        <5>1. CASE givesUp
          BY <3>5, <5>1 DEF ReadFails
        <5>2. CASE ~givesUp
          <6>1. tries[w] \in 0 .. MaxReads - 1 /\ tries[w] + 1 # MaxReads
            BY <3>5, <5>2 DEF ReadFails
          <6>2. tries[w] + 1 < MaxReads
            BY <6>1
          <6>3. QED
            BY <3>5, <5>2, <6>2 DEF ReadFails, WaitOrReset
        <5>3. QED
          BY <5>1, <5>2
      <4>3. QED
        BY <4>1, <4>2
    <3>6. CASE Open(w)
      BY <3>6 DEF Open, Corrupt
    <3>7. CASE OpenFails(w) \/ Crash(w)
      <4>1. pc'[w] = "idle" /\ file' = file
        BY <3>7 DEF OpenFails, Crash
      <4>2. CASE w \in Writing
        BY <3>7, <4>1, <4>2 DEF OpenFails, Crash
      <4>3. CASE w \notin Writing
        BY <2>0, <3>d, <4>1, <4>3 DEF SerialInv
      <4>4. QED
        BY <4>2, <4>3
    <3>8. CASE Write(w)
      BY <3>8, <3>e DEF Write, Corrupt
    <3>9. CASE CheckIntact(w)
      BY <3>9, <3>e DEF CheckIntact
    <3>10. CASE CheckCorrupt(w)
      BY <3>10, <3>e DEF CheckCorrupt
    <3>11. CASE Informed(w) \/ Hang(w)
      <4>1. /\ file' = file /\ file \notin Corrupt /\ pc'[w] \in {"open", "hung"}
            /\ value' = value /\ msg' = msg /\ value[w] = Merge(Status, msg[w])
        BY <3>11, <3>e DEF Informed, Hang
      <4>2. Status' = Status
        BY <4>1 DEF Status
      <4>3. QED
        BY <4>1, <4>2
    <3>12. QED
      BY <2>1, <3>2, <3>3, <3>4, <3>5, <3>6, <3>7, <3>8, <3>9, <3>10, <3>11 DEF Work
  <2>2. QED
    BY <2>0, <2>1, <2>h, <2>n, WhoSteps
<1>3. QED
  BY <1>1, <1>2

\* Until the file is disturbed, the status changes when the file is opened the first
\* time, by the merging of the message, and at no other step.
LEMMA RegisterStep ==
    ASSUME MergeClosed, TypeInv, SerialInv, [Next]_vars
    PROVE  [Register!Next]_<<Status, disturbed>>
<1> USE StatusFileAssumption DEF Goto, End
<1>0. TypeInv' /\ SerialInv'
  BY TypeInvStep, SerialStep
<1>1. CASE UNCHANGED vars
  BY <1>1 DEF vars, Status, Writing
<1> USE DEF TypeInv, TypeOK
<1>2. CASE disturbed'
  BY <1>0, <1>2 DEF Register!Next, Register!Disturb
<1>3. CASE Next /\ ~disturbed'
  <2>0. ~disturbed /\ disturbed' = disturbed
    <3>1. ~disturbed
      BY <1>3 DEF Next, Work, Receive, ReadIntact, ReadReset, ReadFails, Informed, Hang, Open,
                  OpenFails, Write, CheckIntact, CheckCorrupt, Crash
    <3>2. QED
      BY <1>0, <1>3, <3>1
  <2> SUFFICES Status' = Status \/ \E m \in Message : Status' = Merge(Status, m)
    BY <2>0 DEF Register!Next, Register!Accept
  <2>1. PICK w \in Writer : Work(w) \/ Crash(w) \/ \E m \in Message : Receive(w, m)
    BY <1>3 DEF Next
  <2>h. CASE pc[w] = "hung" /\ Crash(w)
    BY <2>h, HungEnds
  <2>n. CASE AtWork \subseteq {w} /\ pc[w] # "hung"
    <3>a. AtWork' \subseteq {w}
      <4>1. \A u \in Writer \ {w} : pc'[u] = pc[u]
        BY <2>1, OthersStay
      <4>2. QED
        BY <2>n, <4>1 DEF AtWork
    <3>b. /\ pc[w] \in {"idle", "read", "ask"} => file \notin Corrupt
          /\ pc[w] = "open" =>
                \/ file \notin Corrupt /\ value[w] = Merge(Status, msg[w])
                \/ file \in Corrupt \cup {value[w]}
          /\ pc[w] \in {"write", "check"} => file \in Corrupt \cup {value[w]}
      <4>1. Writing = {} <=> w \notin Writing
        BY <2>n DEF AtWork, Writing
      <4>2. QED
        BY <2>0, <4>1 DEF SerialInv, Writing
    <3>c. /\ file' = Missing => Status' = Empty
          /\ file' \in Value => Status' = file'
          /\ file' \in Corrupt /\ pc'[w] \in {"open", "write", "check"} => Status' = value'[w]
      <4>1. ASSUME pc'[w] \in {"open", "write", "check"} PROVE Writing' = {w}
        BY <3>a, <4>1 DEF Writing, AtWork
      <4>2. (CHOOSE u \in {w} : TRUE) = w
        OBVIOUS
      <4>3. ASSUME pc'[w] \in {"open", "write", "check"}, file' \in Corrupt
            PROVE  Status' = value'[w]
        BY <4>1, <4>2, <4>3 DEF Status, Corrupt
      <4>4. QED
        BY <4>3 DEF Status, Corrupt
    <3>d. ASSUME file' = file, file \notin Corrupt PROVE Status' = Status
      BY <3>d DEF Status
    <3>2. CASE \E m \in Message : Receive(w, m)
      BY <3>b, <3>d, <3>2 DEF Receive
    <3>3. CASE ReadIntact(w)
      BY <3>d, <3>3 DEF ReadIntact
    <3>4. CASE ReadReset(w) \/ ReadFails(w) \/ Informed(w) \/ Hang(w)
      BY <3>b, <3>d, <3>4 DEF ReadReset, ReadFails, Informed, Hang
    <3>5. CASE Open(w)
      <4>1. Status' = value[w] /\ msg[w] \in Message
        BY <3>c, <3>5 DEF Open, Corrupt
      <4>2. CASE file \notin Corrupt /\ value[w] = Merge(Status, msg[w])
        BY <4>1, <4>2
      <4>3. CASE file \in Corrupt \cup {value[w]}
        <5>1. Status = value[w]
          BY <2>n, <3>5, <4>3, SerialStatus DEF Open, Writing
        <5>2. QED
          BY <4>1, <5>1
      <4>4. QED
        BY <3>b, <3>5, <4>1, <4>2, <4>3 DEF Open
    <3>6. CASE OpenFails(w) \/ Crash(w)
      <4>1. file \notin Corrupt /\ file' = file
        BY <1>3, <2>0, <2>n, <3>b, <3>6 DEF OpenFails, Crash, Writing
      <4>2. QED
        BY <3>d, <4>1
    <3>7. CASE Write(w) \/ CheckCorrupt(w)
      <4>1. /\ file \in Corrupt \cup {value[w]} /\ file' \in Corrupt \cup {value[w]}
            /\ value'[w] = value[w] /\ pc[w] \in {"write", "check"}
            /\ pc'[w] \in {"check", "open"}
        BY <3>b, <3>7 DEF Write, CheckCorrupt, Corrupt
      <4>2. Status = value[w]
        BY <2>n, <4>1, SerialStatus DEF Writing
      <4>3. Status' = value[w]
        BY <3>c, <4>1
      <4>4. QED
        BY <4>2, <4>3
    <3>8. CASE CheckIntact(w)
      BY <3>d, <3>8 DEF CheckIntact
    <3>9. QED
      BY <2>1, <3>2, <3>3, <3>4, <3>5, <3>6, <3>7, <3>8 DEF Work
  <2>2. QED
    BY <1>3, <2>0, <2>1, <2>h, <2>n, WhoSteps
<1>4. QED
  BY <1>1, <1>2, <1>3

\* Updates implement the register for any number of goroutines, until the file is
\* disturbed: the retries, a failed write, the truncated file, the rewrites and a
\* crash that does not hit a truncated file are invisible, for every way of merging.
THEOREM UpdatesImplementRegister ==
    ASSUME MergeClosed
    PROVE  Spec => MergesOneByOne
<1>1. Init => TypeInv /\ SerialInv /\ Register!Init
  <2>1. ASSUME Init PROVE SerialInv /\ Status = Empty /\ ~disturbed
    BY <2>1, StatusFileAssumption DEF Init, SerialInv, Status, AtWork, Writing
  <2>2. QED
    BY <2>1, TypeInvInit DEF Register!Init
<1>2. TypeInv /\ SerialInv /\ [Next]_vars =>
          TypeInv' /\ SerialInv' /\ [Register!Next]_<<Status, disturbed>>
  BY TypeInvStep, SerialStep, RegisterStep
<1>3. QED
  BY <1>1, <1>2, PTL DEF Spec, MergesOneByOne, Register!Spec

-----------------------------------------------------------------------------
(* The file of a device: StatusFile with the merging of StatusMerge.        *)
OfDevice ==
    /\ Message \subseteq DeviceMessage
    /\ Value = DeviceStatus
    /\ Empty = EmptyDevice
    /\ \A v \in Value, m \in Message : Merge(v, m) = DeviceMerge(v, m)

FileInStep == ~disturbed => InStep(Status)

\* The status in the file is one at any time.
LEMMA StatusType == TypeInv => Status \in Value
<1>1. ASSUME NEW w \in Writing PROVE (CHOOSE u \in Writing : TRUE) \in Writer
  BY <1>1 DEF Writing
<1>2. QED
  BY <1>1, StatusFileAssumption DEF TypeInv, TypeOK, Status

\* Merging messages into the file of a device gives statuses.
LEMMA OfDeviceClosed == OfDevice => MergeClosed
  BY DeviceMergeClosed DEF OfDevice, MergeClosed

\* A step of a goroutine merges a message, or leaves the status as it is.
LEMMA DeviceFileStep ==
    OfDevice /\ TypeInv /\ SerialInv /\ FileInStep /\ [Next]_vars =>
        /\ FileInStep'
        /\ [~disturbed' => Shifted(Status', Status) /\ Kept(Status', Status)]_<<Status, disturbed>>
<1> SUFFICES ASSUME OfDevice, TypeInv, SerialInv, FileInStep, [Next]_vars, ~disturbed',
                    ~UNCHANGED <<Status, disturbed>>
             PROVE  InStep(Status') /\ Shifted(Status', Status) /\ Kept(Status', Status)
  BY DEF FileInStep
<1>1. [Register!Next]_<<Status, disturbed>>
  BY OfDeviceClosed, RegisterStep
<1>2. PICK m \in Message : Register!Accept(m)
  BY <1>1 DEF Register!Next, Register!Disturb
<1>3. Status \in DeviceStatus /\ m \in DeviceMessage /\ Status' = DeviceMerge(Status, m)
  BY <1>2, StatusType DEF Register!Accept, OfDevice
<1>4. InStep(Status)
  BY <1>2 DEF Register!Accept, FileInStep
<1>5. QED
  BY <1>3, <1>4, MergeKeepsStep, MergeShifts, MergeKeeps

\* As long as updates do not overlap, and whatever else fails, what the file of a
\* device says is in step with its histories, which only grow at the front, and
\* nothing that was known is forgotten.
THEOREM DeviceFilesFollowValues ==
    ASSUME OfDevice
    PROVE  Spec =>
              /\ []FileInStep
              /\ [][~disturbed' => Shifted(Status', Status) /\ Kept(Status', Status)
                   ]_<<Status, disturbed>>
<1>1. Init => TypeInv /\ SerialInv /\ FileInStep
  <2>1. ASSUME Init PROVE SerialInv /\ Status = Empty
    BY <2>1, StatusFileAssumption DEF Init, SerialInv, Status, AtWork, Writing
  <2>2. QED
    BY <2>1, TypeInvInit, EmptyDeviceType DEF FileInStep, OfDevice
<1>2. TypeInv /\ SerialInv /\ [Next]_vars => TypeInv' /\ SerialInv'
  BY OfDeviceClosed, TypeInvStep, SerialStep
<1>3. OfDevice
  OBVIOUS
<1>4. QED
  BY <1>1, <1>2, <1>3, DeviceFileStep, PTL DEF Spec
=============================================================================
