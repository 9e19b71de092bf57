------------------------------ MODULE LogProofs ------------------------------
(***************************************************************************)
(* What is proved of a device's log: how its check accumulates it          *)
(* (Dataset), whatever the device measures and in whatever order that is   *)
(* logged, and how it is written (DeviceLog).                              *)
(*                                                                         *)
(* The check keeps a handful of numbers, and its properties speak of the   *)
(* whole log.  The invariants therefore say what each number is in terms   *)
(* of the entries checked so far, with operators on sequences of entries,  *)
(* and the lemmas what one more entry makes of these.                      *)
(***************************************************************************)
EXTENDS Dataset, DeviceLog, FiniteSetTheorems, TLAPS

-----------------------------------------------------------------------------
(* Extrema.                                                                  *)

\* An element that no other exceeds is the greatest.
LEMMA MaxIs ==
    ASSUME NEW S, S \subseteq Int, NEW x \in S, \A y \in S : y <= x
    PROVE  Max(S) = x
<1>1. \E z \in S : \A y \in S : z >= y
  OBVIOUS
<1>2. Max(S) \in S /\ \A y \in S : Max(S) >= y
  BY <1>1 DEF Max
<1>3. Max(S) \in Int /\ x \in Int
  BY <1>2
<1>4. Max(S) >= x /\ Max(S) <= x
  BY <1>2
<1>5. QED
  BY <1>3, <1>4

LEMMA MinIs ==
    ASSUME NEW S, S \subseteq Int, NEW x \in S, \A y \in S : x <= y
    PROVE  Min(S) = x
<1>1. \E z \in S : \A y \in S : z =< y
  OBVIOUS
<1>2. Min(S) \in S /\ \A y \in S : Min(S) =< y
  BY <1>1 DEF Min
<1>3. Min(S) \in Int /\ x \in Int
  BY <1>2
<1>4. Min(S) >= x /\ Min(S) <= x
  BY <1>2
<1>5. QED
  BY <1>3, <1>4

\* The greater and the less of two numbers.
LEMMA OfTwo ==
    ASSUME NEW a \in Int, NEW b \in Int
    PROVE  /\ Max({a, b}) = IF a >= b THEN a ELSE b
           /\ Min({a, b}) = IF a <= b THEN a ELSE b
<1>1. CASE a >= b
  BY <1>1, MaxIs, MinIs
<1>2. CASE ~(a >= b)
  BY <1>2, MaxIs, MinIs
<1>3. QED
  BY <1>1, <1>2

-----------------------------------------------------------------------------
(* Types.                                                                    *)
SensorData == [n : Nat, boot : 1 .. MaxBoots, uploaded : Nat, uptime : Nat,
               errors : Nat, report : Report]

MeasurementStat == [uploaded : Nat, uptime : Nat, errors : Nat, has : BOOLEAN, value : Int,
         warning : BOOLEAN]

MeasurementDataset ==
    [measurements : Nat, oldest : Nat, newest : Nat, minGap : Nat, maxGap : Nat,
     gapsGt : [Threshold -> Nat],
     thisErrors : Nat, prevErrors : Nat, anyErrors : BOOLEAN,
     boots : Nat, prevUptime : Nat, maxUptime : Nat,
     count : Nat, lo : Int, hi : Int, warnings : Nat, warningFirst : Nat]

DataType ==
    /\ device \in [boot : 1 .. MaxBoots, uptime : Nat, errors : Nat]
    /\ now \in Nat
    /\ flying \subseteq SensorData /\ IsFiniteSet(flying) /\ Cardinality(flying) <= Window
    /\ checked \in Seq(SensorData)
    /\ ds \in MeasurementDataset

LEMMA StatType ==
    ASSUME NEW sd \in SensorData
    PROVE  CheckMeasurement(sd) \in MeasurementStat
<1>1. Measured(sd) => sd.report.value \in Int
  BY DatasetAssumption DEF Measured, SensorData
<1>2. QED
  BY <1>1 DEF CheckMeasurement, MeasurementStat, SensorData

LEMMA RoundedType ==
    ASSUME NEW x \in Nat
    PROVE  Rounded(x) \in Nat /\ Rounded(0) = 0
  BY DEF Rounded

-----------------------------------------------------------------------------
(* What each part of AggregateMeasurementIntoDataset changes.                *)
GapPart(d) == <<d.measurements, d.newest, d.minGap, d.maxGap, d.gapsGt>>
ErrorPart(d) == <<d.thisErrors, d.prevErrors, d.anyErrors>>
BootPart(d) == <<d.boots, d.prevUptime>>
SensorPart(d) == <<d.count, d.lo, d.hi, d.warnings>>

LEMMA CountedEffect ==
    ASSUME NEW d \in MeasurementDataset, NEW stat \in MeasurementStat, NEW e, e = Counted(d, stat)
    PROVE  /\ e \in MeasurementDataset
           /\ e.measurements = d.measurements + 1
           /\ e.newest = IF d.measurements = 0 THEN stat.uploaded ELSE d.newest
           /\ e.minGap = d.minGap /\ e.maxGap = d.maxGap /\ e.gapsGt = d.gapsGt
           /\ ErrorPart(e) = ErrorPart(d)
           /\ BootPart(e) = BootPart(d)
           /\ SensorPart(e) = SensorPart(d)
<1>1. d.measurements \in Nat /\ (d.measurements + 1 = 1 <=> d.measurements = 0)
  BY DEF MeasurementDataset
<1>2. PICK old, new \in Nat :
        /\ old = IF d.measurements + 1 = 1 THEN stat.uploaded ELSE d.oldest
        /\ new = IF d.measurements + 1 = 1 THEN stat.uploaded ELSE d.newest
  BY DEF MeasurementDataset, MeasurementStat
<1>n. PICK n \in Nat : n = d.measurements + 1
  BY <1>1
<1>3. e = [d EXCEPT !.measurements = n, !.oldest = old, !.newest = new]
  BY <1>2, <1>n DEF Counted
<1>4. e \in MeasurementDataset
  BY <1>3 DEF MeasurementDataset
<1>5. /\ e.measurements = n /\ e.newest = new
      /\ e.minGap = d.minGap /\ e.maxGap = d.maxGap /\ e.gapsGt = d.gapsGt
  BY <1>3 DEF MeasurementDataset
<1>6. ErrorPart(e) = ErrorPart(d) /\ BootPart(e) = BootPart(d) /\ SensorPart(e) = SensorPart(d)
  BY <1>3 DEF MeasurementDataset, ErrorPart, BootPart, SensorPart
<1>7. QED
  BY <1>1, <1>2, <1>n, <1>4, <1>5, <1>6

LEMMA TimedEffect ==
    ASSUME NEW d \in MeasurementDataset, NEW stat \in MeasurementStat,
           NEW gap, gap = Rounded(stat.uploaded - d.newest), NEW e, e = Timed(d, stat)
    PROVE  /\ e \in MeasurementDataset
           /\ stat.uploaded < d.newest => e = d
           /\ stat.uploaded >= d.newest =>
                 /\ gap \in Nat
                 /\ e.newest = stat.uploaded
                 /\ e.minGap = IF gap > 0 /\ (d.minGap = 0 \/ gap < d.minGap)
                               THEN gap ELSE d.minGap
                 /\ e.maxGap = IF d.maxGap >= gap THEN d.maxGap ELSE gap
                 /\ \A m \in Threshold :
                       e.gapsGt[m] = IF gap > m * 60 THEN d.gapsGt[m] + 1 ELSE d.gapsGt[m]
           /\ e.measurements = d.measurements
           /\ ErrorPart(e) = ErrorPart(d)
           /\ BootPart(e) = BootPart(d)
           /\ SensorPart(e) = SensorPart(d)
<1>0. /\ stat.uploaded \in Nat /\ d.newest \in Nat /\ d.minGap \in Nat /\ d.maxGap \in Nat
      /\ d.gapsGt \in [Threshold -> Nat]
  BY DEF MeasurementStat, MeasurementDataset
<1>1. CASE stat.uploaded < d.newest
  BY <1>0, <1>1 DEF Timed
<1>2. CASE ~(stat.uploaded < d.newest)
  <2>1. stat.uploaded - d.newest \in Nat /\ stat.uploaded >= d.newest
    BY <1>0, <1>2
  <2>2. gap \in Nat
    BY <2>1, RoundedType
  <2>3. PICK lo, hi, gt :
          /\ lo = IF gap > 0 /\ (d.minGap = 0 \/ gap < d.minGap) THEN gap ELSE d.minGap
          /\ hi = IF d.maxGap >= gap THEN d.maxGap ELSE gap
          /\ gt = [m \in Threshold |->
                      IF gap > m * 60 THEN d.gapsGt[m] + 1 ELSE d.gapsGt[m]]
    OBVIOUS
  <2>4. Max({d.maxGap, gap}) = hi
    BY <1>0, <2>2, <2>3, OfTwo
  <2>5. lo \in Nat /\ hi \in Nat /\ gt \in [Threshold -> Nat]
    BY <1>0, <2>2, <2>3
  <2>6. e = [d EXCEPT !.newest = stat.uploaded, !.minGap = lo, !.maxGap = hi, !.gapsGt = gt]
    <3>1. e = [d EXCEPT !.newest = stat.uploaded, !.minGap = lo,
                        !.maxGap = Max({d.maxGap, gap}), !.gapsGt = gt]
      BY <1>2, <2>3 DEF Timed
    <3>2. QED
      BY <2>4, <3>1
  <2>7. e \in MeasurementDataset
    BY <1>0, <2>5, <2>6 DEF MeasurementDataset
  <2>8. /\ e.newest = stat.uploaded /\ e.minGap = lo /\ e.maxGap = hi /\ e.gapsGt = gt
        /\ e.measurements = d.measurements
    BY <2>6 DEF MeasurementDataset
  <2>9. ErrorPart(e) = ErrorPart(d) /\ BootPart(e) = BootPart(d) /\ SensorPart(e) = SensorPart(d)
    BY <2>6 DEF MeasurementDataset, ErrorPart, BootPart, SensorPart
  <2>10. QED
    BY <1>2, <2>1, <2>2, <2>3, <2>7, <2>8, <2>9
<1>3. QED
  BY <1>1, <1>2

LEMMA SessionErrorsEffect ==
    ASSUME NEW d \in MeasurementDataset, NEW stat \in MeasurementStat,
           NEW e, e = SessionErrors(d, stat)
    PROVE  /\ e \in MeasurementDataset
           /\ e.thisErrors = IF d.thisErrors >= stat.errors THEN d.thisErrors ELSE stat.errors
           /\ e.anyErrors <=> d.anyErrors \/ stat.errors > d.thisErrors
           /\ e.prevErrors = d.prevErrors
           /\ GapPart(e) = GapPart(d)
           /\ BootPart(e) = BootPart(d)
           /\ SensorPart(e) = SensorPart(d)
<1>0. stat.errors \in Nat /\ d.thisErrors \in Nat /\ d.anyErrors \in BOOLEAN
  BY DEF MeasurementStat, MeasurementDataset
<1>1. PICK worst : worst = IF d.thisErrors >= stat.errors THEN d.thisErrors ELSE stat.errors
  OBVIOUS
<1>2. PICK any \in BOOLEAN : any <=> d.anyErrors \/ stat.errors > d.thisErrors
  BY <1>0, Zenon
<1>3. Max({d.thisErrors, stat.errors}) = worst /\ worst \in Nat
  BY <1>0, <1>1, OfTwo
<1>4. (d.anyErrors \/ stat.errors > d.thisErrors) = any
  BY <1>0, <1>2, Zenon
<1>5. e = [d EXCEPT !.thisErrors = worst, !.anyErrors = any]
  BY <1>3, <1>4, Zenon DEF SessionErrors
<1>6. /\ e \in MeasurementDataset
      /\ e.thisErrors = worst /\ e.anyErrors = any /\ e.prevErrors = d.prevErrors
      /\ GapPart(e) = GapPart(d) /\ BootPart(e) = BootPart(d) /\ SensorPart(e) = SensorPart(d)
  BY <1>3, <1>5 DEF MeasurementDataset, GapPart, BootPart, SensorPart
<1>7. QED
  BY <1>1, <1>2, <1>6, Zenon

\* A boot takes the errors of the session to the others.
LEMMA UptimeEffect ==
    ASSUME NEW d \in MeasurementDataset, NEW stat \in MeasurementStat,
           NEW e, e = Uptime(d, stat)
    PROVE  /\ e \in MeasurementDataset
           /\ stat.uptime = 0 => e = d
           /\ stat.uptime # 0 => e.prevUptime = stat.uptime
           /\ stat.uptime # 0 /\ stat.uptime < d.prevUptime =>
                 /\ e.boots = d.boots + 1
                 /\ e.prevErrors = d.prevErrors + d.thisErrors /\ e.thisErrors = 0
           /\ stat.uptime # 0 /\ ~(stat.uptime < d.prevUptime) =>
                 /\ e.boots = d.boots
                 /\ e.prevErrors = d.prevErrors /\ e.thisErrors = d.thisErrors
           /\ e.anyErrors = d.anyErrors
           /\ GapPart(e) = GapPart(d)
           /\ SensorPart(e) = SensorPart(d)
<1>0. /\ stat.uptime \in Nat /\ d.maxUptime \in Nat /\ d.prevUptime \in Nat /\ d.boots \in Nat
      /\ d.prevErrors \in Nat /\ d.thisErrors \in Nat
  BY DEF MeasurementStat, MeasurementDataset
<1>1. CASE stat.uptime = 0
  BY <1>1 DEF Uptime
<1>2. ASSUME stat.uptime # 0, NEW high, high = Max({d.maxUptime, stat.uptime})
      PROVE  high \in Nat
  BY <1>0, <1>2, OfTwo
<1>3. CASE stat.uptime # 0 /\ stat.uptime < d.prevUptime
  <2>1. PICK high \in Nat : high = Max({d.maxUptime, stat.uptime})
    BY <1>2, <1>3
  <2>n. PICK n \in Nat, all \in Nat : n = d.boots + 1 /\ all = d.prevErrors + d.thisErrors
    BY <1>0
  <2>2. e = [d EXCEPT !.maxUptime = high, !.boots = n, !.prevUptime = stat.uptime,
                      !.prevErrors = all, !.thisErrors = 0]
    BY <1>3, <2>1, <2>n DEF Uptime, AggregateErrors, MeasurementDataset
  <2>3. e \in MeasurementDataset
    <3>1. [d EXCEPT !.maxUptime = high, !.boots = n, !.prevUptime = stat.uptime]
              \in MeasurementDataset
      BY <1>0 DEF MeasurementDataset
    <3>2. PICK f \in MeasurementDataset :
            f = [d EXCEPT !.maxUptime = high, !.boots = n, !.prevUptime = stat.uptime]
      BY <3>1
    <3>3. [f EXCEPT !.prevErrors = all, !.thisErrors = 0] \in MeasurementDataset
      BY DEF MeasurementDataset
    <3>4. QED
      BY <2>2, <3>2, <3>3
  <2>4. /\ e.prevUptime = stat.uptime /\ e.boots = n
        /\ e.prevErrors = all /\ e.thisErrors = 0
        /\ e.anyErrors = d.anyErrors
    BY <2>2 DEF MeasurementDataset
  <2>5. GapPart(e) = GapPart(d) /\ SensorPart(e) = SensorPart(d)
    BY <2>2 DEF MeasurementDataset, GapPart, SensorPart
  <2>6. QED
    BY <1>3, <2>n, <2>3, <2>4, <2>5
<1>4. CASE stat.uptime # 0 /\ ~(stat.uptime < d.prevUptime)
  <2>1. PICK high \in Nat : high = Max({d.maxUptime, stat.uptime})
    BY <1>2, <1>4
  <2>2. e = [d EXCEPT !.maxUptime = high, !.prevUptime = stat.uptime]
    BY <1>4, <2>1 DEF Uptime, MeasurementDataset
  <2>3. QED
    BY <1>0, <1>4, <2>1, <2>2 DEF MeasurementDataset, GapPart, SensorPart
<1>5. QED
  BY <1>1, <1>3, <1>4

LEMMA SensorsEffect ==
    ASSUME NEW d \in MeasurementDataset, NEW stat \in MeasurementStat,
           NEW e, e = Sensors(d, stat)
    PROVE  /\ e \in MeasurementDataset
           /\ ~stat.has => e.count = d.count /\ e.lo = d.lo /\ e.hi = d.hi
           /\ stat.has => /\ e.count = d.count + 1
                          /\ e.lo = IF d.count = 0 \/ stat.value < d.lo
                                    THEN stat.value ELSE d.lo
                          /\ e.hi = IF d.count = 0 \/ stat.value > d.hi
                                    THEN stat.value ELSE d.hi
           /\ e.warnings = IF stat.warning THEN d.warnings + 1 ELSE d.warnings
           /\ GapPart(e) = GapPart(d)
           /\ ErrorPart(e) = ErrorPart(d)
           /\ BootPart(e) = BootPart(d)
<1>0. /\ stat.value \in Int /\ d.lo \in Int /\ d.hi \in Int /\ d.count \in Nat
      /\ d.warnings \in Nat /\ d.warningFirst \in Nat /\ stat.uploaded \in Nat
  BY DEF MeasurementStat, MeasurementDataset
<1>1. PICK lo, hi, first, n, w :
        /\ lo = IF ~stat.has THEN d.lo
                ELSE IF d.count = 0 THEN stat.value ELSE Min({d.lo, stat.value})
        /\ hi = IF ~stat.has THEN d.hi
                ELSE IF d.count = 0 THEN stat.value ELSE Max({d.hi, stat.value})
        /\ first = IF stat.warning /\ d.warnings = 0 THEN stat.uploaded ELSE d.warningFirst
        /\ n = IF stat.has THEN d.count + 1 ELSE d.count
        /\ w = IF stat.warning THEN d.warnings + 1 ELSE d.warnings
  OBVIOUS
<1>2. e = [d EXCEPT !.count = n, !.lo = lo, !.hi = hi, !.warningFirst = first, !.warnings = w]
  BY <1>1 DEF Sensors
<1>3. /\ Min({d.lo, stat.value}) = IF d.lo <= stat.value THEN d.lo ELSE stat.value
      /\ Max({d.hi, stat.value}) = IF d.hi >= stat.value THEN d.hi ELSE stat.value
  BY <1>0, OfTwo
<1>4. lo \in Int /\ hi \in Int /\ first \in Nat /\ n \in Nat /\ w \in Nat
  BY <1>0, <1>1, <1>3
<1>5. e \in MeasurementDataset
  <2>1. [d EXCEPT !.count = n, !.lo = lo, !.hi = hi] \in MeasurementDataset
    BY <1>4 DEF MeasurementDataset
  <2>2. PICK f \in MeasurementDataset : f = [d EXCEPT !.count = n, !.lo = lo, !.hi = hi]
    BY <2>1
  <2>3. [f EXCEPT !.warningFirst = first, !.warnings = w] \in MeasurementDataset
    BY <1>4 DEF MeasurementDataset
  <2>4. QED
    BY <1>2, <2>2, <2>3
<1>6. e.count = n /\ e.lo = lo /\ e.hi = hi /\ e.warnings = w
  BY <1>2 DEF MeasurementDataset
<1>7. GapPart(e) = GapPart(d) /\ ErrorPart(e) = ErrorPart(d) /\ BootPart(e) = BootPart(d)
  BY <1>2 DEF MeasurementDataset, GapPart, ErrorPart, BootPart
<1>8. QED
  BY <1>0, <1>1, <1>3, <1>5, <1>6, <1>7

\* All of them, one after the other.
LEMMA AggregateEffect ==
    ASSUME NEW d \in MeasurementDataset, NEW stat \in MeasurementStat,
           NEW e, e = Aggregate(d, stat),
           NEW from, from = IF d.measurements = 0 THEN stat.uploaded ELSE d.newest,
           NEW gap, gap = Rounded(stat.uploaded - from),
           NEW worst, worst = IF d.thisErrors >= stat.errors THEN d.thisErrors ELSE stat.errors
    PROVE  /\ e \in MeasurementDataset
           /\ e.measurements = d.measurements + 1
           /\ stat.uploaded < from =>
                 /\ e.newest = from /\ e.minGap = d.minGap /\ e.maxGap = d.maxGap
                 /\ e.gapsGt = d.gapsGt
           /\ stat.uploaded >= from =>
                 /\ gap \in Nat
                 /\ e.newest = stat.uploaded
                 /\ e.minGap = IF gap > 0 /\ (d.minGap = 0 \/ gap < d.minGap)
                               THEN gap ELSE d.minGap
                 /\ e.maxGap = IF d.maxGap >= gap THEN d.maxGap ELSE gap
                 /\ \A m \in Threshold :
                       e.gapsGt[m] = IF gap > m * 60 THEN d.gapsGt[m] + 1 ELSE d.gapsGt[m]
           /\ e.anyErrors <=> d.anyErrors \/ stat.errors > d.thisErrors
           /\ stat.uptime = 0 => BootPart(e) = BootPart(d)
           /\ stat.uptime # 0 => e.prevUptime = stat.uptime
           /\ stat.uptime # 0 /\ stat.uptime < d.prevUptime =>
                 /\ e.boots = d.boots + 1
                 /\ e.prevErrors = d.prevErrors + worst /\ e.thisErrors = 0
           /\ ~(stat.uptime # 0 /\ stat.uptime < d.prevUptime) =>
                 /\ e.boots = d.boots
                 /\ e.prevErrors = d.prevErrors /\ e.thisErrors = worst
           /\ ~stat.has => e.count = d.count /\ e.lo = d.lo /\ e.hi = d.hi
           /\ stat.has => /\ e.count = d.count + 1
                          /\ e.lo = IF d.count = 0 \/ stat.value < d.lo
                                    THEN stat.value ELSE d.lo
                          /\ e.hi = IF d.count = 0 \/ stat.value > d.hi
                                    THEN stat.value ELSE d.hi
           /\ e.warnings = IF stat.warning THEN d.warnings + 1 ELSE d.warnings
<1>1. PICK d1, d2, d3, d4 :
        /\ d1 = Counted(d, stat) /\ d2 = Timed(d1, stat) /\ d3 = SessionErrors(d2, stat)
        /\ d4 = Uptime(d3, stat) /\ e = Sensors(d4, stat)
  BY DEF Aggregate
<1> USE DEF GapPart, ErrorPart, BootPart, SensorPart
<1>2. /\ d1 \in MeasurementDataset
      /\ d1.measurements = d.measurements + 1
      /\ d1.newest = IF d.measurements = 0 THEN stat.uploaded ELSE d.newest
      /\ d1.minGap = d.minGap /\ d1.maxGap = d.maxGap /\ d1.gapsGt = d.gapsGt
      /\ ErrorPart(d1) = ErrorPart(d) /\ BootPart(d1) = BootPart(d)
      /\ SensorPart(d1) = SensorPart(d)
  BY <1>1, CountedEffect
<1>3. d1.newest = from /\ gap = Rounded(stat.uploaded - d1.newest)
  BY <1>2
<1>4. /\ d2 \in MeasurementDataset
      /\ stat.uploaded < d1.newest => d2 = d1
      /\ stat.uploaded >= d1.newest =>
            /\ gap \in Nat
            /\ d2.newest = stat.uploaded
            /\ d2.minGap = IF gap > 0 /\ (d1.minGap = 0 \/ gap < d1.minGap)
                           THEN gap ELSE d1.minGap
            /\ d2.maxGap = IF d1.maxGap >= gap THEN d1.maxGap ELSE gap
            /\ \A m \in Threshold :
                  d2.gapsGt[m] = IF gap > m * 60 THEN d1.gapsGt[m] + 1 ELSE d1.gapsGt[m]
      /\ d2.measurements = d1.measurements
      /\ ErrorPart(d2) = ErrorPart(d1) /\ BootPart(d2) = BootPart(d1)
      /\ SensorPart(d2) = SensorPart(d1)
  BY <1>1, <1>2, <1>3, TimedEffect
<1>5. worst = IF d2.thisErrors >= stat.errors THEN d2.thisErrors ELSE stat.errors
  BY <1>2, <1>4
<1>6. /\ d3 \in MeasurementDataset
      /\ d3.thisErrors = worst /\ d3.prevErrors = d2.prevErrors
      /\ d3.anyErrors <=> d2.anyErrors \/ stat.errors > d2.thisErrors
      /\ GapPart(d3) = GapPart(d2) /\ BootPart(d3) = BootPart(d2)
      /\ SensorPart(d3) = SensorPart(d2)
  BY <1>1, <1>4, <1>5, SessionErrorsEffect
<1>7. /\ d4 \in MeasurementDataset
      /\ stat.uptime = 0 => d4 = d3
      /\ stat.uptime # 0 => d4.prevUptime = stat.uptime
      /\ stat.uptime # 0 /\ stat.uptime < d3.prevUptime =>
            /\ d4.boots = d3.boots + 1
            /\ d4.prevErrors = d3.prevErrors + d3.thisErrors /\ d4.thisErrors = 0
      /\ stat.uptime # 0 /\ ~(stat.uptime < d3.prevUptime) =>
            /\ d4.boots = d3.boots
            /\ d4.prevErrors = d3.prevErrors /\ d4.thisErrors = d3.thisErrors
      /\ d4.anyErrors = d3.anyErrors
      /\ GapPart(d4) = GapPart(d3) /\ SensorPart(d4) = SensorPart(d3)
  BY <1>1, <1>6, UptimeEffect
<1>8. /\ e \in MeasurementDataset
      /\ ~stat.has => e.count = d4.count /\ e.lo = d4.lo /\ e.hi = d4.hi
      /\ stat.has => /\ e.count = d4.count + 1
                     /\ e.lo = IF d4.count = 0 \/ stat.value < d4.lo
                               THEN stat.value ELSE d4.lo
                     /\ e.hi = IF d4.count = 0 \/ stat.value > d4.hi
                               THEN stat.value ELSE d4.hi
      /\ e.warnings = IF stat.warning THEN d4.warnings + 1 ELSE d4.warnings
      /\ GapPart(e) = GapPart(d4) /\ ErrorPart(e) = ErrorPart(d4) /\ BootPart(e) = BootPart(d4)
  BY <1>1, <1>7, SensorsEffect
<1>9. /\ e.measurements = d.measurements + 1
      /\ GapPart(e) = GapPart(d2) /\ d1.minGap = d.minGap /\ d1.maxGap = d.maxGap
      /\ d1.gapsGt = d.gapsGt
  BY <1>2, <1>4, <1>6, <1>7, <1>8
<1>10. /\ ErrorPart(e) = ErrorPart(d4) /\ ErrorPart(d2) = ErrorPart(d)
       /\ BootPart(e) = BootPart(d4) /\ BootPart(d3) = BootPart(d)
  BY <1>2, <1>4, <1>6, <1>8
<1>11. SensorPart(d4) = SensorPart(d)
  BY <1>2, <1>4, <1>6, <1>7
<1>12. /\ stat.uploaded < from => /\ e.newest = from /\ e.minGap = d.minGap
                                  /\ e.maxGap = d.maxGap /\ e.gapsGt = d.gapsGt
       /\ stat.uploaded >= from =>
             /\ gap \in Nat
             /\ e.newest = stat.uploaded
             /\ e.minGap = IF gap > 0 /\ (d.minGap = 0 \/ gap < d.minGap)
                           THEN gap ELSE d.minGap
             /\ e.maxGap = IF d.maxGap >= gap THEN d.maxGap ELSE gap
             /\ \A m \in Threshold :
                   e.gapsGt[m] = IF gap > m * 60 THEN d.gapsGt[m] + 1 ELSE d.gapsGt[m]
  BY <1>3, <1>4, <1>9
<1>13. e.anyErrors <=> d.anyErrors \/ stat.errors > d.thisErrors
  BY <1>6, <1>7, <1>10, Zenon
<1>14. /\ stat.uptime = 0 => BootPart(e) = BootPart(d)
       /\ stat.uptime # 0 => e.prevUptime = stat.uptime
       /\ stat.uptime # 0 /\ stat.uptime < d.prevUptime =>
             /\ e.boots = d.boots + 1
             /\ e.prevErrors = d.prevErrors + worst /\ e.thisErrors = 0
       /\ ~(stat.uptime # 0 /\ stat.uptime < d.prevUptime) =>
             /\ e.boots = d.boots
             /\ e.prevErrors = d.prevErrors /\ e.thisErrors = worst
  BY <1>6, <1>7, <1>10
<1>15. /\ ~stat.has => e.count = d.count /\ e.lo = d.lo /\ e.hi = d.hi
       /\ stat.has => /\ e.count = d.count + 1
                      /\ e.lo = IF d.count = 0 \/ stat.value < d.lo
                                THEN stat.value ELSE d.lo
                      /\ e.hi = IF d.count = 0 \/ stat.value > d.hi
                                THEN stat.value ELSE d.hi
       /\ e.warnings = IF stat.warning THEN d.warnings + 1 ELSE d.warnings
  BY <1>8, <1>11
<1>16. QED
  BY <1>8, <1>9, <1>12, <1>13, <1>14, <1>15

-----------------------------------------------------------------------------
(* One more entry at the end of a log.                                       *)
LEMMA OneMore ==
    ASSUME NEW s \in Seq(SensorData), NEW e \in SensorData, NEW t, t = Append(s, e)
    PROVE  /\ t \in Seq(SensorData) /\ t # <<>>
           /\ Len(s) \in Nat /\ Len(t) = Len(s) + 1
           /\ DOMAIN s = 1 .. Len(s) /\ DOMAIN t = 1 .. Len(s) + 1
           /\ t[Len(s) + 1] = e
           /\ \A i \in 1 .. Len(s) : t[i] = s[i] /\ s[i] \in SensorData
           /\ s = <<>> <=> Len(s) = 0
  OBVIOUS

-----------------------------------------------------------------------------
(* Gaps.  The entries that are in order are those no earlier than all that   *)
(* were checked before, and each has its gap.                                *)
Latest(s, i) == Max({s[j].uploaded : j \in 1 .. i})
GapOf(s, i) == Rounded(s[i].uploaded - Latest(s, i - 1))
InOrder(s) == {i \in 2 .. Len(s) : s[i].uploaded >= Latest(s, i - 1)}
Over(s, m) == {i \in InOrder(s) : GapOf(s, i) > m * 60}
GapsOf(s) == {GapOf(s, i) : i \in InOrder(s)} \ {0}

GapInv ==
    /\ ds.measurements = Len(checked)
    /\ \A i \in DOMAIN checked : checked[i].uploaded <= ds.newest
    /\ checked # <<>> => \E i \in DOMAIN checked : checked[i].uploaded = ds.newest
    /\ \A m \in Threshold : /\ IsFiniteSet(Over(checked, m))
                            /\ ds.gapsGt[m] = Cardinality(Over(checked, m))
    /\ \A g \in GapsOf(checked) : g \in Nat \ {0} /\ ds.minGap <= g /\ g <= ds.maxGap
    /\ GapsOf(checked) = {} => ds.minGap = 0 /\ ds.maxGap = 0
    /\ GapsOf(checked) # {} => {ds.minGap, ds.maxGap} \subseteq GapsOf(checked)

\* The newest entry so far is the one that the next is compared with.
LEMMA NewestIsLatest ==
    ASSUME DataType, GapInv, checked # <<>>
    PROVE  Latest(checked, Len(checked)) = ds.newest
<1>1. /\ Len(checked) \in Nat /\ DOMAIN checked = 1 .. Len(checked)
      /\ \A i \in 1 .. Len(checked) : checked[i] \in SensorData
  BY DEF DataType
<1>2. {checked[j].uploaded : j \in 1 .. Len(checked)} \subseteq Int
  BY <1>1 DEF SensorData
<1>3. /\ ds.newest \in {checked[j].uploaded : j \in 1 .. Len(checked)}
      /\ \A y \in {checked[j].uploaded : j \in 1 .. Len(checked)} : y <= ds.newest
  BY <1>1 DEF GapInv
<1>4. QED
  BY <1>2, <1>3, MaxIs DEF Latest

\* An entry more changes nothing of the gaps before it.
LEMMA GapsOfOneMore ==
    ASSUME NEW s \in Seq(SensorData), NEW e \in SensorData, NEW t, t = Append(s, e)
    PROVE  /\ InOrder(t) = InOrder(s) \cup
                {i \in {Len(s) + 1} : s # <<>> /\ e.uploaded >= Latest(s, Len(s))}
           /\ Len(s) + 1 \notin InOrder(s)
           /\ \A i \in InOrder(s) : GapOf(t, i) = GapOf(s, i)
           /\ GapOf(t, Len(s) + 1) = Rounded(e.uploaded - Latest(s, Len(s)))
<1>1. /\ Len(s) \in Nat /\ Len(t) = Len(s) + 1 /\ t[Len(s) + 1] = e
      /\ \A i \in 1 .. Len(s) : t[i] = s[i]
      /\ s = <<>> <=> Len(s) = 0
  BY OneMore
<1>2. ASSUME NEW i \in 0 .. Len(s)
      PROVE  Latest(t, i) = Latest(s, i)
  <2>1. \A j \in 1 .. i : t[j] = s[j]
    BY <1>1
  <2>2. {t[j].uploaded : j \in 1 .. i} = {s[j].uploaded : j \in 1 .. i}
    BY <2>1
  <2>3. QED
    BY <2>2 DEF Latest
<1>3. \A i \in 2 .. Len(s) : i - 1 \in 0 .. Len(s) /\ t[i] = s[i]
  BY <1>1
<1>4. Len(s) + 1 - 1 = Len(s) /\ Len(s) \in 0 .. Len(s)
  BY <1>1
<1>5. \A i \in InOrder(s) : GapOf(t, i) = GapOf(s, i)
  BY <1>2, <1>3 DEF InOrder, GapOf
<1>6. GapOf(t, Len(s) + 1) = Rounded(e.uploaded - Latest(s, Len(s)))
  BY <1>1, <1>2, <1>4 DEF GapOf
<1>7. Len(s) + 1 \notin InOrder(s)
  BY <1>1 DEF InOrder
<1>8. ASSUME NEW i
      PROVE  i \in InOrder(t) <=>
                \/ i \in InOrder(s)
                \/ i = Len(s) + 1 /\ s # <<>> /\ e.uploaded >= Latest(s, Len(s))
  <2>1. i \in 2 .. Len(t) <=> i \in 2 .. Len(s) \/ (i = Len(s) + 1 /\ s # <<>>)
    BY <1>1
  <2>2. CASE i \in 2 .. Len(s)
    <3>1. i \in InOrder(t) <=> i \in InOrder(s)
      BY <1>2, <1>3, <2>1, <2>2 DEF InOrder
    <3>2. i # Len(s) + 1
      BY <1>1, <2>2
    <3>3. QED
      BY <3>1, <3>2
  <2>3. CASE i = Len(s) + 1
    BY <1>1, <1>2, <1>4, <1>7, <2>1, <2>3 DEF InOrder
  <2>4. QED
    BY <2>1, <2>2, <2>3 DEF InOrder
<1>9. QED
  BY <1>5, <1>6, <1>7, <1>8

LEMMA GapStep ==
    ASSUME DataType, GapInv, NEW sd \in SensorData, checked' = Append(checked, sd),
           ds' = Aggregate(ds, CheckMeasurement(sd))
    PROVE  GapInv'
<1> DEFINE n == Len(checked)
           stat == CheckMeasurement(sd)
<1>1. /\ checked \in Seq(SensorData) /\ ds \in MeasurementDataset
      /\ stat \in MeasurementStat /\ stat.uploaded = sd.uploaded /\ sd.uploaded \in Nat
  BY StatType DEF DataType, CheckMeasurement, SensorData
<1>2. /\ checked' \in Seq(SensorData) /\ checked' # <<>>
      /\ n \in Nat /\ Len(checked') = n + 1
      /\ DOMAIN checked = 1 .. n /\ DOMAIN checked' = 1 .. n + 1
      /\ checked'[n + 1] = sd
      /\ \A i \in 1 .. n : checked'[i] = checked[i] /\ checked[i] \in SensorData
      /\ checked = <<>> <=> n = 0
  BY <1>1, OneMore
<1>3. /\ InOrder(checked') = InOrder(checked) \cup
            {i \in {n + 1} : checked # <<>> /\ sd.uploaded >= Latest(checked, n)}
      /\ n + 1 \notin InOrder(checked)
      /\ \A i \in InOrder(checked) : GapOf(checked', i) = GapOf(checked, i)
      /\ GapOf(checked', n + 1) = Rounded(sd.uploaded - Latest(checked, n))
  <2>1. \A t : t = Append(checked, sd) =>
          /\ InOrder(t) = InOrder(checked) \cup
               {i \in {n + 1} : checked # <<>> /\ sd.uploaded >= Latest(checked, n)}
          /\ n + 1 \notin InOrder(checked)
          /\ \A i \in InOrder(checked) : GapOf(t, i) = GapOf(checked, i)
          /\ GapOf(t, n + 1) = Rounded(sd.uploaded - Latest(checked, n))
    BY <1>1, GapsOfOneMore
  <2>2. QED
    BY <2>1
<1>4. PICK from : from = IF ds.measurements = 0 THEN stat.uploaded ELSE ds.newest
  OBVIOUS
<1>5. PICK gap, worst :
        /\ gap = Rounded(stat.uploaded - from)
        /\ worst = IF ds.thisErrors >= stat.errors THEN ds.thisErrors ELSE stat.errors
  OBVIOUS
<1> HIDE DEF n, stat
<1>6. /\ ds' \in MeasurementDataset
      /\ ds'.measurements = ds.measurements + 1
      /\ stat.uploaded < from =>
            /\ ds'.newest = from /\ ds'.minGap = ds.minGap /\ ds'.maxGap = ds.maxGap
            /\ ds'.gapsGt = ds.gapsGt
      /\ stat.uploaded >= from =>
            /\ gap \in Nat
            /\ ds'.newest = stat.uploaded
            /\ ds'.minGap = IF gap > 0 /\ (ds.minGap = 0 \/ gap < ds.minGap)
                            THEN gap ELSE ds.minGap
            /\ ds'.maxGap = IF ds.maxGap >= gap THEN ds.maxGap ELSE gap
            /\ \A m \in Threshold :
                  ds'.gapsGt[m] = IF gap > m * 60 THEN ds.gapsGt[m] + 1 ELSE ds.gapsGt[m]
  BY <1>1, <1>4, <1>5, AggregateEffect DEF stat
<1>7. /\ ds.measurements = n
      /\ ds.newest \in Nat /\ ds.minGap \in Nat /\ ds.maxGap \in Nat
      /\ ds.gapsGt \in [Threshold -> Nat] /\ ds'.gapsGt \in [Threshold -> Nat]
  BY <1>1, <1>6 DEF GapInv, MeasurementDataset, n
<1>8. from \in Nat /\ (n = 0 => from = sd.uploaded) /\ (n # 0 => from = ds.newest)
  BY <1>1, <1>4, <1>7
<1>9. checked # <<>> => Latest(checked, n) = from
  BY <1>2, <1>8, NewestIsLatest DEF n
<1>10. ds'.measurements = Len(checked')
  BY <1>2, <1>6, <1>7
<1>11. /\ \A i \in DOMAIN checked' : checked'[i].uploaded <= ds'.newest
       /\ \E i \in DOMAIN checked' : checked'[i].uploaded = ds'.newest
  <2>1. from <= ds'.newest /\ sd.uploaded <= ds'.newest
    BY <1>1, <1>6, <1>8
  <2>2. \A i \in 1 .. n : checked[i].uploaded <= from /\ checked[i].uploaded \in Nat
    <3>1. ASSUME NEW i \in 1 .. n
          PROVE  checked[i].uploaded <= from /\ checked[i].uploaded \in Nat
      <4>1. from = ds.newest
        BY <1>2, <1>8
      <4>2. i \in DOMAIN checked /\ checked[i] \in SensorData
        BY <1>2
      <4>3. QED
        BY <4>1, <4>2 DEF GapInv, SensorData
    <3>2. QED
      BY <3>1
  <2>3. \A i \in 1 .. n + 1 : i = n + 1 \/ i \in 1 .. n
    BY <1>2
  <2>4. ds'.newest \in Nat
    BY <1>6 DEF MeasurementDataset
  <2>5. \A i \in DOMAIN checked' : checked'[i].uploaded <= ds'.newest
    BY <1>2, <1>8, <2>1, <2>2, <2>3, <2>4
  <2>6. CASE stat.uploaded >= from
    BY <1>1, <1>2, <1>6, <2>5, <2>6
  <2>7. CASE ~(stat.uploaded >= from)
    <3>1. n # 0 /\ ds'.newest = ds.newest
      BY <1>1, <1>6, <1>8, <2>7
    <3>2. PICK i \in 1 .. n : checked[i].uploaded = ds.newest
      BY <1>2, <3>1 DEF GapInv
    <3>3. i \in DOMAIN checked' /\ checked'[i].uploaded = ds'.newest
      BY <1>2, <3>1, <3>2
    <3>4. QED
      BY <2>5, <3>3
  <2>8. QED
    BY <2>5, <2>6, <2>7
\* Either the entry is in order and adds its gap, or there is nothing to add.
<1>12. CASE checked # <<>> /\ stat.uploaded >= from
  <2>1. InOrder(checked)' = InOrder(checked) \cup {n + 1} /\ GapOf(checked', n + 1) = gap
    BY <1>1, <1>3, <1>5, <1>9, <1>12
  <2>2. gap \in Nat
    BY <1>6, <1>12
  <2>3. GapsOf(checked)' = (GapsOf(checked) \cup {gap}) \ {0}
    BY <1>3, <2>1 DEF GapsOf
  <2>4. ASSUME NEW m \in Threshold
        PROVE  /\ IsFiniteSet(Over(checked', m))
               /\ ds'.gapsGt[m] = Cardinality(Over(checked', m))
    <3>1. Over(checked', m) = Over(checked, m) \cup {i \in {n + 1} : gap > m * 60}
      BY <1>3, <2>1 DEF Over
    <3>2. n + 1 \notin Over(checked, m)
      BY <1>3 DEF Over
    <3>3. IsFiniteSet(Over(checked, m)) /\ ds.gapsGt[m] = Cardinality(Over(checked, m))
      BY DEF GapInv
    <3>4. CASE gap > m * 60
      <4>1. Over(checked', m) = Over(checked, m) \cup {n + 1}
        BY <3>1, <3>4
      <4>2. /\ IsFiniteSet(Over(checked', m))
            /\ Cardinality(Over(checked', m)) = Cardinality(Over(checked, m)) + 1
        BY <3>2, <3>3, <4>1, FS_AddElement
      <4>3. QED
        BY <1>6, <1>12, <3>3, <3>4, <4>2
    <3>5. CASE ~(gap > m * 60)
      <4>1. Over(checked', m) = Over(checked, m)
        BY <3>1, <3>5
      <4>2. QED
        BY <1>6, <1>12, <3>3, <3>5, <4>1
    <3>6. QED
      BY <3>4, <3>5
  <2>5. /\ \A g \in GapsOf(checked) : g \in Nat \ {0} /\ ds.minGap <= g /\ g <= ds.maxGap
        /\ GapsOf(checked) = {} => ds.minGap = 0 /\ ds.maxGap = 0
        /\ GapsOf(checked) # {} => {ds.minGap, ds.maxGap} \subseteq GapsOf(checked)
    BY DEF GapInv
  <2>6. /\ ds'.minGap = IF gap > 0 /\ (ds.minGap = 0 \/ gap < ds.minGap)
                        THEN gap ELSE ds.minGap
        /\ ds'.maxGap = IF ds.maxGap >= gap THEN ds.maxGap ELSE gap
    BY <1>6, <1>12
  <2>7. CASE gap = 0
    <3>1. GapsOf(checked)' = GapsOf(checked)
      BY <2>3, <2>5, <2>7
    <3>2. ds'.minGap = ds.minGap /\ ds'.maxGap = ds.maxGap
      BY <1>7, <2>6, <2>7
    <3>3. QED
      BY <1>10, <1>11, <2>4, <2>5, <3>1, <3>2 DEF GapInv
  <2>8. CASE gap # 0
    <3>1. GapsOf(checked)' = GapsOf(checked) \cup {gap} /\ gap > 0
      BY <2>2, <2>3, <2>5, <2>8
    <3>2. \A g \in GapsOf(checked)' :
            g \in Nat \ {0} /\ ds'.minGap <= g /\ g <= ds'.maxGap
      BY <1>7, <2>2, <2>5, <2>6, <3>1
    <3>3. {ds'.minGap, ds'.maxGap} \subseteq GapsOf(checked)'
      BY <1>7, <2>2, <2>5, <2>6, <3>1
    <3>4. QED
      BY <1>10, <1>11, <2>4, <3>1, <3>2, <3>3 DEF GapInv
  <2>9. QED
    BY <2>7, <2>8
<1>13. CASE ~(checked # <<>> /\ stat.uploaded >= from)
  <2>1. InOrder(checked)' = InOrder(checked)
    BY <1>1, <1>3, <1>9, <1>13
  <2>2. GapsOf(checked)' = GapsOf(checked) /\ \A m : Over(checked', m) = Over(checked, m)
    BY <1>3, <2>1 DEF GapsOf, Over
  <2>3. /\ ds'.minGap = ds.minGap /\ ds'.maxGap = ds.maxGap
        /\ \A m \in Threshold : ds'.gapsGt[m] = ds.gapsGt[m]
    <3>1. CASE stat.uploaded < from
      BY <1>6, <3>1
    <3>2. CASE ~(stat.uploaded < from)
      <4>1. n = 0 /\ stat.uploaded = from /\ stat.uploaded - from = 0
        BY <1>1, <1>2, <1>8, <1>13, <3>2
      <4>2. gap = 0
        BY <1>5, <4>1, RoundedType
      <4>3. \A m \in Threshold : ~(gap > m * 60)
        BY <4>2, DatasetAssumption
      <4>4. stat.uploaded >= from
        BY <1>1, <1>8, <4>1
      <4>5. QED
        BY <1>6, <1>7, <4>2, <4>3, <4>4
    <3>3. QED
      BY <3>1, <3>2
  <2>4. QED
    BY <1>10, <1>11, <2>2, <2>3 DEF GapInv
<1>14. QED
  BY <1>12, <1>13

LEMMA GapsAreExact ==
    ASSUME DataType, GapInv
    PROVE  GapsExact
<1>1. checked # <<>> => ds.newest = Last(Len(checked))
  BY NewestIsLatest DEF Latest, Last
<1>2. GapsOf(checked) \subseteq Int
  BY DEF GapInv
<1>3. GapsOf(checked) # {} =>
        ds.minGap = Min(GapsOf(checked)) /\ ds.maxGap = Max(GapsOf(checked))
  BY <1>2, MinIs, MaxIs DEF GapInv
<1>4. /\ ds.minGap = IF GapsOf(checked) = {} THEN 0 ELSE Min(GapsOf(checked))
      /\ ds.maxGap = IF GapsOf(checked) = {} THEN 0 ELSE Max(GapsOf(checked))
  BY <1>3 DEF GapInv
<1>5. \A m \in Threshold : ds.gapsGt[m] = Cardinality(Over(checked, m))
  BY DEF GapInv
<1>6. QED
  BY <1>1, <1>4, <1>5 DEF GapsExact, GapsOf, Over, InOrder, GapOf, Latest, Last

-----------------------------------------------------------------------------
(* Ranges.  A group of sensors that is there counts, with zero for a value   *)
(* that it does not have.                                                    *)
Reports(s) == {i \in DOMAIN s : s[i].report # Absent}
Shown(s) == {CheckMeasurement(s[i]).value : i \in Reports(s)}
Warned(s) == \E i \in DOMAIN s : CheckMeasurement(s[i]).warning

RangeInv ==
    /\ ds.count = 0 => Shown(checked) = {}
    /\ ds.count # 0 => {ds.lo, ds.hi} \subseteq Shown(checked)
    /\ \A v \in Shown(checked) : v \in Int /\ ds.lo <= v /\ v <= ds.hi
    /\ ds.warnings > 0 <=> Warned(checked)

\* What one more entry shows.
LEMMA ShownOfOneMore ==
    ASSUME NEW s \in Seq(SensorData), NEW e \in SensorData, NEW t, t = Append(s, e),
           NEW stat, stat = CheckMeasurement(e)
    PROVE  /\ Shown(t) = Shown(s) \cup {v \in {stat.value} : stat.has}
           /\ Warned(t) <=> Warned(s) \/ stat.warning
<1>1. PICK n : n = Len(s)
  OBVIOUS
<1>2. /\ n \in Nat /\ DOMAIN s = 1 .. n /\ DOMAIN t = 1 .. n + 1 /\ t[n + 1] = e
      /\ \A i \in 1 .. n : t[i] = s[i]
  BY <1>1, OneMore
<1>3. /\ \A i : i \in DOMAIN t <=> i \in DOMAIN s \/ i = n + 1
      /\ \A i \in DOMAIN s : t[i] = s[i]
      /\ stat.has = (e.report # Absent)
  BY <1>2 DEF CheckMeasurement
<1>4. ASSUME NEW v
      PROVE  v \in Shown(t) <=> v \in Shown(s) \/ (stat.has /\ v = stat.value)
  <2>1. v \in Shown(t) <=> \E i \in DOMAIN t : t[i].report # Absent
                                               /\ v = CheckMeasurement(t[i]).value
    BY DEF Shown, Reports
  <2>2. v \in Shown(s) <=> \E i \in DOMAIN s : s[i].report # Absent
                                               /\ v = CheckMeasurement(s[i]).value
    BY DEF Shown, Reports
  <2>3. (\E i \in DOMAIN t : t[i].report # Absent /\ v = CheckMeasurement(t[i]).value)
            <=> \/ \E i \in DOMAIN s : s[i].report # Absent
                                       /\ v = CheckMeasurement(s[i]).value
                \/ t[n + 1].report # Absent /\ v = CheckMeasurement(t[n + 1]).value
    BY <1>3
  <2>4. QED
    BY <1>2, <1>3, <2>1, <2>2, <2>3
<1>5. Shown(t) = Shown(s) \cup {v \in {stat.value} : stat.has}
  BY <1>4
<1>6. Warned(t) <=> Warned(s) \/ stat.warning
  <2>1. Warned(t) <=> Warned(s) \/ CheckMeasurement(t[n + 1]).warning
    BY <1>3, Zenon DEF Warned
  <2>2. QED
    BY <1>2, <2>1, Zenon
<1>7. QED
  BY <1>5, <1>6

LEMMA RangeStep ==
    ASSUME DataType, RangeInv, NEW sd \in SensorData, checked' = Append(checked, sd),
           ds' = Aggregate(ds, CheckMeasurement(sd))
    PROVE  RangeInv'
<1> DEFINE stat == CheckMeasurement(sd)
<1>1. /\ checked \in Seq(SensorData) /\ ds \in MeasurementDataset
      /\ stat \in MeasurementStat /\ stat.has = (sd.report # Absent)
  BY StatType DEF DataType, CheckMeasurement
<1>3. /\ Shown(checked') = Shown(checked) \cup {v \in {stat.value} : stat.has}
      /\ Warned(checked') <=> Warned(checked) \/ stat.warning
  <2>1. \A t : t = Append(checked, sd) =>
          /\ Shown(t) = Shown(checked) \cup {v \in {stat.value} : stat.has}
          /\ Warned(t) <=> Warned(checked) \/ stat.warning
    BY <1>1, ShownOfOneMore
  <2>2. QED
    BY <2>1
<1>5. PICK from : from = IF ds.measurements = 0 THEN stat.uploaded ELSE ds.newest
  OBVIOUS
<1>6. PICK gap, worst :
        /\ gap = Rounded(stat.uploaded - from)
        /\ worst = IF ds.thisErrors >= stat.errors THEN ds.thisErrors ELSE stat.errors
  OBVIOUS
<1> HIDE DEF stat
<1>7. /\ ds' \in MeasurementDataset
      /\ ~stat.has => ds'.count = ds.count /\ ds'.lo = ds.lo /\ ds'.hi = ds.hi
      /\ stat.has => /\ ds'.count = ds.count + 1
                     /\ ds'.lo = IF ds.count = 0 \/ stat.value < ds.lo
                                 THEN stat.value ELSE ds.lo
                     /\ ds'.hi = IF ds.count = 0 \/ stat.value > ds.hi
                                 THEN stat.value ELSE ds.hi
      /\ ds'.warnings = IF stat.warning THEN ds.warnings + 1 ELSE ds.warnings
  BY <1>1, <1>5, <1>6, AggregateEffect DEF stat
<1>8. /\ ds.count \in Nat /\ ds.lo \in Int /\ ds.hi \in Int /\ ds.warnings \in Nat
      /\ stat.value \in Int
  BY <1>1 DEF MeasurementDataset, MeasurementStat
<1>9. ds'.warnings > 0 <=> Warned(checked')
  <2>1. ds'.warnings > 0 <=> ds.warnings > 0 \/ stat.warning
    <3>1. CASE stat.warning
      BY <1>7, <1>8, <3>1
    <3>2. CASE ~stat.warning
      BY <1>7, <3>2
    <3>3. QED
      BY <3>1, <3>2
  <2>2. QED
    BY <1>3, <2>1, Zenon DEF RangeInv
<1>10. CASE stat.has
  <2>1. Shown(checked') = Shown(checked) \cup {stat.value}
    BY <1>3, <1>10
  <2>2. ds'.count # 0 /\ {ds'.lo, ds'.hi} \subseteq Shown(checked')
    BY <1>7, <1>8, <1>10, <2>1 DEF RangeInv
  <2>3. \A v \in Shown(checked') : v \in Int /\ ds'.lo <= v /\ v <= ds'.hi
    BY <1>7, <1>8, <1>10, <2>1 DEF RangeInv
  <2>4. QED
    BY <1>9, <2>2, <2>3 DEF RangeInv
<1>11. CASE ~stat.has
  <2>1. Shown(checked') = Shown(checked)
    BY <1>3, <1>11
  <2>2. QED
    BY <1>7, <1>9, <1>11, <2>1 DEF RangeInv
<1>12. QED
  BY <1>10, <1>11

LEMMA RangesAreExact ==
    ASSUME DataType, RangeInv
    PROVE  RangesExact
<1> DEFINE values == {checked[i].report.value : i \in {j \in DOMAIN checked : Measured(checked[j])}}
           unmeasured == \E i \in DOMAIN checked :
                            checked[i].report # Absent /\ ~Measured(checked[i])
           shown == IF unmeasured THEN values \cup {0} ELSE values
<1>1. \A i \in DOMAIN checked :
        CheckMeasurement(checked[i]).value =
            IF Measured(checked[i]) THEN checked[i].report.value ELSE 0
  BY DEF CheckMeasurement
<1>2. \A i \in DOMAIN checked : Measured(checked[i]) => i \in Reports(checked)
  BY DEF Measured, Reports
<1>3. shown = Shown(checked)
  <2>1. \A v \in Shown(checked) : v \in shown
    BY <1>1 DEF Shown, Reports
  <2>2. \A v \in values : v \in Shown(checked)
    BY <1>1, <1>2 DEF Shown
  <2>3. unmeasured => 0 \in Shown(checked)
    BY <1>1 DEF Shown, Reports
  <2>4. \A v \in shown : v \in values \/ (unmeasured /\ v = 0)
    OBVIOUS
  <2> HIDE DEF shown, values, unmeasured
  <2>5. \A v \in shown : v \in Shown(checked)
    BY <2>2, <2>3, <2>4
  <2>6. QED
    BY <2>1, <2>5
<1>4. Warned(checked) <=> \E v \in values : v \notin Normal
  BY DEF Warned, CheckMeasurement
<1> HIDE DEF shown, values, unmeasured
<1>5. ASSUME shown # {}
      PROVE  ds.lo = Min(shown) /\ ds.hi = Max(shown)
  <2>1. {ds.lo, ds.hi} \subseteq Shown(checked) /\ Shown(checked) \subseteq Int
    BY <1>3, <1>5 DEF RangeInv
  <2>2. \A v \in Shown(checked) : ds.lo <= v /\ v <= ds.hi
    BY DEF RangeInv
  <2>3. QED
    BY <1>3, <2>1, <2>2, MinIs, MaxIs
<1>6. ds.warnings > 0 <=> \E v \in values : v \notin Normal
  BY <1>4, Zenon DEF RangeInv
<1>7. QED
  BY <1>5, <1>6, Zenon DEF RangesExact, shown, values, unmeasured

-----------------------------------------------------------------------------
(* Errors.  Those of the sessions before and the worst of this one together  *)
(* are no less than what any entry reports.                                  *)
Erring(s) == \E i \in DOMAIN s : s[i].errors > 0

ErrorInv ==
    /\ \A i \in DOMAIN checked : checked[i].errors <= ds.prevErrors + ds.thisErrors
    /\ ds.boots >= 1
    /\ ds.boots = 1 => /\ ds.prevErrors = 0
                       /\ ds.thisErrors # 0 =>
                            \E i \in DOMAIN checked : checked[i].errors = ds.thisErrors
    /\ ds.thisErrors > 0 => ds.anyErrors
    /\ ds.anyErrors <=> Erring(checked)
    /\ checked # <<>> => \E i \in DOMAIN checked : \A j \in DOMAIN checked :
                            checked[j].errors <= checked[i].errors

LEMMA ErrorStep ==
    ASSUME DataType, ErrorInv, NEW sd \in SensorData, checked' = Append(checked, sd),
           ds' = Aggregate(ds, CheckMeasurement(sd))
    PROVE  ErrorInv'
<1> DEFINE n == Len(checked)
           stat == CheckMeasurement(sd)
<1>1. /\ checked \in Seq(SensorData) /\ ds \in MeasurementDataset
      /\ stat \in MeasurementStat /\ stat.errors = sd.errors /\ sd.errors \in Nat
  BY StatType DEF DataType, CheckMeasurement, SensorData
<1>2. /\ n \in Nat
      /\ DOMAIN checked = 1 .. n /\ DOMAIN checked' = 1 .. n + 1
      /\ checked'[n + 1] = sd
      /\ \A i \in 1 .. n : checked'[i] = checked[i] /\ checked[i] \in SensorData
      /\ checked = <<>> <=> n = 0
  BY <1>1, OneMore
<1>3. /\ \A i : i \in 1 .. n + 1 <=> i \in 1 .. n \/ i = n + 1
      /\ \A i \in 1 .. n : checked[i].errors \in Nat
  BY <1>2 DEF SensorData
<1>5. PICK from : from = IF ds.measurements = 0 THEN stat.uploaded ELSE ds.newest
  OBVIOUS
<1>6. PICK gap, worst :
        /\ gap = Rounded(stat.uploaded - from)
        /\ worst = IF ds.thisErrors >= stat.errors THEN ds.thisErrors ELSE stat.errors
  OBVIOUS
<1> DEFINE booted == stat.uptime # 0 /\ stat.uptime < ds.prevUptime
<1> HIDE DEF n, stat
<1>7. /\ ds' \in MeasurementDataset
      /\ ds'.anyErrors <=> ds.anyErrors \/ stat.errors > ds.thisErrors
      /\ booted => /\ ds'.boots = ds.boots + 1
                   /\ ds'.prevErrors = ds.prevErrors + worst /\ ds'.thisErrors = 0
      /\ ~booted => /\ ds'.boots = ds.boots
                    /\ ds'.prevErrors = ds.prevErrors /\ ds'.thisErrors = worst
  BY <1>1, <1>5, <1>6, AggregateEffect DEF stat
<1> HIDE DEF booted
<1>8. /\ ds.thisErrors \in Nat /\ ds.prevErrors \in Nat /\ ds.boots \in Nat
      /\ worst \in Nat /\ worst >= sd.errors /\ worst >= ds.thisErrors
      /\ worst = ds.thisErrors \/ worst = sd.errors
  <2>1. ds.thisErrors \in Nat /\ ds.prevErrors \in Nat /\ ds.boots \in Nat
    BY <1>1 DEF MeasurementDataset
  <2>2. worst = IF ds.thisErrors >= sd.errors THEN ds.thisErrors ELSE sd.errors
    BY <1>1, <1>6
  <2>3. QED
    BY <1>1, <2>1, <2>2
<1>9. \A i \in DOMAIN checked' : checked'[i].errors <= ds'.prevErrors + ds'.thisErrors
  <2>1. ds'.prevErrors + ds'.thisErrors = ds.prevErrors + worst
    BY <1>7, <1>8
  <2>2. \A i \in 1 .. n : checked[i].errors <= ds.prevErrors + ds.thisErrors
    BY <1>2 DEF ErrorInv
  <2>3. \A i \in 1 .. n : checked[i].errors <= ds.prevErrors + worst
    BY <1>3, <1>8, <2>2
  <2>4. sd.errors <= ds.prevErrors + worst
    BY <1>1, <1>8
  <2>5. QED
    BY <1>2, <1>3, <2>1, <2>3, <2>4
<1>10. /\ ds'.boots >= 1
       /\ ds'.boots = 1 => /\ ds'.prevErrors = 0
                           /\ ds'.thisErrors # 0 =>
                                \E i \in DOMAIN checked' : checked'[i].errors = ds'.thisErrors
  <2>1. ds.boots >= 1
    BY DEF ErrorInv
  <2>2. CASE booted
    BY <1>7, <1>8, <2>1, <2>2
  <2>3. CASE ~booted
    <3>1. ds.boots = 1 => /\ ds.prevErrors = 0
                          /\ ds.thisErrors # 0 =>
                                \E i \in 1 .. n : checked[i].errors = ds.thisErrors
      BY <1>2 DEF ErrorInv
    <3>2. CASE worst = sd.errors
      BY <1>2, <1>3, <1>7, <2>1, <2>3, <3>1, <3>2
    <3>3. CASE worst = ds.thisErrors
      BY <1>2, <1>3, <1>7, <2>1, <2>3, <3>1, <3>3
    <3>4. QED
      BY <1>8, <3>2, <3>3
  <2>4. QED
    BY <2>2, <2>3
<1>11. ds'.anyErrors <=> Erring(checked')
  <2>1. Erring(checked') <=> Erring(checked) \/ sd.errors > 0
    BY <1>2, <1>3 DEF Erring
  <2>2. sd.errors > ds.thisErrors => sd.errors > 0
    BY <1>1, <1>8
  <2>3. sd.errors > 0 /\ ~(sd.errors > ds.thisErrors) => ds.thisErrors > 0
    BY <1>1, <1>8
  <2>4. ds.anyErrors <=> Erring(checked)
    BY DEF ErrorInv
  <2>5. ds.thisErrors > 0 => ds.anyErrors
    BY DEF ErrorInv
  <2>6. ds'.anyErrors <=> ds.anyErrors \/ sd.errors > ds.thisErrors
    BY <1>1, <1>7
  <2>7. QED
    BY <2>1, <2>2, <2>3, <2>4, <2>5, <2>6, Zenon
<1>12. ds'.thisErrors > 0 => ds'.anyErrors
  <2>1. ds'.thisErrors > 0 => ds.thisErrors > 0 \/ sd.errors > ds.thisErrors
    BY <1>1, <1>7, <1>8
  <2>2. ds.thisErrors > 0 => ds.anyErrors
    BY DEF ErrorInv
  <2>3. QED
    BY <1>1, <1>7, <2>1, <2>2, Zenon
<1>13. \E i \in DOMAIN checked' : \A j \in DOMAIN checked' :
          checked'[j].errors <= checked'[i].errors
  <2>1. CASE n = 0
    BY <1>1, <1>2, <1>3, <2>1
  <2>2. CASE n # 0
    <3>1. PICK i \in 1 .. n : \A j \in 1 .. n : checked[j].errors <= checked[i].errors
      BY <1>2, <2>2 DEF ErrorInv
    <3>2. CASE sd.errors <= checked[i].errors
      <4>1. \A j \in 1 .. n + 1 : checked'[j].errors <= checked'[i].errors
        BY <1>2, <1>3, <3>1, <3>2
      <4>2. QED
        BY <1>2, <1>3, <4>1
    <3>3. CASE ~(sd.errors <= checked[i].errors)
      <4>1. \A j \in 1 .. n + 1 : checked'[j].errors <= checked'[n + 1].errors
        BY <1>1, <1>2, <1>3, <3>1, <3>3
      <4>2. QED
        BY <1>2, <1>3, <4>1
    <3>4. QED
      BY <3>2, <3>3
  <2>3. QED
    BY <2>1, <2>2
<1>14. QED
  BY <1>9, <1>10, <1>11, <1>12, <1>13 DEF ErrorInv

LEMMA ErrorsAreAccounted ==
    ASSUME DataType, ErrorInv
    PROVE  ErrorsAccounted
<1> DEFINE worst == IF checked = <<>> THEN 0
                    ELSE Max({checked[i].errors : i \in DOMAIN checked})
<1>1. /\ ds \in MeasurementDataset /\ ds.prevErrors \in Nat /\ ds.thisErrors \in Nat
      /\ \A i \in DOMAIN checked : checked[i].errors \in Nat
      /\ checked = <<>> <=> DOMAIN checked = {}
  <2>1. /\ \A i \in DOMAIN checked : checked[i] \in SensorData
        /\ checked = <<>> <=> DOMAIN checked = {}
    BY DEF DataType
  <2>2. QED
    BY <2>1 DEF DataType, MeasurementDataset, SensorData
<1>2. Completed.prevErrors = ds.prevErrors + ds.thisErrors
  BY <1>1 DEF Completed, AggregateErrors, MeasurementDataset
<1>3. checked # <<>> => \E i \in DOMAIN checked :
        worst = checked[i].errors /\ \A j \in DOMAIN checked : checked[j].errors <= worst
  <2>1. ASSUME checked # <<>>, NEW i \in DOMAIN checked,
               \A j \in DOMAIN checked : checked[j].errors <= checked[i].errors
        PROVE  worst = checked[i].errors
    <3>1. /\ {checked[j].errors : j \in DOMAIN checked} \subseteq Int
          /\ checked[i].errors \in {checked[j].errors : j \in DOMAIN checked}
          /\ \A y \in {checked[j].errors : j \in DOMAIN checked} : y <= checked[i].errors
      BY <1>1, <2>1
    <3>2. QED
      BY <2>1, <3>1, MaxIs
  <2> HIDE DEF worst
  <2>2. QED
    BY <2>1 DEF ErrorInv
<1>4. checked = <<>> => worst = 0
  OBVIOUS
<1> HIDE DEF worst
<1>5. worst \in Nat /\ worst <= ds.prevErrors + ds.thisErrors
  BY <1>1, <1>3, <1>4 DEF ErrorInv
<1>6. ds.boots = 1 => worst = ds.prevErrors + ds.thisErrors
  <2>1. ASSUME ds.boots = 1, ds.thisErrors # 0
        PROVE  worst >= ds.thisErrors
    <3>1. PICK i \in DOMAIN checked : checked[i].errors = ds.thisErrors
      BY <2>1 DEF ErrorInv
    <3>2. QED
      BY <1>1, <1>3, <3>1
  <2>2. QED
    BY <1>1, <1>5, <2>1 DEF ErrorInv
<1>7. Erring(checked) <=> worst > 0
  <2>1. CASE checked = <<>>
    BY <1>1, <1>4, <2>1 DEF Erring
  <2>2. CASE checked # <<>>
    BY <1>1, <1>3, <1>5, <2>2 DEF Erring
  <2>3. QED
    BY <2>1, <2>2
<1>8. ds.anyErrors <=> worst > 0
  BY <1>7, Zenon DEF ErrorInv
<1>9. Completed.prevErrors >= worst /\ (ds.boots = 1 => Completed.prevErrors = worst)
  BY <1>1, <1>2, <1>5, <1>6
<1>10. QED
  BY <1>8, <1>9, Zenon DEF ErrorsAccounted, worst

-----------------------------------------------------------------------------
(* Sessions.  The device numbers its measurements, and later ones are of a   *)
(* later session or of a longer uptime, whether they are in the log or on    *)
(* their way.                                                                *)
Sent == flying \cup {checked[i] : i \in DOMAIN checked}
InTurn(s) == \A i, j \in DOMAIN s : i < j => s[i].n < s[j].n

BootInv ==
    /\ \A a \in Sent :
          /\ a.n <= Len(checked) + Cardinality(flying)
          /\ a.boot <= device.boot
          /\ a.boot = device.boot => a.uptime <= device.uptime \div 60
    /\ \A a, b \in Sent : a.n < b.n =>
          a.boot < b.boot \/ (a.boot = b.boot /\ a.uptime <= b.uptime)
    /\ InTurn(checked) =>
          \/ ds.prevUptime = 0 /\ ds.boots = 1
          \/ \E i \in DOMAIN checked :
                checked[i].uptime = ds.prevUptime /\ ds.boots <= checked[i].boot

\* Minutes grow with the seconds.
LEMMA MinutesGrow ==
    ASSUME NEW a \in Nat, NEW b \in Nat, a <= b
    PROVE  a \div 60 \in Nat /\ b \div 60 \in Nat /\ a \div 60 <= b \div 60
  OBVIOUS

LEMMA SentType ==
    ASSUME DataType
    PROVE  /\ Sent \subseteq SensorData
           /\ Len(checked) \in Nat /\ Cardinality(flying) \in Nat
<1>1. \A i \in DOMAIN checked : checked[i] \in SensorData
  BY DEF DataType
<1>2. QED
  BY <1>1, FS_CardinalityType DEF DataType, Sent

LEMMA UploadStep ==
    ASSUME DataType, BootInv, NEW gap \in Gap, NEW boots \in BOOLEAN, NEW fails \in BOOLEAN,
           NEW report \in Report, Upload(gap, boots, fails, report)
    PROVE  DataType' /\ BootInv'
<1>1. /\ gap \in Nat /\ device.boot \in 1 .. MaxBoots /\ device.uptime \in Nat
      /\ device.errors \in Nat /\ now \in Nat /\ Window \in Nat /\ MaxBoots \in Nat
      /\ boots => device.boot < MaxBoots
  BY DatasetAssumption DEF DataType, Upload
<1>2. Len(checked) \in Nat /\ Cardinality(flying) \in Nat /\ Sent \subseteq SensorData
  BY SentType
<1>3. PICK boot \in 1 .. MaxBoots, uptime \in Nat, errors \in Nat :
        /\ device' = [boot |-> boot, uptime |-> uptime, errors |-> errors]
        /\ boots => boot = device.boot + 1
        /\ ~boots => boot = device.boot /\ uptime = device.uptime + gap
  <2>1. (IF boots THEN device.boot + 1 ELSE device.boot) \in 1 .. MaxBoots
    BY <1>1
  <2>2. (IF boots THEN gap ELSE device.uptime + gap) \in Nat
    BY <1>1
  <2>3. (IF boots THEN 0 ELSE device.errors) + (IF fails THEN 1 ELSE 0) \in Nat
    BY <1>1
  <2>4. QED
    BY <2>1, <2>2, <2>3 DEF Upload
<1>4. PICK sd : sd = [n |-> Len(checked) + Cardinality(flying) + 1, boot |-> device'.boot,
                      uploaded |-> now', uptime |-> device'.uptime \div 60,
                      errors |-> device'.errors, report |-> report]
  OBVIOUS
<1>5. /\ flying' = flying \cup {sd} /\ checked' = checked /\ ds' = ds /\ now' = now + gap
      /\ Cardinality(flying) < Window
  BY <1>4 DEF Upload
<1>6. now' \in Nat /\ uptime \div 60 \in Nat /\ Len(checked) + Cardinality(flying) + 1 \in Nat
  BY <1>1, <1>2, <1>5, MinutesGrow
<1>7. /\ sd \in SensorData
      /\ sd.n = Len(checked) + Cardinality(flying) + 1
      /\ sd.boot = boot /\ sd.uptime = uptime \div 60
  BY <1>3, <1>4, <1>6 DEF SensorData
<1>8. \A a \in Sent : a.n <= Len(checked) + Cardinality(flying) /\ a.n \in Nat
  BY <1>2 DEF BootInv, SensorData
<1>9. sd \notin flying
  BY <1>2, <1>7, <1>8 DEF Sent
<1>10. IsFiniteSet(flying') /\ Cardinality(flying') = Cardinality(flying) + 1
  BY <1>5, <1>9, FS_AddElement DEF DataType
<1>11. DataType'
  <2>1. device' \in [boot : 1 .. MaxBoots, uptime : Nat, errors : Nat]
    BY <1>3
  <2>2. flying' \subseteq SensorData /\ Cardinality(flying') <= Window
    BY <1>1, <1>2, <1>5, <1>7, <1>10 DEF DataType
  <2>3. QED
    BY <1>5, <1>6, <1>10, <2>1, <2>2 DEF DataType
<1>12. Sent' = Sent \cup {sd}
  BY <1>5 DEF Sent
<1>13. device'.boot = boot /\ device'.uptime = uptime
  BY <1>3
<1>14. ASSUME NEW a \in Sent
       PROVE  /\ a.n \in Nat /\ a.boot \in Nat /\ a.uptime \in Nat
              /\ a.n < sd.n
              /\ a.boot < boot \/ (a.boot = boot /\ a.uptime <= uptime \div 60)
  <2>1. a.n \in Nat /\ a.boot \in Nat /\ a.uptime \in Nat
    BY <1>2 DEF SensorData
  <2>2. a.n < sd.n
    BY <1>2, <1>7, <1>8, <2>1
  <2>3. /\ a.boot <= device.boot
        /\ a.boot = device.boot => a.uptime <= device.uptime \div 60
    BY DEF BootInv
  <2>4. CASE boots
    BY <1>1, <1>3, <2>1, <2>2, <2>3, <2>4
  <2>5. CASE ~boots
    <3>1. device.uptime \div 60 \in Nat /\ device.uptime \div 60 <= uptime \div 60
      BY <1>1, <1>3, <2>5, MinutesGrow
    <3>2. boot = device.boot
      BY <1>3, <2>5
    <3>3. PICK x \in Nat : x = device.uptime \div 60
      BY <3>1
    <3>4. PICK y \in Nat : y = uptime \div 60
      BY <1>6
    <3>5. x <= y
      BY <3>1, <3>3, <3>4
    <3>6. CASE a.boot = device.boot
      <4>1. a.uptime <= x
        BY <2>3, <3>3, <3>6
      <4>2. a.uptime <= y
        BY <2>1, <3>5, <4>1
      <4>3. QED
        BY <2>1, <2>2, <3>2, <3>4, <3>6, <4>2
    <3>7. CASE a.boot # device.boot
      <4>1. a.boot < boot
        BY <1>1, <2>1, <2>3, <3>2, <3>7
      <4>2. QED
        BY <2>1, <2>2, <4>1
    <3>8. QED
      BY <3>6, <3>7
  <2>6. QED
    BY <2>4, <2>5
<1>15. \A a \in Sent' :
          /\ a.n <= Len(checked') + Cardinality(flying')
          /\ a.boot <= device'.boot
          /\ a.boot = device'.boot => a.uptime <= device'.uptime \div 60
  <2>1. sd.n <= Len(checked') + Cardinality(flying')
    BY <1>2, <1>5, <1>7, <1>10
  <2>2. \A a \in Sent : /\ a.n <= Len(checked') + Cardinality(flying')
                        /\ a.boot <= boot
                        /\ a.boot = boot => a.uptime <= uptime \div 60
    BY <1>2, <1>5, <1>10, <1>7, <1>14
  <2>3. QED
    BY <1>6, <1>7, <1>12, <1>13, <2>1, <2>2
<1>16. \A a, b \in Sent' : a.n < b.n =>
          a.boot < b.boot \/ (a.boot = b.boot /\ a.uptime <= b.uptime)
  <2>1. \A a, b \in Sent : a.n < b.n =>
          a.boot < b.boot \/ (a.boot = b.boot /\ a.uptime <= b.uptime)
    BY DEF BootInv
  <2>2. \A a \in Sent : /\ a.n < sd.n /\ ~(sd.n < a.n)
                        /\ a.boot < sd.boot \/ (a.boot = sd.boot /\ a.uptime <= sd.uptime)
    BY <1>2, <1>7, <1>14
  <2>3. ~(sd.n < sd.n)
    BY <1>2, <1>7
  <2>4. QED
    BY <1>12, <2>1, <2>2, <2>3
<1>17. QED
  BY <1>5, <1>11, <1>15, <1>16 DEF BootInv

LEMMA CheckType ==
    ASSUME DataType, NEW sd \in flying, Check(sd)
    PROVE  /\ DataType' /\ sd \in SensorData
           /\ checked' = Append(checked, sd) /\ ds' = Aggregate(ds, CheckMeasurement(sd))
           /\ Len(checked') + Cardinality(flying') = Len(checked) + Cardinality(flying)
<1>1. /\ sd \in SensorData /\ flying' = flying \ {sd} /\ UNCHANGED <<device, now>>
      /\ checked' = Append(checked, sd) /\ ds' = Aggregate(ds, CheckMeasurement(sd))
  BY DEF Check, DataType
<1>2. CheckMeasurement(sd) \in MeasurementStat /\ ds \in MeasurementDataset
  BY <1>1, StatType DEF DataType
<1>3. \A d \in MeasurementDataset, stat \in MeasurementStat : Aggregate(d, stat) \in MeasurementDataset
  BY AggregateEffect
<1>4. ds' \in MeasurementDataset
  BY <1>1, <1>2, <1>3
<1>5. IsFiniteSet(flying') /\ Cardinality(flying') = Cardinality(flying) - 1
  BY <1>1, FS_RemoveElement DEF DataType
<1>6. Cardinality(flying) \in Nat /\ Len(checked) \in Nat /\ Window \in Nat
  BY SentType, DatasetAssumption
<1>7. checked' \in Seq(SensorData) /\ Len(checked') = Len(checked) + 1
  BY <1>1, OneMore DEF DataType
<1>8. Cardinality(flying') <= Window
  <2>1. Cardinality(flying) <= Window
    BY DEF DataType
  <2>2. QED
    BY <1>5, <1>6, <2>1
<1>9. flying' \subseteq SensorData
  BY <1>1 DEF DataType
<1>10. device' \in [boot : 1 .. MaxBoots, uptime : Nat, errors : Nat] /\ now' \in Nat
  BY <1>1 DEF DataType
<1>11. DataType'
  BY <1>4, <1>5, <1>7, <1>8, <1>9, <1>10 DEF DataType
<1>12. Len(checked') + Cardinality(flying') = Len(checked) + Cardinality(flying)
  BY <1>5, <1>6, <1>7
<1>13. QED
  BY <1>1, <1>11, <1>12

LEMMA BootStep ==
    ASSUME DataType, BootInv, NEW sd \in flying, Check(sd)
    PROVE  BootInv'
<1> DEFINE n == Len(checked)
           stat == CheckMeasurement(sd)
<1>1. /\ checked \in Seq(SensorData) /\ ds \in MeasurementDataset /\ sd \in SensorData
      /\ stat \in MeasurementStat /\ stat.uptime = sd.uptime
      /\ checked' = Append(checked, sd) /\ ds' = Aggregate(ds, stat)
      /\ flying' = flying \ {sd} /\ device' = device
  BY StatType, CheckType DEF DataType, CheckMeasurement, Check
<1>2. /\ n \in Nat
      /\ DOMAIN checked = 1 .. n /\ DOMAIN checked' = 1 .. n + 1
      /\ checked'[n + 1] = sd
      /\ \A i \in 1 .. n : checked'[i] = checked[i] /\ checked[i] \in SensorData
  BY <1>1, OneMore
<1>3. n + 1 \in 1 .. n + 1 /\ \A i \in 1 .. n : i \in 1 .. n + 1 /\ i < n + 1
  BY <1>2
<1>4. Sent' \subseteq Sent /\ sd \in Sent /\ \A i \in 1 .. n : checked[i] \in Sent
  <2>1. \A i : i \in 1 .. n + 1 <=> i \in 1 .. n \/ i = n + 1
    BY <1>2
  <2>2. \A a \in {checked'[i] : i \in 1 .. n + 1} : a \in {checked[i] : i \in 1 .. n} \/ a = sd
    BY <1>2, <2>1
  <2>3. sd \in Sent /\ \A i \in 1 .. n : checked[i] \in Sent
    BY <1>2 DEF Sent
  <2> HIDE DEF n
  <2>4. QED
    BY <1>1, <1>2, <2>2, <2>3 DEF Sent
<1>5. PICK from : from = IF ds.measurements = 0 THEN stat.uploaded ELSE ds.newest
  OBVIOUS
<1>6. PICK gap, worst :
        /\ gap = Rounded(stat.uploaded - from)
        /\ worst = IF ds.thisErrors >= stat.errors THEN ds.thisErrors ELSE stat.errors
  OBVIOUS
<1> HIDE DEF n, stat
<1>7. /\ sd.uptime = 0 => ds'.prevUptime = ds.prevUptime /\ ds'.boots = ds.boots
      /\ sd.uptime # 0 => ds'.prevUptime = sd.uptime
      /\ sd.uptime # 0 /\ sd.uptime < ds.prevUptime => ds'.boots = ds.boots + 1
      /\ sd.uptime # 0 /\ ~(sd.uptime < ds.prevUptime) => ds'.boots = ds.boots
  BY <1>1, <1>5, <1>6, AggregateEffect DEF stat, BootPart
<1>8. /\ sd.uptime \in Nat /\ sd.boot \in Nat /\ sd.boot >= 1 /\ sd.n \in Nat
      /\ ds.prevUptime \in Nat /\ ds.boots \in Nat
  <2>1. MaxBoots \in Nat /\ sd.boot \in 1 .. MaxBoots
    BY <1>1, DatasetAssumption DEF SensorData
  <2>2. sd.boot \in Nat /\ sd.boot >= 1
    BY <2>1
  <2>3. sd.uptime \in Nat /\ sd.n \in Nat
    BY <1>1 DEF SensorData
  <2>4. ds.prevUptime \in Nat /\ ds.boots \in Nat
    BY <1>1 DEF MeasurementDataset
  <2>5. QED
    BY <2>2, <2>3, <2>4
<1>9. ASSUME InTurn(checked')
      PROVE  \/ ds'.prevUptime = 0 /\ ds'.boots = 1
             \/ \E i \in DOMAIN checked' :
                   checked'[i].uptime = ds'.prevUptime /\ ds'.boots <= checked'[i].boot
  <2>1. InTurn(checked) /\ \A i \in 1 .. n : checked[i].n < sd.n
    BY <1>2, <1>3, <1>9 DEF InTurn
  <2>2. \A i \in 1 .. n :
          checked[i].boot < sd.boot \/ (checked[i].boot = sd.boot /\ checked[i].uptime <= sd.uptime)
    BY <1>4, <2>1 DEF BootInv
  <2>3. \A i \in 1 .. n : checked[i].boot \in Nat /\ checked[i].uptime \in Nat
    BY <1>2 DEF SensorData
  <2>4. CASE ds.prevUptime = 0 /\ ds.boots = 1
    <3>1. CASE sd.uptime = 0
      BY <1>7, <2>4, <3>1
    <3>2. CASE sd.uptime # 0
      <4>1. ds'.boots = 1 /\ ds'.prevUptime = sd.uptime
        BY <1>7, <1>8, <2>4, <3>2
      <4>2. QED
        BY <1>2, <1>3, <1>8, <4>1
    <3>3. QED
      BY <3>1, <3>2
  <2>5. ASSUME NEW i \in 1 .. n,
               checked[i].uptime = ds.prevUptime, ds.boots <= checked[i].boot
        PROVE  \E j \in DOMAIN checked' :
                   checked'[j].uptime = ds'.prevUptime /\ ds'.boots <= checked'[j].boot
    <3>1. CASE sd.uptime = 0
      BY <1>2, <1>3, <1>7, <2>5, <3>1
    <3>2. CASE sd.uptime # 0 /\ sd.uptime < ds.prevUptime
      <4>1. checked[i].boot < sd.boot
        BY <1>8, <2>2, <2>3, <2>5, <3>2
      <4>2. ds'.boots <= sd.boot /\ ds'.prevUptime = sd.uptime
        BY <1>7, <1>8, <2>3, <2>5, <3>2, <4>1
      <4>3. QED
        BY <1>2, <1>3, <4>2
    <3>3. CASE sd.uptime # 0 /\ ~(sd.uptime < ds.prevUptime)
      <4>1. ds'.boots <= sd.boot /\ ds'.prevUptime = sd.uptime
        BY <1>7, <1>8, <2>2, <2>3, <2>5, <3>3
      <4>2. QED
        BY <1>2, <1>3, <4>1
    <3>4. QED
      BY <3>1, <3>2, <3>3
  <2>6. QED
    BY <1>2, <2>1, <2>4, <2>5 DEF BootInv
<1>10. Len(checked') + Cardinality(flying') = Len(checked) + Cardinality(flying)
  BY CheckType
<1>11. \A a \in Sent' :
          /\ a.n <= Len(checked') + Cardinality(flying')
          /\ a.boot <= device'.boot
          /\ a.boot = device'.boot => a.uptime <= device'.uptime \div 60
  BY <1>1, <1>4, <1>10 DEF BootInv
<1>12. \A a, b \in Sent' : a.n < b.n =>
          a.boot < b.boot \/ (a.boot = b.boot /\ a.uptime <= b.uptime)
  BY <1>4 DEF BootInv
<1>13. QED
  BY <1>9, <1>11, <1>12 DEF BootInv

LEMMA BootsAreNotInvented ==
    ASSUME DataType, BootInv
    PROVE  BootsNeverInvented
<1>1. /\ Sent \subseteq SensorData /\ \A i \in DOMAIN checked : checked[i] \in Sent
      /\ device.boot \in Nat /\ device.boot >= 1 /\ ds.boots \in Nat
  <2>1. Sent \subseteq SensorData
    BY SentType
  <2>2. \A i \in DOMAIN checked : checked[i] \in Sent
    BY DEF Sent
  <2>3. device.boot \in 1 .. MaxBoots /\ MaxBoots \in Nat
    BY DatasetAssumption DEF DataType
  <2>4. ds.boots \in Nat
    BY DEF DataType, MeasurementDataset
  <2>5. QED
    BY <2>1, <2>2, <2>3, <2>4
<1>2. \A a \in Sent : a.boot \in Nat /\ a.boot <= device.boot
  BY <1>1, DatasetAssumption DEF BootInv, SensorData
<1>3. QED
  BY <1>1, <1>2 DEF BootInv, InTurn, BootsNeverInvented

-----------------------------------------------------------------------------
DatasetInv == DataType /\ GapInv /\ RangeInv /\ ErrorInv /\ BootInv

LEMMA DatasetInvInit == DatasetInit => DatasetInv
<1> SUFFICES ASSUME DatasetInit PROVE DatasetInv
  OBVIOUS
<1>1. /\ checked = <<>> /\ flying = {} /\ ds = Empty /\ now = 0
      /\ device = [boot |-> 1, uptime |-> 0, errors |-> 0]
  BY DEF DatasetInit
<1>2. IsFiniteSet(flying) /\ Cardinality(flying) = 0 /\ Len(checked) = 0 /\ DOMAIN checked = {}
  BY <1>1, FS_EmptySet
<1>3. /\ ds \in MeasurementDataset
      /\ ds.measurements = 0 /\ ds.minGap = 0 /\ ds.maxGap = 0
      /\ \A m \in Threshold : ds.gapsGt[m] = 0
      /\ ds.prevErrors = 0 /\ ds.thisErrors = 0 /\ ds.anyErrors = FALSE
      /\ ds.boots = 1 /\ ds.prevUptime = 0 /\ ds.count = 0 /\ ds.warnings = 0
  BY <1>1 DEF Empty, MeasurementDataset
<1>4. DataType
  BY <1>1, <1>2, <1>3, DatasetAssumption DEF DataType
<1>5. GapInv
  <2>1. InOrder(checked) = {}
    BY <1>2 DEF InOrder
  <2>2. GapsOf(checked) = {} /\ \A m : Over(checked, m) = {}
    BY <2>1 DEF GapsOf, Over
  <2>3. QED
    BY <1>1, <1>2, <1>3, <2>2, FS_EmptySet DEF GapInv
<1>6. RangeInv
  <2>1. Shown(checked) = {} /\ ~Warned(checked)
    BY <1>2 DEF Shown, Reports, Warned
  <2>2. ~(ds.warnings > 0)
    BY <1>3
  <2>3. QED
    BY <1>3, <2>1, <2>2 DEF RangeInv
<1>7. ErrorInv
  BY <1>1, <1>2, <1>3 DEF ErrorInv, Erring
<1>8. BootInv
  BY <1>1, <1>2, <1>3 DEF BootInv, Sent
<1>9. QED
  BY <1>4, <1>5, <1>6, <1>7, <1>8 DEF DatasetInv

LEMMA DatasetInvNext == DatasetInv /\ [DatasetNext]_datasetVars => DatasetInv'
<1> SUFFICES ASSUME DatasetInv, [DatasetNext]_datasetVars PROVE DatasetInv'
  OBVIOUS
<1> USE DEF DatasetInv
<1>1. CASE UNCHANGED datasetVars
  BY <1>1 DEF datasetVars, DataType, GapInv, RangeInv, ErrorInv, BootInv, Sent
<1>2. ASSUME NEW gap \in Gap, NEW boots \in BOOLEAN, NEW fails \in BOOLEAN,
             NEW report \in Report, Upload(gap, boots, fails, report)
      PROVE  DatasetInv'
  <2>1. checked' = checked /\ ds' = ds
    BY <1>2 DEF Upload
  <2>2. GapInv' /\ RangeInv' /\ ErrorInv'
    BY <2>1 DEF GapInv, RangeInv, ErrorInv
  <2>3. QED
    BY <1>2, <2>2, UploadStep
<1>3. ASSUME NEW sd \in flying, Check(sd)
      PROVE  DatasetInv'
  BY <1>3, CheckType, GapStep, RangeStep, ErrorStep, BootStep
<1>4. QED
  BY <1>1, <1>2, <1>3 DEF DatasetNext

LEMMA DatasetInvariant == DatasetSpec => []DatasetInv
  BY DatasetInvInit, DatasetInvNext, PTL DEF DatasetSpec

LEMMA DatasetTypeFollows == DatasetInv => DatasetTypeOK
<1> SUFFICES ASSUME DatasetInv PROVE DatasetTypeOK
  OBVIOUS
<1>1. /\ DataType
      /\ \A sd \in flying : sd.boot \in 1 .. MaxBoots /\ sd.errors \in Nat
  BY DEF DatasetInv, DataType, SensorData
<1>2. ds \in MeasurementDataset
  BY <1>1 DEF DataType
<1>3. DOMAIN ds = DOMAIN Empty
  BY <1>2 DEF MeasurementDataset, Empty
<1>4. \A f \in DOMAIN Empty \ {"gapsGt", "anyErrors", "lo", "hi"} : ds[f] \in Nat
  BY <1>2 DEF MeasurementDataset, Empty
<1>5. /\ ds.gapsGt \in [Threshold -> Nat]
      /\ ds.anyErrors \in BOOLEAN /\ ds.lo \in Int /\ ds.hi \in Int
  BY <1>2 DEF MeasurementDataset
<1>6. QED
  BY <1>1, <1>3, <1>4, <1>5 DEF DataType, DatasetTypeOK

\* The dataset of a check keeps its types, whatever the device measures and in
\* whatever order its measurements are logged.
THEOREM DatasetTypeCorrect == DatasetSpec => []DatasetTypeOK
  BY DatasetInvariant, DatasetTypeFollows, PTL

\* The gap counters, the shortest and the longest gap are those of the
\* measurements that came after all before them, in any log.
THEOREM GapsAreCounted == DatasetSpec => []GapsExact
<1>1. DatasetInv => GapsExact
  BY GapsAreExact DEF DatasetInv
<1>2. QED
  BY <1>1, DatasetInvariant, PTL

\* The range shown for a sensor is exactly that of its values, and a warning is
\* given if and only if one of these is bad.
THEOREM RangesEnclose == DatasetSpec => []RangesExact
<1>1. DatasetInv => RangesExact
  BY RangesAreExact DEF DatasetInv
<1>2. QED
  BY <1>1, DatasetInvariant, PTL

\* The errors reported are at least the worst that any measurement reports, and
\* exactly these in a single session.
THEOREM ErrorsAddUp == DatasetSpec => []ErrorsAccounted
<1>1. DatasetInv => ErrorsAccounted
  BY ErrorsAreAccounted DEF DatasetInv
<1>2. QED
  BY <1>1, DatasetInvariant, PTL

\* No session is invented in a log whose measurements are in the order in which
\* the device made them.
THEOREM SessionsAreReal == DatasetSpec => []BootsNeverInvented
<1>1. DatasetInv => BootsNeverInvented
  BY BootsAreNotInvented DEF DatasetInv
<1>2. QED
  BY <1>1, DatasetInvariant, PTL

-----------------------------------------------------------------------------
(* Writing.  A reading that overlaps with no other has its JSON at the end   *)
(* of the log until its separator is there, and then both are beyond reach:  *)
(* only the last piece of the log can be overwritten, and only by a reading  *)
(* that overlaps with the one it belongs to.                                 *)

\* Readings are taken in order, and nothing is done for one before that.
TakenInv ==
    \A p \in Payload : \A i \in 1 .. Size[p] : taken[p] < i => pc[<<p, i>>] = "none"

\* Who has the file open, or had it, has found or created it.
FileInv ==
    \A r \in Reading : pc[r] \in {"write", "separate", "done"} => log # Missing

Label ==
    {"none", "ask", "hung", "open", "stat", "create", "write", "separate", "done", "dropped"}

Early == {"none", "ask", "open", "stat", "create"}

OverlapInv ==
    /\ \A u, v \in Reading : u \in overlap[v] => v \in overlap[u]
    /\ \A u, v \in Reading : u # v /\ HasOpen(u) /\ HasOpen(v) => u \in overlap[v]
    /\ \A r \in Reading : pc[r] \in Early => overlap[r] = {}

\* The log ends with a separator, or with what is still being written or broken.
TailInv ==
    log # Missing /\ log # <<>> /\ log[Len(log)].kind # "sep" =>
        pc[log[Len(log)].of] = "separate" \/ log[Len(log)].of \in broken

\* What is before a piece is a separator or what is left of a broken one.
Before(i) == Separated(i - 1) \/ log[i - 1].of \in broken

Json(r) == [kind |-> "json", of |-> r]
Sep(r) == [kind |-> "sep", of |-> r]

Alone(r) == overlap[r] = {} /\ r \notin broken

Pending(r) == log # <<>> /\ log[Len(log)] = Json(r) /\ Before(Len(log))

Written(r) ==
    \E i \in 1 .. Len(log) :
        /\ i + 1 <= Len(log) /\ log[i] = Json(r) /\ log[i + 1] = Sep(r) /\ Before(i)

WroteInv ==
    \A r \in Reading : Alone(r) => /\ pc[r] = "separate" => Pending(r)
                                   /\ pc[r] = "done" => Written(r)

LogInv == TypeOK /\ TakenInv /\ FileInv /\ OverlapInv /\ TailInv /\ WroteInv

LEMMA ReadingIs ==
    \A r : r \in Reading <=> \E p \in Payload : \E i \in 1 .. Size[p] : r = <<p, i>>
  BY DEF Reading

\* The last piece of a log.
LEMMA LastIs ==
    ASSUME TypeOK, log # Missing, log # <<>>
    PROVE  /\ log \in Seq(Token) /\ Len(log) \in Nat \ {0}
           /\ log[Len(log)] \in Token /\ log[Len(log)].of \in Reading
<1>1. log \in Seq(Token) /\ Len(log) \in Nat /\ Len(log) # 0
  BY DEF TypeOK
<1>2. log[Len(log)] \in Token
  BY <1>1
<1>3. QED
  BY <1>1, <1>2 DEF Token

\* A goroutine that has not opened the file makes a step.
LEMMA QuietStep ==
    ASSUME LogInv, NEW r \in Reading, 
           NEW l \in {"ask", "hung", "open", "stat", "create", "dropped"},
           pc[r] \in Early, pc' = [pc EXCEPT ![r] = l], UNCHANGED <<log, overlap, broken>>
    PROVE  FileInv' /\ OverlapInv' /\ TailInv' /\ WroteInv'
<1>1. pc \in [Reading -> Label] /\ overlap \in [Reading -> SUBSET Reading]
  BY DEF LogInv, TypeOK, Label
<1>2. /\ pc'[r] = l /\ \A u \in Reading : u # r => pc'[u] = pc[u]
      /\ log' = log /\ overlap' = overlap /\ broken' = broken
  BY <1>1
<1>3. FileInv'
  BY <1>2 DEF LogInv, FileInv
<1>4. \A u \in Reading : HasOpen(u)' <=> HasOpen(u)
  BY <1>2 DEF HasOpen, Early
<1>5. overlap[r] = {}
  BY DEF LogInv, OverlapInv
<1>6. OverlapInv'
  BY <1>2, <1>4, <1>5 DEF LogInv, OverlapInv
<1>7. \A u \in Reading : pc[u] = "separate" => pc'[u] = "separate"
  BY <1>2 DEF Early
<1>8. TailInv'
  BY <1>2, <1>7, LastIs DEF LogInv, TailInv
<1>9. ASSUME NEW u \in Reading, Alone(u)'
      PROVE  /\ pc'[u] = "separate" => Pending(u)'
             /\ pc'[u] = "done" => Written(u)'
  <2>1. Alone(u)
    BY <1>2, <1>9 DEF Alone
  <2>2. /\ pc'[u] = "separate" => pc[u] = "separate"
        /\ pc'[u] = "done" => pc[u] = "done"
    BY <1>2
  <2>3. (Pending(u)' <=> Pending(u)) /\ (Written(u)' <=> Written(u))
    BY <1>2 DEF Pending, Written, Before, Separated
  <2>4. QED
    BY <2>1, <2>2, <2>3 DEF LogInv, WroteInv
<1>10. QED
  BY <1>3, <1>6, <1>8, <1>9 DEF WroteInv

\* A goroutine opens the file, or creates it.
LEMMA OpenedStep ==
    ASSUME LogInv, NEW r \in Reading, pc[r] \in {"open", "create"}, Opened(r),
           log # Missing => log' = log,
           log = Missing => log' = <<>>,
           broken' = broken
    PROVE  FileInv' /\ OverlapInv' /\ TailInv' /\ WroteInv'
<1> DEFINE others == {u \in Reading : HasOpen(u)}
<1>1. pc \in [Reading -> Label] /\ overlap \in [Reading -> SUBSET Reading]
  BY DEF LogInv, TypeOK, Label
<1>2. pc'[r] = "write" /\ \A u \in Reading : u # r => pc'[u] = pc[u]
  BY <1>1 DEF Opened, Goto
<1>3. /\ overlap'[r] = others
      /\ \A u \in Reading : u # r =>
            overlap'[u] = IF u \in others THEN overlap[u] \cup {r} ELSE overlap[u]
  BY DEF Opened
<1>4. log' # Missing
  <2>1. <<>> \in Seq(Token)
    OBVIOUS
  <2>2. QED
    BY <2>1, MissingAssumption
<1>5. FileInv'
  BY <1>4 DEF FileInv
<1>6. r \notin others /\ overlap[r] = {} /\ \A u \in Reading : r \notin overlap[u]
  BY <1>1 DEF LogInv, OverlapInv, HasOpen, Early
<1>7. HasOpen(r)' /\ \A u \in Reading : u # r => (HasOpen(u)' <=> u \in others)
  BY <1>2 DEF HasOpen
<1> HIDE DEF others
<1>8. \A u, v \in Reading : u \in overlap'[v] => v \in overlap'[u]
  <2>1. \A u, v \in Reading : u \in overlap[v] => v \in overlap[u]
    BY DEF LogInv, OverlapInv
  <2>2. \A u \in Reading : u # r => (r \in overlap'[u] <=> u \in others)
    BY <1>3, <1>6
  <2>3. \A u, v \in Reading : u # r /\ v # r => (u \in overlap'[v] <=> u \in overlap[v])
    BY <1>3
  <2>4. QED
    BY <1>3, <2>1, <2>2, <2>3
<1>9. \A u, v \in Reading : u # v /\ HasOpen(u)' /\ HasOpen(v)' => u \in overlap'[v]
  <2>1. \A u, v \in Reading : u # v /\ u \in others /\ v \in others => u \in overlap[v]
    BY DEF LogInv, OverlapInv, others
  <2>2. QED
    BY <1>3, <1>7, <2>1
<1>10. \A u \in Reading : pc'[u] \in Early => overlap'[u] = {}
  <2>1. \A u \in Reading : u \in others => pc[u] \notin Early
    BY DEF others, HasOpen, Early
  <2>2. QED
    BY <1>2, <1>3, <2>1 DEF LogInv, OverlapInv, Early
<1>11. OverlapInv'
  BY <1>8, <1>9, <1>10 DEF OverlapInv
<1>12. TailInv'
  <2>1. CASE log = Missing
    BY <2>1 DEF TailInv
  <2>2. CASE log # Missing
    BY <1>2, <2>2, LastIs DEF LogInv, TailInv
  <2>3. QED
    BY <2>1, <2>2
<1>13. ASSUME NEW u \in Reading, Alone(u)'
       PROVE  /\ pc'[u] = "separate" => Pending(u)'
              /\ pc'[u] = "done" => Written(u)'
  <2>1. CASE pc'[u] \in {"separate", "done"}
    <3>1. u # r /\ pc'[u] = pc[u]
      BY <1>2, <2>1
    <3>2. overlap[u] = {} /\ Alone(u)
      BY <1>3, <1>13, <3>1 DEF Alone
    <3>3. log # Missing /\ log' = log
      BY <2>1, <3>1 DEF LogInv, FileInv
    <3>4. (Pending(u)' <=> Pending(u)) /\ (Written(u)' <=> Written(u))
      BY <3>3 DEF Pending, Written, Before, Separated
    <3>5. QED
      BY <3>1, <3>2, <3>4 DEF LogInv, WroteInv
  <2>2. QED
    BY <2>1
<1>14. QED
  BY <1>5, <1>11, <1>12, <1>13 DEF WroteInv

-----------------------------------------------------------------------------
\* A piece t is put at position m, the end of the log or one beyond it.
Placed(t, m) ==
    /\ log' \in Seq(Token) /\ m \in Nat \ {0} /\ Len(log') = m
    /\ log'[m] = t /\ \A i \in 1 .. m - 1 : log'[i] = log[i]
    /\ \/ m = Len(log) + 1
       \/ m = Len(log) /\ log[m].of \in overlap[t.of]

LEMMA PlaceEffect ==
    ASSUME log \in Seq(Token), NEW t \in Token, log' \in Place(t)
    PROVE  \E m : Placed(t, m)
<1>1. CASE log' = Append(log, t)
  <2>1. Placed(t, Len(log) + 1)
    BY <1>1 DEF Placed
  <2>2. QED
    BY <2>1
<1>2. ASSUME NEW u \in overlap[t.of], log # <<>>, log[Len(log)].of = u,
             log' = [log EXCEPT ![Len(log)] = t]
      PROVE  \E m : Placed(t, m)
  <2>1. Len(log) \in Nat \ {0}
    BY <1>2
  <2>2. Placed(t, Len(log))
    BY <1>2, <2>1 DEF Placed
  <2>3. QED
    BY <2>2
<1>3. QED
  BY <1>1, <1>2 DEF Place

LEMMA PutEffect ==
    ASSUME log \in Seq(Token), NEW r \in Reading, NEW kind \in {"json", "sep"}, Put(r, kind)
    PROVE  /\ broken \subseteq broken' /\ broken' \subseteq broken \cup {r}
           /\ \/ log' = log /\ r \in broken'
              \/ \E t \in Token, m \in Nat :
                    /\ Placed(t, m) /\ t.of = r
                    /\ t = [kind |-> kind, of |-> r] \/ r \in broken'
<1> DEFINE whole == [kind |-> kind, of |-> r]
           torn == [kind |-> "torn", of |-> r]
<1>1. whole \in Token /\ torn \in Token /\ whole.of = r /\ torn.of = r
  BY DEF Token
<1>2. CASE log' \in Place(whole) /\ UNCHANGED broken
  BY <1>1, <1>2, PlaceEffect DEF Placed
<1>3. CASE log' = log /\ broken' = broken \cup {r}
  BY <1>3
<1>4. CASE log' \in Place(torn) /\ broken' = broken \cup {r}
  BY <1>1, <1>4, PlaceEffect DEF Placed
<1>5. QED
  BY <1>2, <1>3, <1>4 DEF Put

\* A goroutine writes; the readings of others stay what they are in the log.
LEMMA OthersKept ==
    ASSUME LogInv, NEW r \in Reading, HasOpen(r),
           broken \subseteq broken',
           log' = log \/ \E t \in Token, m \in Nat : Placed(t, m) /\ t.of = r,
           NEW q \in Reading, q # r, Alone(q), pc[q] = "done"
    PROVE  Written(q)'
<1>1. PICK i \in 1 .. Len(log) :
        /\ i + 1 <= Len(log) /\ log[i] = Json(q) /\ log[i + 1] = Sep(q) /\ Before(i)
  BY DEF LogInv, WroteInv, Written
<1>2. log \in Seq(Token)
  BY DEF LogInv, FileInv, TypeOK
<1>3. CASE log' = log
  <2>1. Before(i)'
    BY <1>1, <1>3 DEF Before, Separated
  <2>2. QED
    BY <1>1, <1>3, <2>1 DEF Written, Json, Sep
<1>4. ASSUME NEW t \in Token, NEW m \in Nat, Placed(t, m), t.of = r
      PROVE  Written(q)'
  <2>1. r \notin overlap[q] /\ q \notin overlap[r]
    BY DEF LogInv, OverlapInv, Alone
  <2>2. m # i + 1 \/ m # Len(log)
    BY <1>1, <1>4, <2>1 DEF Placed, Sep
  <2>3. i \in Nat \ {0} /\ m \in Nat /\ Len(log) \in Nat /\ i + 1 < m /\ Len(log') = m
    BY <1>1, <1>2, <1>4, <2>2 DEF Placed
  <2>4. /\ log'[i] = log[i] /\ log'[i + 1] = log[i + 1]
        /\ i > 1 => log'[i - 1] = log[i - 1]
    BY <1>4, <2>3 DEF Placed
  <2>5. log' \in Seq(Token)
    BY <1>4 DEF Placed
  <2>6. i - 1 \in DOMAIN log' <=> i - 1 \in DOMAIN log
    BY <1>2, <2>3, <2>5, <1>1
  <2>7. i - 1 \in DOMAIN log => i > 1
    BY <1>2, <2>3
  <2>8. Before(i)'
    BY <1>1, <2>4, <2>6, <2>7 DEF Before, Separated
  <2>9. QED
    BY <1>1, <2>3, <2>4, <2>8 DEF Written, Json, Sep
<1>5. QED
  BY <1>3, <1>4

\* What a goroutine that has the file open writes for a reading of its own.
LEMMA PutStep ==
    ASSUME LogInv, NEW r \in Reading, NEW kind \in {"json", "sep"}, Put(r, kind),
           UNCHANGED overlap,
           \/ kind = "json" /\ pc[r] = "write" /\ pc' = [pc EXCEPT ![r] = "separate"]
           \/ kind = "sep" /\ pc[r] = "separate" /\ pc' = [pc EXCEPT ![r] = "done"]
    PROVE  /\ log' \in Seq(Token) /\ broken' \subseteq Reading
           /\ FileInv' /\ OverlapInv' /\ TailInv' /\ WroteInv'
<1>1. /\ pc \in [Reading -> Label] /\ overlap \in [Reading -> SUBSET Reading]
      /\ overlap' = overlap /\ broken \subseteq Reading
  BY DEF LogInv, TypeOK, Label
<1>2. /\ pc'[r] \in {"separate", "done"} /\ HasOpen(r)
      /\ pc'[r] = "separate" <=> kind = "json"
      /\ kind = "json" => pc[r] = "write"
      /\ kind = "sep" => pc[r] = "separate" /\ pc'[r] = "done"
      /\ \A u \in Reading : u # r => pc'[u] = pc[u]
  BY <1>1 DEF HasOpen
<1>3. log \in Seq(Token) /\ log # Missing
  BY <1>2 DEF LogInv, FileInv, TypeOK, HasOpen
<1>4. /\ broken \subseteq broken' /\ broken' \subseteq broken \cup {r}
      /\ \/ log' = log /\ r \in broken'
         \/ \E t \in Token, m \in Nat :
               /\ Placed(t, m) /\ t.of = r
               /\ t = [kind |-> kind, of |-> r] \/ r \in broken'
  BY <1>3, PutEffect
<1>5. log' \in Seq(Token) /\ log' # Missing
  BY <1>3, <1>4, MissingAssumption DEF Placed
<1>6. FileInv'
  BY <1>5 DEF FileInv
<1>7. \A u \in Reading : /\ HasOpen(u)' => HasOpen(u)
                         /\ pc'[u] \in Early => pc[u] \in Early
  BY <1>2 DEF HasOpen, Early
<1>8. OverlapInv'
  BY <1>1, <1>7 DEF LogInv, OverlapInv
<1>9. \A u \in Reading : pc[u] = "separate" \/ u \in broken =>
         pc'[u] = "separate" \/ u \in broken' \/ u = r
  BY <1>2, <1>4
<1>10. TailInv'
  <2>1. CASE log' = log /\ r \in broken'
    BY <1>3, <1>9, <2>1, LastIs DEF LogInv, TailInv
  <2>2. ASSUME NEW t \in Token, NEW m \in Nat, Placed(t, m), t.of = r,
               t = [kind |-> kind, of |-> r] \/ r \in broken'
        PROVE  TailInv'
    <3>1. log'[Len(log')] = t
      BY <2>2 DEF Placed
    <3>2. t.kind # "sep" => r \in broken' \/ kind = "json"
      BY <2>2
    <3>3. QED
      BY <1>2, <2>2, <3>1, <3>2 DEF TailInv
  <2>3. QED
    BY <1>4, <2>1, <2>2
<1>11. ASSUME NEW q \in Reading, Alone(q)', q # r
       PROVE  /\ pc'[q] = "separate" => Pending(q)'
              /\ pc'[q] = "done" => Written(q)'
  <2>1. Alone(q) /\ pc'[q] = pc[q]
    BY <1>1, <1>2, <1>4, <1>11 DEF Alone
  <2>2. pc[q] # "separate"
    BY <1>2, <1>11, <2>1 DEF LogInv, OverlapInv, HasOpen, Alone
  <2>3. pc[q] = "done" => Written(q)'
    BY <1>2, <1>4, <1>11, <2>1, OthersKept
  <2>4. QED
    BY <2>1, <2>2, <2>3
<1>12. ASSUME Alone(r)'
       PROVE  /\ pc'[r] = "separate" => Pending(r)'
              /\ pc'[r] = "done" => Written(r)'
  <2>1. Alone(r) /\ r \notin broken'
    BY <1>1, <1>4, <1>12 DEF Alone
  <2>2. PICK m \in Nat : Placed([kind |-> kind, of |-> r], m)
    BY <1>4, <2>1
  <2>3. m = Len(log) + 1 /\ Len(log') = m /\ log'[m] = [kind |-> kind, of |-> r]
    BY <2>1, <2>2 DEF Placed, Alone
  <2>4. Len(log) \in Nat /\ \A i \in 1 .. Len(log) : log'[i] = log[i]
    BY <1>3, <2>2, <2>3 DEF Placed
  <2>5. CASE kind = "json"
    <3>1. CASE log = <<>>
      <4>1. m = 1 /\ DOMAIN log' = 1 .. 1
        BY <1>5, <2>3, <3>1
      <4>2. Before(m)'
        BY <4>1 DEF Before, Separated
      <4>3. QED
        BY <1>2, <1>5, <2>3, <2>5, <4>1, <4>2 DEF Pending, Json
    <3>2. CASE log # <<>>
      <4>1. log'[m - 1] = log[Len(log)] /\ m - 1 \in 1 .. m /\ log[Len(log)].of \in Reading
        BY <1>3, <2>3, <2>4, <3>2, LastIs DEF LogInv
      <4>2. log[Len(log)].kind # "sep" => log[Len(log)].of \in broken
        <5>1. pc[log[Len(log)].of] # "separate"
          BY <1>2, <2>1, <2>5, <4>1 DEF LogInv, OverlapInv, HasOpen, Alone
        <5>2. QED
          BY <1>3, <3>2, <5>1 DEF LogInv, TailInv
      <4>3. Before(m)'
        BY <1>4, <4>1, <4>2 DEF Before, Separated
      <4>4. log' # <<>>
        BY <1>3, <2>3, <2>4, <3>2
      <4>5. QED
        BY <1>2, <2>3, <2>5, <4>3, <4>4 DEF Pending, Json
    <3>3. QED
      BY <3>1, <3>2
  <2>6. CASE kind = "sep"
    <3>1. Pending(r)
      BY <1>2, <2>1, <2>6 DEF LogInv, WroteInv
    <3>2. PICK n \in Nat : n = Len(log)
      BY <2>4
    <3>3. n \in 1 .. Len(log') /\ n + 1 = Len(log') /\ n \in 1 .. Len(log)
      BY <1>3, <2>3, <2>4, <3>1, <3>2 DEF Pending
    <3>4. log'[n] = Json(r) /\ log'[n + 1] = Sep(r)
      BY <2>3, <2>4, <2>6, <3>1, <3>2, <3>3 DEF Pending, Sep
    <3>5. Before(n)'
      <4>1. Before(n)
        BY <3>1, <3>2 DEF Pending
      <4>2. n - 1 \in DOMAIN log' <=> n - 1 \in DOMAIN log
        BY <1>3, <1>5, <3>3
      <4>3. n - 1 \in DOMAIN log => log'[n - 1] = log[n - 1]
        BY <1>3, <2>4, <3>2
      <4>4. QED
        BY <1>4, <4>1, <4>2, <4>3 DEF Before, Separated
    <3>6. QED
      BY <1>2, <2>6, <3>3, <3>4, <3>5 DEF Written, Json, Sep
  <2>7. QED
    BY <2>5, <2>6
<1>13. QED
  BY <1>4, <1>1, <1>5, <1>6, <1>8, <1>10, <1>11, <1>12 DEF WroteInv

\* An instance exits.
LEMMA CrashStep ==
    ASSUME LogInv, NEW i, Crash(i)
    PROVE  FileInv' /\ OverlapInv' /\ TailInv' /\ WroteInv'
<1>1. /\ log' = log /\ overlap' = overlap
      /\ \A u \in Reading : pc'[u] = pc[u] \/ pc'[u] = "dropped"
      /\ broken \subseteq broken'
      /\ \A u \in Reading : pc[u] = "separate" => pc'[u] = "separate" \/ u \in broken'
  BY DEF Crash
<1>2. FileInv'
  BY <1>1 DEF LogInv, FileInv
<1>3. OverlapInv'
  BY <1>1 DEF LogInv, OverlapInv, HasOpen, Early
<1>4. TailInv'
  BY <1>1, LastIs DEF LogInv, TailInv
<1>5. ASSUME NEW q \in Reading, Alone(q)'
      PROVE  /\ pc'[q] = "separate" => Pending(q)'
             /\ pc'[q] = "done" => Written(q)'
  <2>1. Alone(q)
    BY <1>1, <1>5 DEF Alone
  <2>2. \A n : Before(n) => Before(n)'
    BY <1>1 DEF Before, Separated
  <2>3. (Pending(q) => Pending(q)') /\ (Written(q) => Written(q)')
    BY <1>1, <2>2 DEF Pending, Written, Json, Sep
  <2>4. QED
    BY <1>1, <2>1, <2>3 DEF LogInv, WroteInv
<1>6. QED
  BY <1>2, <1>3, <1>4, <1>5 DEF WroteInv

-----------------------------------------------------------------------------
LEMMA LogInvInit == Init => LogInv
<1> SUFFICES ASSUME Init PROVE LogInv
  OBVIOUS
<1>1. \A r \in Reading : pc[r] = "none" /\ overlap[r] = {}
  BY DEF Init
<1>2. log = <<>> \/ log = Missing
  BY DEF Init
<1>3. TypeOK
  <2>1. \A p \in Payload : Size[p] \in Nat
    BY DeviceLogAssumption
  <2>2. <<>> \in Seq(Token)
    OBVIOUS
  <2>3. taken \in [Payload -> Nat] /\ \A p \in Payload : taken[p] <= Size[p]
    BY <2>1 DEF Init
  <2>4. QED
    BY <1>2, <2>2, <2>3 DEF Init, TypeOK
<1>4. TakenInv
  BY <1>1, ReadingIs DEF TakenInv
<1>5. FileInv /\ OverlapInv /\ WroteInv
  BY <1>1 DEF FileInv, OverlapInv, WroteInv, HasOpen
<1>6. TailInv
  BY <1>2 DEF TailInv
<1>7. QED
  BY <1>3, <1>4, <1>5, <1>6 DEF LogInv

LEMMA ProcessStep ==
    ASSUME LogInv, NEW p \in Payload, Process(p)
    PROVE  LogInv'
<1>1. taken[p] \in Nat /\ Size[p] \in Nat /\ taken \in [Payload -> Nat]
  BY DeviceLogAssumption DEF LogInv, TypeOK
<1>2. PICK n : n = taken[p] + 1
  OBVIOUS
<1>3. n \in 1 .. Size[p] /\ taken[p] < n /\ n \in Nat
  BY <1>1, <1>2 DEF Process
<1>4. PICK r \in Reading : r = <<p, n>>
  BY <1>3, ReadingIs
<1>5. /\ pc[r] = "none" /\ pc' = [pc EXCEPT ![r] = "ask"]
      /\ taken' = [taken EXCEPT ![p] = n]
      /\ UNCHANGED <<log, overlap, broken, excused>>
  BY <1>2, <1>3, <1>4 DEF LogInv, TakenInv, Process, Goto
<1>6. FileInv' /\ OverlapInv' /\ TailInv' /\ WroteInv'
  BY <1>5, QuietStep DEF Early
<1>7. TypeOK'
  <2>1. taken' \in [Payload -> Nat] /\ \A q \in Payload : taken'[q] <= Size[q]
    BY <1>1, <1>3, <1>5 DEF LogInv, TypeOK
  <2>2. QED
    BY <1>5, <2>1 DEF LogInv, TypeOK
<1>8. TakenInv'
  <2> SUFFICES ASSUME NEW q \in Payload, NEW j \in 1 .. Size[q], taken'[q] < j
               PROVE  pc'[<<q, j>>] = "none"
    BY DEF TakenInv
  <2>1. taken[q] < j /\ <<q, j>> # r
    <3>1. CASE q = p
      <4>1. n < j
        BY <1>1, <1>5, <3>1
      <4>2. QED
        BY <1>1, <1>3, <1>4, <3>1, <4>1
    <3>2. CASE q # p
      BY <1>1, <1>4, <1>5, <3>2
    <3>3. QED
      BY <3>1, <3>2
  <2>2. <<q, j>> \in Reading /\ pc[<<q, j>>] = "none"
    BY <2>1, ReadingIs DEF LogInv, TakenInv
  <2>3. QED
    BY <1>5, <2>1, <2>2 DEF LogInv, TypeOK
<1>9. QED
  BY <1>6, <1>7, <1>8 DEF LogInv

\* A goroutine's own step leaves the readings not yet taken alone.
LEMMA TakenKept ==
    ASSUME LogInv, NEW r \in Reading, pc[r] # "none", taken' = taken,
           \A u \in Reading : u # r => pc'[u] = pc[u]
    PROVE  TakenInv'
  BY ReadingIs DEF LogInv, TakenInv

LEMMA LogReadingStep ==
    ASSUME LogInv, NEW r \in Reading, LogReading(r)
    PROVE  LogInv'
<1>1. /\ pc \in [Reading -> Label] /\ TypeOK /\ log \in Seq(Token) \cup {Missing}
      /\ overlap \in [Reading -> SUBSET Reading] /\ broken \subseteq Reading
      /\ excused \subseteq Reading
  BY DEF LogInv, TypeOK, Label
<1>2. ASSUME NEW l \in {"hung", "open", "stat", "create", "dropped"},
             pc[r] \in {"ask", "open", "stat", "create"},
             Goto(r, l), UNCHANGED <<taken, log, overlap, broken>>,
             excused' \in {excused, excused \cup {r}}
      PROVE  LogInv'
  <2>1. FileInv' /\ OverlapInv' /\ TailInv' /\ WroteInv'
    BY <1>2, QuietStep DEF Early, Goto
  <2>2. TypeOK'
    BY <1>1, <1>2 DEF TypeOK, Goto
  <2>3. TakenInv'
    BY <1>1, <1>2, TakenKept DEF Goto
  <2>4. QED
    BY <2>1, <2>2, <2>3 DEF LogInv
<1>13. CASE LookedUp(r) \/ Hang(r)
  BY <1>2, <1>13 DEF LookedUp, Hang
<1>3. CASE OpenFails(r)
  BY <1>2, <1>3 DEF OpenFails
<1>4. CASE Stat(r)
  BY <1>2, <1>4 DEF Stat
<1>5. CASE CreateFails(r)
  BY <1>2, <1>5 DEF CreateFails
<1>6. ASSUME pc[r] \in {"open", "create"}, Opened(r), UNCHANGED <<taken, broken, excused>>,
             log # Missing => log' = log, log = Missing => log' = <<>>
      PROVE  LogInv'
  <2>1. FileInv' /\ OverlapInv' /\ TailInv' /\ WroteInv'
    BY <1>6, OpenedStep
  <2>2. pc' = [pc EXCEPT ![r] = "write"] /\ overlap' \in [Reading -> SUBSET Reading]
    BY <1>1, <1>6 DEF Opened, Goto
  <2>3. log' \in Seq(Token)
    <3>1. <<>> \in Seq(Token)
      OBVIOUS
    <3>2. QED
      BY <1>1, <1>6, <3>1
  <2>4. TypeOK'
    BY <1>1, <1>6, <2>2, <2>3 DEF TypeOK
  <2>5. TakenInv'
    BY <1>1, <1>6, <2>2, TakenKept
  <2>6. QED
    BY <2>1, <2>4, <2>5 DEF LogInv
<1>7. CASE Open(r)
  BY <1>6, <1>7 DEF Open
<1>8. CASE Create(r)
  BY <1>6, <1>8 DEF Create
<1>9. ASSUME NEW kind \in {"json", "sep"}, Put(r, kind),
             UNCHANGED <<taken, overlap, excused>>,
             \/ kind = "json" /\ pc[r] = "write" /\ Goto(r, "separate")
             \/ kind = "sep" /\ pc[r] = "separate" /\ Goto(r, "done")
      PROVE  LogInv'
  <2>1. /\ log' \in Seq(Token) /\ broken' \subseteq Reading
        /\ FileInv' /\ OverlapInv' /\ TailInv' /\ WroteInv'
    BY <1>9, PutStep DEF Goto
  <2>2. /\ pc' \in [Reading -> Label] /\ pc[r] # "none"
        /\ \A u \in Reading : u # r => pc'[u] = pc[u]
    BY <1>1, <1>9 DEF Goto, Label
  <2>3. TypeOK'
    BY <1>1, <1>9, <2>1, <2>2 DEF TypeOK, Label
  <2>4. TakenInv'
    BY <1>9, <2>2, TakenKept
  <2>5. QED
    BY <2>1, <2>3, <2>4 DEF LogInv
<1>10. CASE Write(r)
  BY <1>9, <1>10 DEF Write
<1>11. CASE Separate(r)
  BY <1>9, <1>11 DEF Separate
<1>12. QED
  BY <1>3, <1>4, <1>5, <1>7, <1>8, <1>10, <1>11, <1>13 DEF LogReading

LEMMA LogInvNext == LogInv /\ [Next]_vars => LogInv'
<1> SUFFICES ASSUME LogInv, [Next]_vars PROVE LogInv'
  OBVIOUS
<1>1. CASE UNCHANGED vars
  <2>1. /\ taken' = taken /\ pc' = pc /\ log' = log /\ overlap' = overlap /\ broken' = broken
        /\ excused' = excused
    BY <1>1 DEF vars
  <2>2. TypeOK' /\ TakenInv' /\ FileInv'
    BY <2>1 DEF LogInv, TypeOK, TakenInv, FileInv
  <2>3. OverlapInv' /\ TailInv'
    BY <2>1 DEF LogInv, OverlapInv, TailInv, HasOpen
  <2>4. WroteInv'
    BY <2>1 DEF LogInv, WroteInv, Alone, Pending, Written, Before, Separated
  <2>5. QED
    BY <2>2, <2>3, <2>4 DEF LogInv
<1>2. ASSUME NEW i, Crash(i)
      PROVE  LogInv'
  <2>1. FileInv' /\ OverlapInv' /\ TailInv' /\ WroteInv'
    BY <1>2, CrashStep
  <2>2. TypeOK'
    <3>1. \A p \in Payload : Size[p] \in Nat
      BY DeviceLogAssumption
    <3>2. taken' \in [Payload -> Nat] /\ \A p \in Payload : taken'[p] <= Size[p]
      BY <1>2, <3>1 DEF Crash, LogInv, TypeOK
    <3>3. pc' \in [Reading -> Label]
      BY <1>2 DEF Crash, LogInv, TypeOK, Label
    <3>4. /\ log' \in Seq(Token) \cup {Missing} /\ overlap' \in [Reading -> SUBSET Reading]
          /\ broken' \subseteq Reading /\ excused' \subseteq Reading
      BY <1>2 DEF Crash, LogInv, TypeOK
    <3>5. QED
      BY <3>2, <3>3, <3>4 DEF TypeOK, Label
  <2>3. TakenInv'
    <3> SUFFICES ASSUME NEW p \in Payload, NEW j \in 1 .. Size[p], taken'[p] < j
                 PROVE  pc'[<<p, j>>] = "none"
      BY DEF TakenInv
    <3>1. Size[p] \in Nat
      BY DeviceLogAssumption
    <3>2. PICK r \in Reading : r = <<p, j>>
      BY ReadingIs
    <3>3. Home[p] # i /\ taken[p] < j
      BY <1>2, <3>1 DEF Crash
    <3>4. Instance(r) # i /\ pc[r] = "none"
      BY <3>2, <3>3 DEF Instance, LogInv, TakenInv
    <3>5. pc'[r] = "none"
      BY <1>2, <3>4 DEF Crash
    <3>6. QED
      BY <3>2, <3>5
  <2>4. QED
    BY <2>1, <2>2, <2>3 DEF LogInv
<1>3. QED
  BY <1>1, <1>2, ProcessStep, LogReadingStep DEF Next

LEMMA LogInvariant == Spec => []LogInv
  BY LogInvInit, LogInvNext, PTL DEF Spec

\* The goroutines' states, the log and who overlaps with whom keep their types,
\* for any number of payloads, readings and instances.
THEOREM LogTypeCorrect == Spec => []TypeOK
<1>1. LogInv => TypeOK
  BY DEF LogInv
<1>2. QED
  BY <1>1, LogInvariant, PTL

\* A reading that was written while no other was is read back by the check,
\* unless it or what is right before it was cut short.
THEOREM LoneReadingsAreReadBack == Spec => []ReadBack
<1>1. LogInv => ReadBack
  <2> SUFFICES ASSUME LogInv, NEW r \in Reading,
                      pc[r] = "done", overlap[r] = {}, r \notin broken
               PROVE  \/ Readable(r)
                      \/ \E i \in Position(r) : ~Separated(i - 1) /\ log[i - 1].of \in broken
    BY DEF ReadBack
  <2>1. PICK i \in 1 .. Len(log) :
          /\ i + 1 <= Len(log) /\ log[i] = Json(r) /\ log[i + 1] = Sep(r) /\ Before(i)
    BY DEF LogInv, WroteInv, Alone, Written
  <2>2. log \in Seq(Token)
    BY DEF LogInv, TypeOK, FileInv
  <2>3. i \in Position(r) /\ Separated(i + 1)
    BY <2>1, <2>2 DEF Position, Separated, Json, Sep
  <2>4. QED
    BY <2>1, <2>3 DEF Readable, Before
<1>2. QED
  BY <1>1, LogInvariant, PTL

-----------------------------------------------------------------------------
\* No reading is in the log twice, nor before its goroutine has written it.
LoggedOnce ==
    log # Missing =>
        \A i \in DOMAIN log : log[i].kind = "json" =>
            /\ pc[log[i].of] \in {"separate", "done", "dropped"}
            /\ \A j \in DOMAIN log : log[j] = log[i] => j = i

LEMMA LoggedOnceNext == LogInv /\ LoggedOnce /\ [Next]_vars => LoggedOnce'
<1> SUFFICES ASSUME LogInv, LoggedOnce, [Next]_vars, log' # Missing PROVE LoggedOnce'
  BY DEF LoggedOnce
<1> DEFINE Past(f, r) == f[r] \in {"separate", "done", "dropped"}
<1>1. pc \in [Reading -> Label] /\ log \in Seq(Token) \cup {Missing}
  BY DEF LogInv, TypeOK, Label
<1>2. ASSUME log # Missing, NEW n \in DOMAIN log
      PROVE  log[n] \in Token /\ log[n].of \in Reading
  <2>1. log[n] \in Token
    BY <1>1, <1>2
  <2>2. QED
    BY <2>1 DEF Token
<1>3. ASSUME log' = log \/ (log = Missing /\ log' = <<>>),
             \A u \in Reading : Past(pc, u) => Past(pc', u)
      PROVE  LoggedOnce'
  <2>1. CASE log' = log
    BY <1>2, <1>3, <2>1 DEF LoggedOnce
  <2>2. CASE log' = <<>>
    BY <2>2 DEF LoggedOnce
  <2>3. QED
    BY <1>3, <2>1, <2>2
<1>4. ASSUME NEW r \in Reading, NEW kind \in {"json", "sep"}, Put(r, kind),
             kind = "json" => pc[r] = "write" /\ pc' = [pc EXCEPT ![r] = "separate"],
             kind = "sep" => pc[r] = "separate" /\ pc' = [pc EXCEPT ![r] = "done"]
      PROVE  LoggedOnce'
  <2>1. /\ \A u \in Reading : Past(pc, u) => Past(pc', u)
        /\ Past(pc', r)
    BY <1>1, <1>4
  <2>2. log \in Seq(Token) /\ log # Missing
    BY <1>1, <1>4 DEF LogInv, FileInv
  <2>3. CASE log' = log
    BY <1>3, <2>1, <2>3
  <2>4. ASSUME NEW t \in Token, NEW m \in Nat, Placed(t, m), t.of = r,
               t = [kind |-> kind, of |-> r] \/ t.kind = "torn"
        PROVE  LoggedOnce'
    <3>1. /\ DOMAIN log' = 1 .. m /\ m \in Nat \ {0} /\ log'[m] = t
          /\ \A i \in 1 .. m - 1 : log'[i] = log[i] /\ i \in DOMAIN log
      BY <2>2, <2>4 DEF Placed
    <3>2. \A i \in 1 .. m : i = m \/ i \in 1 .. m - 1
      BY <3>1
    <3>3. t.kind = "json" => \A i \in 1 .. m - 1 : log'[i] # t
      <4>1. ASSUME t.kind = "json", NEW i \in 1 .. m - 1, log[i] = t PROVE FALSE
        <5>1. kind = "json" /\ pc[r] = "write"
          BY <1>4, <2>4, <4>1
        <5>2. Past(pc, r)
          BY <2>2, <2>4, <3>1, <4>1 DEF LoggedOnce
        <5>3. QED
          BY <5>1, <5>2
      <4>2. QED
        BY <3>1, <4>1
    <3>4. \A i \in 1 .. m : log'[i].kind = "json" => Past(pc', log'[i].of)
      <4>1. \A i \in 1 .. m - 1 : log'[i].kind = "json" => Past(pc', log'[i].of)
        <5> SUFFICES ASSUME NEW i \in 1 .. m - 1, log[i].kind = "json" PROVE Past(pc', log[i].of)
          BY <3>1
        <5>1. Past(pc, log[i].of) /\ log[i].of \in Reading
          BY <1>2, <2>2, <3>1 DEF LoggedOnce
        <5>2. QED
          BY <2>1, <5>1
      <4>2. Past(pc', log'[m].of)
        BY <2>1, <2>4, <3>1
      <4>3. QED
        BY <3>2, <4>1, <4>2
    <3>5. \A i, j \in 1 .. m - 1 : log[i].kind = "json" /\ log[j] = log[i] => j = i
      BY <2>2, <3>1 DEF LoggedOnce
    <3>6. \A i, j \in 1 .. m : log'[i].kind = "json" /\ log'[j] = log'[i] => j = i
      BY <3>1, <3>2, <3>3, <3>5
    <3>7. QED
      BY <3>1, <3>4, <3>6 DEF LoggedOnce
  <2>5. QED
    <3>1. [kind |-> kind, of |-> r] \in Token /\ [kind |-> "torn", of |-> r] \in Token
      BY DEF Token
    <3>2. \A k \in {kind, "torn"} :
            log' \in Place([kind |-> k, of |-> r]) => \E m : Placed([kind |-> k, of |-> r], m)
      BY <2>2, <3>1, PlaceEffect
    <3>3. ASSUME NEW k \in {kind, "torn"}, log' \in Place([kind |-> k, of |-> r])
          PROVE  LoggedOnce'
      <4>1. PICK m : Placed([kind |-> k, of |-> r], m)
        BY <3>2, <3>3
      <4>2. m \in Nat
        BY <4>1 DEF Placed
      <4>3. QED
        BY <2>4, <3>1, <4>1, <4>2
    <3>4. QED
      BY <1>4, <2>3, <3>3 DEF Put
<1>5. CASE UNCHANGED vars
  BY <1>3, <1>5 DEF vars
<1>6. ASSUME NEW p \in Payload, Process(p) PROVE LoggedOnce'
  <2>1. taken[p] \in Nat /\ Size[p] \in Nat
    BY DeviceLogAssumption DEF LogInv, TypeOK
  <2>2. PICK n \in 1 .. Size[p] : n = taken[p] + 1 /\ taken[p] < n
    BY <1>6, <2>1 DEF Process
  <2>3. PICK r \in Reading : r = <<p, n>>
    BY ReadingIs
  <2>4. pc[r] = "none" /\ pc' = [pc EXCEPT ![r] = "ask"] /\ log' = log
    BY <1>6, <2>2, <2>3 DEF LogInv, TakenInv, Process, Goto
  <2>5. QED
    BY <1>1, <1>3, <2>4
<1>7. ASSUME NEW r \in Reading, LogReading(r) PROVE LoggedOnce'
  <2>1. CASE \/ LookedUp(r) \/ Hang(r)
             \/ Open(r) \/ OpenFails(r) \/ Stat(r) \/ Create(r) \/ CreateFails(r)
    BY <1>1, <1>3, <2>1 DEF LookedUp, Hang, Open, OpenFails, Stat, Create, CreateFails, Opened, Goto
  <2>2. CASE Write(r)
    BY <1>4, <2>2 DEF Write, Goto
  <2>3. CASE Separate(r)
    BY <1>4, <2>3 DEF Separate, Goto
  <2>4. QED
    BY <1>7, <2>1, <2>2, <2>3 DEF LogReading
<1>8. ASSUME NEW i, Crash(i) PROVE LoggedOnce'
  BY <1>3, <1>8 DEF Crash
<1>9. QED
  BY <1>5, <1>6, <1>7, <1>8 DEF Next

\* Whatever is overwritten, cut short or abandoned, and however many instances append:
\* the check never reads one reading twice, and none that was not processed.
THEOREM NothingIsLoggedTwice == Spec => []LoggedOnce
<1>1. Init => LoggedOnce
  BY DEF Init, LoggedOnce
<1>2. QED
  BY <1>1, LogInvariant, LoggedOnceNext, PTL DEF Spec

-----------------------------------------------------------------------------
\* The safety half of EveryReadingEnds: a reading is dropped, or its goroutine turns to
\* creating the file, only for one of the reasons named.
DroppedForCause == \A r \in Reading : pc[r] = "dropped" => r \in excused

CauseInv ==
    \A r \in Reading :
        /\ pc[r] = "open" /\ log = Missing => r \in excused
        /\ pc[r] \in {"stat", "create", "dropped"} => r \in excused

LEMMA CauseInvNext == LogInv /\ CauseInv /\ [Next]_vars => CauseInv'
<1> SUFFICES ASSUME LogInv, CauseInv, [Next]_vars PROVE CauseInv'
  OBVIOUS
<1>1. pc \in [Reading -> Label]
  BY DEF LogInv, TypeOK, Label
<1>2. ASSUME NEW r \in Reading, \A u \in Reading : u # r => pc'[u] = pc[u],
             log' = Missing => log = Missing, excused \subseteq excused',
             pc'[r] = "open" /\ log' = Missing => r \in excused',
             pc'[r] \in {"stat", "create", "dropped"} => r \in excused'
      PROVE  CauseInv'
  BY <1>2 DEF CauseInv
<1>3. CASE UNCHANGED vars
  BY <1>3 DEF vars, CauseInv
<1>4. ASSUME NEW p \in Payload, Process(p) PROVE CauseInv'
  <2>1. /\ \A u \in Reading : pc'[u] = pc[u] \/ pc'[u] = "ask"
        /\ log' = log /\ excused' = excused
    BY <1>1, <1>4 DEF Process, Goto
  <2>2. QED
    BY <2>1 DEF CauseInv
<1>5. ASSUME NEW r \in Reading, LogReading(r) PROVE CauseInv'
  <2>1. CASE LookedUp(r) \/ Hang(r)
    BY <1>1, <1>2, <2>1 DEF LookedUp, Hang, Goto
  <2>2. CASE OpenFails(r) \/ CreateFails(r)
    BY <1>1, <1>2, <2>2 DEF OpenFails, CreateFails, Goto, CauseInv
  <2>3. CASE Stat(r)
    BY <1>1, <1>2, <2>3 DEF Stat, Goto, CauseInv
  <2>4. CASE Open(r) \/ Create(r)
    <3>1. /\ pc' = [pc EXCEPT ![r] = "write"] /\ excused' = excused
          /\ log' = Missing => log = Missing
      BY <2>4 DEF Open, Create, Opened, Goto
    <3>2. QED
      BY <1>1, <1>2, <3>1
  <2>5. CASE Write(r) \/ Separate(r)
    <3>1. /\ \E l \in {"separate", "done"} : pc' = [pc EXCEPT ![r] = l]
          /\ excused' = excused /\ pc[r] \in {"write", "separate"}
      BY <2>5 DEF Write, Separate, Goto
    <3>2. log # Missing
      BY <3>1 DEF LogInv, FileInv
    <3>3. QED
      <4>1. \A u \in Reading : pc'[u] = pc[u] \/ pc'[u] \in {"separate", "done"}
        BY <1>1, <3>1
      <4>2. FileInv'
        BY LogInvNext DEF LogInv
      <4>3. pc'[r] \in {"separate", "done"}
        BY <1>1, <3>1
      <4>4. log' # Missing
        BY <4>2, <4>3 DEF FileInv
      <4>5. QED
        BY <3>1, <4>1, <4>4 DEF CauseInv
  <2>6. QED
    BY <1>5, <2>1, <2>2, <2>3, <2>4, <2>5 DEF LogReading
<1>6. ASSUME NEW i, Crash(i) PROVE CauseInv'
  BY <1>6 DEF Crash, CauseInv
<1>7. QED
  BY <1>3, <1>4, <1>5, <1>6 DEF Next

\* No reading is dropped on its way to the log but for one of three reasons: an open of
\* its own failed, its instance exited, or the month's file was not yet there when it came
\* to be logged.  (What becomes of a reading that is written is what ReadBack says.)
THEOREM DropsHaveACause == Spec => []DroppedForCause
<1>1. Init => CauseInv
  BY DEF Init, CauseInv
<1>2. CauseInv => DroppedForCause
  BY DEF CauseInv, DroppedForCause
<1>3. QED
  BY <1>1, <1>2, LogInvariant, CauseInvNext, PTL DEF Spec
=============================================================================
