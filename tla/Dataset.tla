------------------------------- MODULE Dataset -------------------------------
(***************************************************************************)
(* The check of a device's log: CheckMeasurement and                       *)
(* AggregateMeasurementIntoDataset of src/dcheck.go, which CheckJSON of    *)
(* src/http-dcheck.go applies to the log's entries one after the other.    *)
(*                                                                         *)
(* The device measures, counts the errors since it booted, and may reboot. *)
(* The server that receives a measurement stamps it with the time, but     *)
(* measurements that are on their way together may be logged in any order. *)
(* One error counter and one group of sensors stand for all of them.       *)
(***************************************************************************)
EXTENDS Integers, Sequences, FiniteSetsExt

CONSTANTS
    Gap,              \* seconds between one measurement and the next
    Report,           \* what a group of sensors reports
    Normal,           \* the values without a warning
    Absent,           \* a nil pointer
    Threshold,        \* minutes, one for each GapsGt counter
    Window,           \* measurements on their way at the same time
    MaxMeasurements, MaxBoots

ASSUME DatasetAssumption ==
    /\ Gap \subseteq Nat /\ Threshold \subseteq Nat /\ 0 \in Threshold
    /\ \A r \in Report : r = Absent \/ r.value = Absent \/ r.value \in Int
    /\ Window \in Nat \ {0} /\ MaxMeasurements \in Nat /\ MaxBoots \in Nat \ {0}

VARIABLES
    device,   \* the device: its boots, its uptime in seconds, its errors
    now,      \* seconds
    flying,   \* measurements received but not logged yet
    checked,  \* history: the entries of the log that have been checked
    ds        \* the dataset

datasetVars == <<device, now, flying, checked, ds>>

\* NewMeasurementDataset.
Empty ==
    [measurements |-> 0, oldest |-> 0, newest |-> 0, minGap |-> 0, maxGap |-> 0,
     gapsGt |-> [m \in Threshold |-> 0],
     thisErrors |-> 0, prevErrors |-> 0, anyErrors |-> FALSE,
     boots |-> 1, prevUptime |-> 0, maxUptime |-> 0,
     count |-> 0, lo |-> 0, hi |-> 0, warnings |-> 0, warningFirst |-> 0]

DatasetInit ==
    /\ device = [boot |-> 1, uptime |-> 0, errors |-> 0]
    /\ now = 0
    /\ flying = {}
    /\ checked = <<>>
    /\ ds = Empty

-----------------------------------------------------------------------------
\* CheckMeasurement: what is not there counts as zero.
Measured(sd) == sd.report # Absent /\ sd.report.value # Absent

CheckMeasurement(sd) ==
    [uploaded |-> sd.uploaded, uptime |-> sd.uptime, errors |-> sd.errors,
     has |-> sd.report # Absent,
     value |-> IF Measured(sd) THEN sd.report.value ELSE 0,
     warning |-> Measured(sd) /\ sd.report.value \notin Normal]

Counted(d, stat) ==
    LET n == d.measurements + 1
    IN [d EXCEPT !.measurements = n,
                 !.oldest = IF n = 1 THEN stat.uploaded ELSE @,
                 !.newest = IF n = 1 THEN stat.uploaded ELSE @]

\* Seconds are dropped, except that less than a minute counts as one second.
Rounded(seconds) ==
    IF seconds \in 1 .. 59 THEN 1 ELSE (seconds \div 60) * 60

\* Bug: a measurement that is out of order counts, too.
TimedAlways(d, stat) ==
    LET gap == Rounded(stat.uploaded - d.newest)
    IN [d EXCEPT !.newest = stat.uploaded,
                 !.minGap = IF @ = 0 \/ gap < @ THEN gap ELSE @,
                 !.maxGap = Max({@, gap}),
                 !.gapsGt = [m \in Threshold |-> IF gap > m * 60 THEN @[m] + 1 ELSE @[m]]]

Timed(d, stat) ==
    LET gap == Rounded(stat.uploaded - d.newest)
    IN IF stat.uploaded < d.newest THEN d
       ELSE [d EXCEPT !.newest = stat.uploaded,
                      !.minGap = IF gap > 0 /\ (@ = 0 \/ gap < @) THEN gap ELSE @,
                      !.maxGap = Max({@, gap}),
                      !.gapsGt = [m \in Threshold |->
                                    IF gap > m * 60 THEN @[m] + 1 ELSE @[m]]]

\* Bug: the last count of the session is kept instead of the highest.
SessionErrorsLast(d, stat) ==
    [d EXCEPT !.thisErrors = stat.errors,
              !.anyErrors = @ \/ stat.errors > d.thisErrors]

\* The highest count in this session.
SessionErrors(d, stat) ==
    [d EXCEPT !.thisErrors = Max({@, stat.errors}),
              !.anyErrors = @ \/ stat.errors > d.thisErrors]

\* aggregateErrors
AggregateErrors(d) ==
    [d EXCEPT !.prevErrors = @ + d.thisErrors, !.thisErrors = 0]

\* Bug: an uptime that has not grown is taken for a boot.
UptimeStalled(d, stat) ==
    LET booted == stat.uptime <= d.prevUptime
        e == [d EXCEPT !.maxUptime = Max({@, stat.uptime}),
                       !.boots = IF booted THEN @ + 1 ELSE @,
                       !.prevUptime = stat.uptime]
    IN IF stat.uptime = 0 THEN d ELSE IF booted THEN AggregateErrors(e) ELSE e

\* An uptime that has decreased shows that the device has booted.
Uptime(d, stat) ==
    LET booted == stat.uptime < d.prevUptime
        e == [d EXCEPT !.maxUptime = Max({@, stat.uptime}),
                       !.boots = IF booted THEN @ + 1 ELSE @,
                       !.prevUptime = stat.uptime]
    IN IF stat.uptime = 0 THEN d ELSE IF booted THEN AggregateErrors(e) ELSE e

\* Bug: the range starts at zero, not at the first value.
SensorsFromZero(d, stat) ==
    [d EXCEPT !.count = IF stat.has THEN @ + 1 ELSE @,
              !.lo = IF stat.has THEN Min({@, stat.value}) ELSE @,
              !.hi = IF stat.has THEN Max({@, stat.value}) ELSE @,
              !.warningFirst = IF stat.warning /\ d.warnings = 0 THEN stat.uploaded ELSE @,
              !.warnings = IF stat.warning THEN @ + 1 ELSE @]

Sensors(d, stat) ==
    [d EXCEPT !.count = IF stat.has THEN @ + 1 ELSE @,
              !.lo = IF ~stat.has THEN @
                     ELSE IF d.count = 0 THEN stat.value ELSE Min({@, stat.value}),
              !.hi = IF ~stat.has THEN @
                     ELSE IF d.count = 0 THEN stat.value ELSE Max({@, stat.value}),
              !.warningFirst = IF stat.warning /\ d.warnings = 0 THEN stat.uploaded ELSE @,
              !.warnings = IF stat.warning THEN @ + 1 ELSE @]

\* AggregateMeasurementIntoDataset, in the order of the code.
Aggregate(d, stat) ==
    Sensors(Uptime(SessionErrors(Timed(Counted(d, stat), stat), stat), stat), stat)

-----------------------------------------------------------------------------
\* The device measures, perhaps after an error or a reboot, and uploads.
Upload(gap, boots, fails, report) ==
    /\ Cardinality(flying) < Window
    /\ Len(checked) + Cardinality(flying) < MaxMeasurements
    /\ boots => device.boot < MaxBoots
    /\ now' = now + gap
    /\ device' =
         [boot |-> IF boots THEN device.boot + 1 ELSE device.boot,
          uptime |-> IF boots THEN gap ELSE device.uptime + gap,
          errors |-> (IF boots THEN 0 ELSE device.errors) + (IF fails THEN 1 ELSE 0)]
    /\ flying' = flying \cup
         {[n |-> Len(checked) + Cardinality(flying) + 1, boot |-> device'.boot,
           uploaded |-> now', uptime |-> device'.uptime \div 60,
           errors |-> device'.errors, report |-> report]}
    /\ UNCHANGED <<checked, ds>>

\* A measurement is logged, and CheckJSON reaches it.
Check(sd) ==
    /\ sd \in flying
    /\ flying' = flying \ {sd}
    /\ checked' = Append(checked, sd)
    /\ ds' = Aggregate(ds, CheckMeasurement(sd))
    /\ UNCHANGED <<device, now>>

DatasetNext ==
    \/ \E gap \in Gap, boots, fails \in BOOLEAN, report \in Report :
         Upload(gap, boots, fails, report)
    \/ \E sd \in flying : Check(sd)

DatasetSpec == DatasetInit /\ [][DatasetNext]_datasetVars

-----------------------------------------------------------------------------
\* What AggregationCompleted makes of the errors.
Completed == AggregateErrors(ds)

DatasetTypeOK ==
    /\ device \in [boot : 1 .. MaxBoots, uptime : Nat, errors : Nat]
    /\ now \in Nat
    /\ \A sd \in flying : sd.boot \in 1 .. MaxBoots /\ sd.errors \in Nat
    /\ Cardinality(flying) <= Window
    /\ DOMAIN ds = DOMAIN Empty
    /\ \A f \in DOMAIN Empty \ {"gapsGt", "anyErrors", "lo", "hi"} : ds[f] \in Nat
    /\ ds.gapsGt \in [Threshold -> Nat]
    /\ ds.anyErrors \in BOOLEAN /\ ds.lo \in Int /\ ds.hi \in Int

Last(i) == Max({checked[j].uploaded : j \in 1 .. i})

\* "it is possible to have uploads that are out-of-order ... we won't factor the
\* measurement into our 'gap' calculations" (dcheck.go:720): the counters are
\* those of the gaps between the measurements that came after all before them,
\* and the shortest and the longest gap are among these.
GapsExact ==
    LET gap(i) == Rounded(checked[i].uploaded - Last(i - 1))
        inOrder == {i \in 2 .. Len(checked) : checked[i].uploaded >= Last(i - 1)}
        gaps == {gap(i) : i \in inOrder} \ {0}
    IN /\ checked # <<>> => ds.newest = Last(Len(checked))
       /\ \A m \in Threshold :
            ds.gapsGt[m] = Cardinality({i \in inOrder : gap(i) > m * 60})
       /\ ds.minGap = IF gaps = {} THEN 0 ELSE Min(gaps)
       /\ ds.maxGap = IF gaps = {} THEN 0 ELSE Max(gaps)

\* "does some simple range check on each data value" (dcheck.go:19): in whatever
\* order they are logged, the range shown encloses all values measured, reaches
\* no further than zero beyond them, and every bad value leaves a warning.
RangesExact ==
    LET values == {checked[i].report.value :
                       i \in {j \in DOMAIN checked : Measured(checked[j])}}
        shown == IF \E i \in DOMAIN checked :
                        checked[i].report # Absent /\ ~Measured(checked[i])
                 THEN values \cup {0} ELSE values
    IN /\ shown # {} => ds.lo = Min(shown) /\ ds.hi = Max(shown)
       /\ ds.warnings > 0 <=> \E v \in values : v \notin Normal

\* The total of the errors is at least the worst that any measurement reports,
\* exactly that while there is one session, and no errors are reported out of
\* nothing, in whatever order the measurements are logged.
ErrorsAccounted ==
    LET worst == IF checked = <<>> THEN 0
                 ELSE Max({checked[i].errors : i \in DOMAIN checked})
    IN /\ Completed.prevErrors >= worst
       /\ ds.boots = 1 => Completed.prevErrors = worst
       /\ ds.anyErrors <=> worst > 0

\* While no measurement overtakes another, the sessions counted are at most those
\* that the device has had, which is what the check reports as "maximum found in
\* %d sessions" (dcheck.go:1299).
BootsNeverInvented ==
    (\A i, j \in DOMAIN checked : i < j => checked[i].n < checked[j].n) =>
        ds.boots <= device.boot
=============================================================================
