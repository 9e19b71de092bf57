------------------------------ MODULE DeviceLog ------------------------------
(***************************************************************************)
(* How readings get into the month's log file of a device and out again:   *)
(* AppReqPushPayload of src/appreq.go, WriteToLogs and JSONDeviceLog of    *)
(* src/dlog.go, and CheckJSON of src/http-dcheck.go.                       *)
(*                                                                         *)
(* A device that was offline uploads its buffered readings as one payload. *)
(* Its goroutine processes them one after the other, and looks each up in  *)
(* the sheet, which may be a request without a timeout.  Each is logged by *)
(* a goroutine of its own, which appends the JSON and then a separator to  *)
(* a file that all instances share, and that is created by whoever logs    *)
(* first in a month.  There is no lock.  CheckJSON splits the log at the   *)
(* separators and skips whatever is not one reading.                       *)
(***************************************************************************)
EXTENDS Integers, Sequences, FiniteSets

CONSTANTS
    Payload,      \* payloads, each handled by a goroutine
    Size,         \* readings in each payload
    Home,         \* the instance that receives each payload
    Existing,     \* whether the month's file is there from the start
    OpensFail, WritesFail, MayCrash,
    Missing

ASSUME DeviceLogAssumption ==
    /\ Size \in [Payload -> Nat]
    /\ DOMAIN Home = Payload
    /\ \A b \in {Existing, OpensFail, WritesFail, MayCrash} : b \in BOOLEAN

Reading == UNION {{p} \X (1 .. Size[p]) : p \in Payload}
Instance(r) == Home[r[1]]

\* What is written, and which reading it belongs to.
Token == [kind : {"json", "sep", "torn"}, of : Reading]

ASSUME MissingAssumption == Missing \notin Seq(Token)

VARIABLES
    taken,    \* how many readings of each payload have been taken from it
    pc,       \* what is done next about each reading, first by the goroutine of its
              \* payload, then by that of JSONDeviceLog
    log,      \* the month's file
    overlap,  \* history: the readings being written at the same time as each
    broken,   \* history: readings a write of which failed, or ended by a crash
    excused   \* history: readings that met a failing open or the exit of their instance,
              \* or that came to be logged before the month's file was there

vars == <<taken, pc, log, overlap, broken, excused>>

Init ==
    /\ taken = [p \in Payload |-> 0]
    /\ pc = [r \in Reading |-> "none"]
    /\ log = IF Existing THEN <<>> ELSE Missing
    /\ overlap = [r \in Reading |-> {}]
    /\ broken = {}
    /\ excused = {}

Goto(r, label) == pc' = [pc EXCEPT ![r] = label]
HasOpen(r) == pc[r] \in {"write", "separate"}

-----------------------------------------------------------------------------
\* The goroutine of a payload is looking one of its readings up.
Busy(p) == \E k \in 1 .. Size[p] : pc[<<p, k>>] \in {"ask", "hung"}

\* Bug: one reading more than the payload has.
ProcessOneMore(p) ==
    /\ ~Busy(p)
    /\ taken[p] <= Size[p]
    /\ taken' = [taken EXCEPT ![p] = @ + 1]
    /\ Goto(<<p, taken[p] + 1>>, "ask")
    /\ UNCHANGED <<log, overlap, broken, excused>>

\* The readings of a payload are processed in order.
Process(p) ==
    /\ ~Busy(p)
    /\ taken[p] < Size[p]
    /\ taken' = [taken EXCEPT ![p] = @ + 1]
    /\ Goto(<<p, taken[p] + 1>>, "ask")
    /\ UNCHANGED <<log, overlap, broken, excused>>

\* The serial number of the device is looked up in the sheet, with or without success.
\* Then a goroutine logs the reading.
LookedUp(r) ==
    /\ pc[r] = "ask"
    /\ Goto(r, "open")
    /\ excused' = IF log = Missing THEN excused \cup {r} ELSE excused
    /\ UNCHANGED <<taken, log, overlap, broken>>

\* The sheet is due to be fetched, and the request is never answered.
Hang(r) ==
    /\ pc[r] = "ask"
    /\ Goto(r, "hung")
    /\ UNCHANGED <<taken, log, overlap, broken, excused>>

\* The descriptor is open: note who else has the file open.
Opened(r) ==
    LET others == {u \in Reading : HasOpen(u)}
    IN /\ overlap' = [u \in Reading |-> IF u = r THEN others
                                        ELSE IF u \in others THEN overlap[u] \cup {r}
                                        ELSE overlap[u]]
       /\ Goto(r, "write")

Open(r) ==
    /\ pc[r] = "open"
    /\ log # Missing
    /\ Opened(r)
    /\ UNCHANGED <<taken, log, broken, excused>>

OpenFails(r) ==
    /\ pc[r] = "open"
    /\ log = Missing \/ OpensFail
    /\ Goto(r, "stat")
    /\ excused' = IF log = Missing THEN excused ELSE excused \cup {r}
    /\ UNCHANGED <<taken, log, overlap, broken>>

\* Bug: a file that exists after all is tried again.
StatAgain(r) ==
    /\ pc[r] = "stat"
    /\ Goto(r, IF log = Missing THEN "create" ELSE "open")
    /\ UNCHANGED <<taken, log, overlap, broken, excused>>

\* "Don't attempt to create it if it already exists"
Stat(r) ==
    /\ pc[r] = "stat"
    /\ Goto(r, IF log = Missing THEN "create" ELSE "dropped")
    /\ UNCHANGED <<taken, log, overlap, broken, excused>>

\* Bug: the file is created with O_TRUNC.
CreateAfresh(r) ==
    /\ pc[r] = "create"
    /\ log' = <<>>
    /\ Opened(r)
    /\ UNCHANGED <<taken, broken, excused>>

Create(r) ==
    /\ pc[r] = "create"
    /\ log' = IF log = Missing THEN <<>> ELSE log
    /\ Opened(r)
    /\ UNCHANGED <<taken, broken, excused>>

CreateFails(r) ==
    /\ OpensFail
    /\ pc[r] = "create"
    /\ Goto(r, "dropped")
    /\ excused' = excused \cup {r}
    /\ UNCHANGED <<taken, log, overlap, broken>>

\* O_APPEND.  Over a network file system it takes the end that this instance
\* knows of, so that it may hit what another one has just written.
Place(t) ==
    {Append(log, t)} \cup
        {[log EXCEPT ![Len(log)] = t] : u \in
            {u \in overlap[t.of] : /\ Instance(u) # Instance(t.of)
                                   /\ log # <<>> /\ log[Len(log)].of = u}}

\* A write whose error is ignored may have written nothing or a part.
Put(r, kind) ==
    \/ /\ log' \in Place([kind |-> kind, of |-> r])
       /\ UNCHANGED broken
    \/ /\ WritesFail
       /\ log' \in {log} \cup Place([kind |-> "torn", of |-> r])
       /\ broken' = broken \cup {r}

Write(r) ==
    /\ pc[r] = "write"
    /\ Put(r, "json")
    /\ Goto(r, "separate")
    /\ UNCHANGED <<taken, overlap, excused>>

Separate(r) ==
    /\ pc[r] = "separate"
    /\ Put(r, "sep")
    /\ Goto(r, "done")
    /\ UNCHANGED <<taken, overlap, excused>>

\* The instance exits with everything that it is doing.
Crash(i) ==
    /\ MayCrash
    /\ taken' = [p \in Payload |-> IF Home[p] = i THEN Size[p] ELSE taken[p]]
    /\ pc' = [r \in Reading |-> IF Instance(r) = i /\ pc[r] # "done" THEN "dropped" ELSE pc[r]]
    /\ broken' = broken \cup {r \in Reading : Instance(r) = i /\ pc[r] = "separate"}
    /\ excused' = excused \cup {r \in Reading : Instance(r) = i /\ pc[r] # "done"}
    /\ UNCHANGED <<log, overlap>>

-----------------------------------------------------------------------------
LogReading(r) ==
    \/ LookedUp(r) \/ Hang(r)
    \/ Open(r) \/ OpenFails(r) \/ Stat(r) \/ Create(r) \/ CreateFails(r)
    \/ Write(r) \/ Separate(r)

Next ==
    \/ \E p \in Payload : Process(p)
    \/ \E r \in Reading : LogReading(r)
    \/ \E i \in {Home[p] : p \in Payload} : Crash(i)

Spec == Init /\ [][Next]_vars

\* Goroutines keep running.
FairSpec ==
    /\ Spec
    /\ \A p \in Payload : WF_vars(Process(p))
    /\ \A r \in Reading : WF_vars(LogReading(r))

-----------------------------------------------------------------------------
\* CheckJSON: a piece between two separators is used if it is one reading.
Separated(i) == i \notin DOMAIN log \/ log[i].kind = "sep"
Position(r) == {i \in DOMAIN log : log[i] = [kind |-> "json", of |-> r]}
Readable(r) == \E i \in Position(r) : Separated(i - 1) /\ Separated(i + 1)

TypeOK ==
    /\ taken \in [Payload -> Nat] /\ \A p \in Payload : taken[p] <= Size[p]
    /\ pc \in [Reading -> {"none", "ask", "hung", "open", "stat", "create", "write",
                           "separate", "done", "dropped"}]
    /\ log \in Seq(Token) \cup {Missing}
    /\ overlap \in [Reading -> SUBSET Reading]
    /\ broken \subseteq Reading /\ excused \subseteq Reading

\* "Badly-formatted json occasionally occurs because of concurrent file writes"
\* (http-dcheck.go:68), and for no other reason: whatever happens elsewhere in
\* the log, a reading that was written while no other was is read back by the
\* check, unless it or the reading right before it was cut short.
ReadBack ==
    \A r \in Reading : pc[r] = "done" /\ overlap[r] = {} /\ r \notin broken =>
        Readable(r) \/ \E i \in Position(r) : ~Separated(i - 1) /\ log[i - 1].of \in broken

\* A payload whose goroutine hangs keeps its readings from the one that hangs.
Kept(r) == \E k \in 1 .. r[2] : pc[<<r[1], k>>] = "hung"

\* Every reading of a payload is logged in the end, unless the goroutine of its payload
\* hangs in the request for the sheet (sheet.go:79) at it or at one before it, an open
\* of its own fails, its own instance exits, or it comes to be logged before the
\* month's file is there: then the file may have been created between the open that
\* fails and the test whether it exists, and the reading is dropped (dlog.go:49).
EveryReadingEnds ==
    \A r \in Reading :
        <>(pc[r] = "done" \/ (pc[r] = "dropped" /\ r \in excused) \/ Kept(r))
=============================================================================
