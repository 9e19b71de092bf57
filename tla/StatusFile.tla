----------------------------- MODULE StatusFile -----------------------------
(***************************************************************************)
(* How a device's or a gateway's status file is updated: ReadDeviceStatus  *)
(* and WriteDeviceStatus of src/dstatus.go, ReadGatewayStatus and          *)
(* WriteGatewayStatus of src/gstatus.go.                                   *)
(*                                                                         *)
(* Every message spawns a goroutine that reads the JSON file, merges the   *)
(* message into it and writes it back, without any lock, in whichever      *)
(* instance the load balancer picked; the file is on a network file system *)
(* that all instances share.  The file is truncated by the open and        *)
(* written next.  Afterwards the goroutine reads the file again, and       *)
(* writes it again for as long as it finds it corrupt.  Before the file is *)
(* opened, other servers are asked for the device's row in the sheet and   *)
(* for where an IP address is, without a timeout.                          *)
(*                                                                         *)
(* What is in the file is left to a parameter: Merge is the part of the    *)
(* two write functions between the read and the write (StatusMerge).       *)
(***************************************************************************)
EXTENDS Naturals

CONSTANTS
    Writer,       \* goroutines, of any instance
    Message,
    Value,        \* what a well-formed file may hold
    Empty,        \* valueEmpty
    Merge(_, _),  \* the value a message turns a value into
    MaxReads,     \* attempts at reading an intact file, 4 or 5
    GivesUp,      \* whether an unavailable file ends the update: gateways, or devices
    ReadsFail, WritesFail, OpensFail, MayCrash,
    None, Missing, Truncated, Garbled

Corrupt == {Truncated, Garbled}

ASSUME StatusFileAssumption ==
    /\ Empty \in Value
    /\ MaxReads \in Nat \ {0}
    /\ Value \cap {Missing, Truncated, Garbled} = {}
    /\ Missing \notin Corrupt
    /\ GivesUp \subseteq BOOLEAN

ASSUME FailureAssumption ==
    \A b \in {ReadsFail, WritesFail, OpensFail, MayCrash} : b \in BOOLEAN

VARIABLES
    givesUp,     \* the status is that of a gateway
    file,        \* the status file
    pc,          \* per goroutine, what it does next
    msg, value,  \* its message, and what it is about to write
    tries,       \* its attempts at reading
    abandoned,   \* history: a writer crashed or gave up since the last good check
    disturbed    \* history: updates have overlapped, the file was left corrupt, or
                 \* a device's file could not be read and was taken for a blank one

vars == <<givesUp, disturbed, file, pc, msg, value, tries, abandoned>>

Init ==
    /\ givesUp \in GivesUp
    /\ disturbed = FALSE
    /\ file = Missing
    /\ pc = [w \in Writer |-> "idle"]
    /\ msg = [w \in Writer |-> None]
    /\ value = [w \in Writer |-> Empty]
    /\ tries = [w \in Writer |-> 0]
    /\ abandoned = FALSE

Goto(w, label) == pc' = [pc EXCEPT ![w] = label]

\* Goroutines that have not ended, nor hang in a request that is never answered; and
\* those of them that write the file.
AtWork == {w \in Writer : pc[w] \notin {"idle", "hung"}}
Writing == {w \in Writer : pc[w] \in {"open", "write", "check"}}

\* The goroutine ends.
End(w) ==
    /\ Goto(w, "idle")
    /\ msg' = [msg EXCEPT ![w] = None]
    /\ value' = [value EXCEPT ![w] = Empty]
    /\ tries' = [tries EXCEPT ![w] = 0]

Receive(w, m) ==
    /\ pc[w] = "idle"
    /\ msg' = [msg EXCEPT ![w] = m]
    /\ Goto(w, "read")
    /\ disturbed' = (disturbed \/ AtWork # {})
    /\ UNCHANGED <<givesUp, file, value, tries, abandoned>>

-----------------------------------------------------------------------------
\* Merge the message into what has been read.
Update(w, v) ==
    /\ value' = [value EXCEPT ![w] = Merge(v, msg[w])]
    /\ tries' = [tries EXCEPT ![w] = 0]
    /\ Goto(w, "ask")

ReadIntact(w) ==
    /\ pc[w] = "read"
    /\ file \notin Corrupt
    /\ Update(w, IF file = Missing THEN Empty ELSE file)
    /\ UNCHANGED <<givesUp, disturbed, file, msg, abandoned>>

\* "If it was reset, try waiting around a bit until it is fixed."
WaitOrReset(w) ==
    IF tries[w] + 1 < MaxReads
        THEN /\ tries' = [tries EXCEPT ![w] = @ + 1]
             /\ UNCHANGED <<pc, value>>
        ELSE Update(w, Empty)

ReadReset(w) ==
    /\ pc[w] = "read"
    /\ file \in Corrupt
    /\ WaitOrReset(w)
    /\ UNCHANGED <<givesUp, disturbed, file, msg, abandoned>>

\* Bug: the gateway's update goes on all the same.
ReadFailsGoesOn(w) ==
    /\ ReadsFail
    /\ pc[w] = "read"
    /\ WaitOrReset(w)
    /\ disturbed' = (disturbed \/ (~givesUp /\ tries[w] + 1 = MaxReads))
    /\ UNCHANGED <<givesUp, file, msg, abandoned>>

\* The file system fails, five times in a row, on a file that exists.
ReadFails(w) ==
    /\ ReadsFail
    /\ pc[w] = "read"
    /\ IF givesUp THEN End(w) ELSE WaitOrReset(w) /\ UNCHANGED msg
    /\ disturbed' = (disturbed \/ (~givesUp /\ tries[w] + 1 = MaxReads))
    /\ UNCHANGED <<givesUp, file, abandoned>>

-----------------------------------------------------------------------------
\* The other servers answer, or the requests fail, or are not needed.
Informed(w) ==
    /\ pc[w] = "ask"
    /\ Goto(w, "open")
    /\ UNCHANGED <<givesUp, disturbed, file, msg, value, tries, abandoned>>

\* A request is never answered: the message is not merged.
Hang(w) ==
    /\ pc[w] = "ask"
    /\ Goto(w, "hung")
    /\ UNCHANGED <<givesUp, disturbed, file, msg, value, tries, abandoned>>

Open(w) ==
    /\ pc[w] = "open"
    /\ file' = Truncated
    /\ Goto(w, "write")
    /\ UNCHANGED <<givesUp, disturbed, msg, value, tries, abandoned>>

OpenFails(w) ==
    /\ OpensFail
    /\ pc[w] = "open"
    /\ End(w)
    /\ abandoned' = TRUE
    /\ disturbed' = (disturbed \/ file \in Corrupt)
    /\ UNCHANGED <<givesUp, file>>

\* Over a file that somebody else has written meanwhile, the value may leave the
\* tail of a longer one.  An error of WriteString is not looked at.
Write(w) ==
    /\ pc[w] = "write"
    /\ file' \in {value[w]} \cup (IF file = Truncated THEN {} ELSE {Garbled})
                           \cup (IF WritesFail THEN {file, Garbled} ELSE {})
    /\ Goto(w, "check")
    /\ UNCHANGED <<givesUp, disturbed, msg, value, tries, abandoned>>

\* The integrity check after a few seconds.
CheckIntact(w) ==
    /\ pc[w] = "check"
    /\ file \notin Corrupt
    /\ End(w)
    /\ abandoned' = FALSE
    /\ UNCHANGED <<givesUp, disturbed, file>>

\* Bug: a file that is corrupt is left to the next message.
CheckIgnored(w) ==
    /\ pc[w] = "check"
    /\ file \in Corrupt
    /\ End(w)
    /\ UNCHANGED <<givesUp, disturbed, file, abandoned>>

\* Bug: a corrupt file is checked again and again, and not written again.
CheckRepeatedly(w) ==
    /\ pc[w] = "check"
    /\ file \in Corrupt \/ ReadsFail
    /\ UNCHANGED vars

CheckCorrupt(w) ==
    /\ pc[w] = "check"
    /\ file \in Corrupt \/ ReadsFail
    /\ Goto(w, "open")
    /\ UNCHANGED <<givesUp, disturbed, file, msg, value, tries, abandoned>>

\* The process that the goroutine is in exits.
Crash(w) ==
    /\ MayCrash
    /\ pc[w] # "idle"
    /\ End(w)
    /\ abandoned' = (abandoned \/ w \in Writing)
    /\ disturbed' = (disturbed \/ (w \in Writing /\ file \in Corrupt))
    /\ UNCHANGED <<givesUp, file>>

-----------------------------------------------------------------------------
Work(w) ==
    \/ ReadIntact(w) \/ ReadReset(w) \/ ReadFails(w)
    \/ Informed(w) \/ Hang(w) \/ Open(w) \/ OpenFails(w) \/ Write(w)
    \/ CheckIntact(w) \/ CheckCorrupt(w)

Next ==
    \E w \in Writer : Work(w) \/ Crash(w) \/ \E m \in Message : Receive(w, m)

Spec == Init /\ [][Next]_vars

\* Goroutines keep running, and neither writes nor the reads of the check fail for
\* ever.
FairSpec ==
    /\ Spec
    /\ \A w \in Writer :
          /\ WF_vars(Work(w))
          /\ SF_vars(Write(w) /\ file' = value[w])
          /\ SF_vars(CheckIntact(w))

-----------------------------------------------------------------------------
TypeOK ==
    /\ givesUp \in BOOLEAN /\ disturbed \in BOOLEAN
    /\ file \in Value \cup {Missing} \cup Corrupt
    /\ pc \in [Writer -> {"idle", "read", "ask", "hung", "open", "write", "check"}]
    /\ msg \in [Writer -> Message \cup {None}]
    /\ value \in [Writer -> Value]
    /\ tries \in [Writer -> 0 .. MaxReads - 1]
    /\ abandoned \in BOOLEAN

\* "Write it to the file until it's written correctly, to allow for concurrency"
\* (dstatus.go:854): however the writers interleave, a corrupt file always has a
\* writer that is about to write it again, unless one has failed to open it or
\* has been killed with its process.
CorruptionAttended ==
    file \in Corrupt =>
        abandoned \/ \E w \in Writer : pc[w] \in {"open", "write", "check"}

\* Every update ends or hangs in a request before it has touched the file, as long
\* as it does not overlap another: the retries do, and the check does not keep finding
\* the file corrupt.  (Two that overlap can keep garbling what the other has written.
\* The requests are those of http.Get at gstatus.go:127, dstatus.go:838 and
\* sheet.go:79, which have no timeout.)
EveryUpdateEnds ==
    \A w \in Writer : pc[w] = "read" ~> pc[w] \in {"idle", "hung"} \/ disturbed

-----------------------------------------------------------------------------
(* What updates promise that do not overlap: the status is a register into  *)
(* which messages are merged one by one.                                    *)
Status ==
    IF file = Missing THEN Empty
    ELSE IF file \notin Corrupt THEN file
    ELSE IF Writing = {} THEN Empty
    ELSE value[CHOOSE w \in Writing : TRUE]

Register == INSTANCE StatusRegister WITH status <- Status

\* However many goroutines there are, each message is merged into the status there
\* was, or dropped, until two updates overlap, one is killed between truncation and
\* write, or a device's status cannot be read as often as it is tried: no other
\* failure, retry, restart or rewrite loses what was known before.
MergesOneByOne == Register!Spec
=============================================================================
