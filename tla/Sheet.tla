-------------------------------- MODULE Sheet --------------------------------
(***************************************************************************)
(* The cache of the device tracker, a spreadsheet that tells the serial    *)
(* number of each device: sheetDeviceInfo and sheetInvalidateCache of      *)
(* src/sheet.go.                                                           *)
(*                                                                         *)
(* The cache is refilled by whichever goroutine finds it out of date: it   *)
(* marks the cache as retrieved, then empties it, asks for the sheet       *)
(* without a timeout, and appends one row after the other, while others    *)
(* search and refill it, too, since nothing is locked.  A refill that      *)
(* fails leaves what it has appended.                                      *)
(*                                                                         *)
(* A version of the tracker stands for its contents: all have the same     *)
(* devices, and each gives them other serial numbers, so that a row is a   *)
(* device and a version.  An error and an answer without a serial number   *)
(* are None.  A tracker that lacks a column is one whose first row cannot  *)
(* be read.                                                                *)
(***************************************************************************)
EXTENDS Integers, Sequences

CONSTANTS
    Process,      \* goroutines that ask for devices
    Device,
    Listed,       \* the devices of the tracker, in the order of its rows
    MaxVersion,   \* bound on the changes of the tracker
    None

ASSUME SheetAssumption ==
    /\ Listed \in Seq(Device)
    /\ MaxVersion \in Nat
    /\ None \notin Nat \cup Device \cup Process

VARIABLES
    tracker,      \* the version of the tracker
    sheet,        \* the rows of the cache
    fRetrieve,
    expired,      \* lastRetrieved is more than 15 minutes ago
    pc,           \* what each process does next
    wanted,       \* the device that it asks for
    version,      \* the version that it is reading
    row,          \* the number of rows that it has read
    base,         \* the cache to which it is about to append
    answer,       \* the version that its answer is of
    marked,       \* history: the tracker when the cache was last called out of date
    tainted,      \* history: the cache was being refilled at that time
    least,        \* history: the oldest version with which a process may be answered
    early,        \* history: who skipped the refill while another had reset the flag, but
                  \* had not yet emptied the cache, unless it was emptied before the search
    filler,       \* history: the process that emptied the cache last, if at it
    filled,       \* history: the version of which it has read all
    lost          \* history: an append has undone another one since

cache == <<sheet, fRetrieve, expired>>
histories == <<marked, tainted, least, early, filler, filled, lost>>
local == <<wanted, version, row, base, answer>>
sheetVars == <<tracker, cache, pc, local, histories>>

Version == 0 .. MaxVersion
Row == [device : Device, version : Version]

SheetInit ==
    /\ tracker = 0
    /\ sheet = <<>>
    /\ fRetrieve = FALSE
    /\ expired = TRUE
    /\ pc = [p \in Process |-> "idle"]
    /\ wanted = [p \in Process |-> None]
    /\ version = [p \in Process |-> 0]
    /\ row = [p \in Process |-> 0]
    /\ base = [p \in Process |-> <<>>]
    /\ answer = [p \in Process |-> None]
    /\ marked = 0
    /\ tainted = FALSE
    /\ least = [p \in Process |-> 0]
    /\ early = {}
    /\ filler = None
    /\ filled = None
    /\ lost = FALSE

Goto(p, label) == pc' = [pc EXCEPT ![p] = label]

-----------------------------------------------------------------------------
\* Somebody edits the sheet.
Edit ==
    /\ tracker < MaxVersion
    /\ tracker' = tracker + 1
    /\ UNCHANGED <<cache, pc, local, histories>>

Filling == {p \in Process : pc[p] \in {"fetch", "read", "append"}}

OutOfDate ==
    /\ marked' = tracker
    /\ tainted' = (Filling # {})
    /\ UNCHANGED <<tracker, sheet, pc, local, least, early, filler, filled, lost>>

\* sheetInvalidateCache, when a summary of the devices is asked for.
Invalidate == fRetrieve' = TRUE /\ OutOfDate /\ UNCHANGED expired

Expire == expired' = TRUE /\ OutOfDate /\ UNCHANGED fRetrieve

-----------------------------------------------------------------------------
(* sheetDeviceInfo.                                                         *)

\* What a process no longer needs.
Leave(p) ==
    /\ wanted' = [wanted EXCEPT ![p] = None]
    /\ version' = [version EXCEPT ![p] = 0]
    /\ row' = [row EXCEPT ![p] = 0]
    /\ Goto(p, "idle")

Ask(p, id) ==
    /\ pc[p] = "idle"
    /\ wanted' = [wanted EXCEPT ![p] = id]
    /\ answer' = [answer EXCEPT ![p] = None]
    /\ least' = [least EXCEPT ![p] = IF tainted THEN 0 ELSE marked]
    /\ early' = early \ {p}
    /\ Goto(p, IF expired THEN "flag" ELSE "check")
    /\ UNCHANGED <<tracker, cache, version, row, base, marked, tainted, filler, filled, lost>>

\* The cache is too old.
SetFlag(p) ==
    /\ pc[p] = "flag"
    /\ fRetrieve' = TRUE
    /\ Goto(p, "check")
    /\ UNCHANGED <<tracker, sheet, expired, local, histories>>

\* Those who have reset the flag and not emptied the cache.
Starting == {p \in Process : pc[p] \in {"retrieve", "clear"}}

Check(p) ==
    /\ pc[p] = "check"
    /\ Goto(p, IF fRetrieve THEN "reset" ELSE "search")
    /\ early' = IF ~fRetrieve /\ Starting # {} THEN early \cup {p} ELSE early
    /\ UNCHANGED <<tracker, cache, local, marked, tainted, least, filler, filled, lost>>

ResetFlag(p) ==
    /\ pc[p] = "reset"
    /\ fRetrieve' = FALSE
    /\ Goto(p, "retrieve")
    /\ UNCHANGED <<tracker, sheet, expired, local, histories>>

SetRetrieved(p) ==
    /\ pc[p] = "retrieve"
    /\ expired' = FALSE
    /\ Goto(p, "clear")
    /\ UNCHANGED <<tracker, sheet, fRetrieve, local, histories>>

Cleared(p) ==
    /\ pc[p] = "clear"
    /\ early' = {q \in early : pc[q] # "search"}
    /\ filler' = p /\ filled' = None /\ lost' = FALSE
    /\ Goto(p, "fetch")
    /\ UNCHANGED <<tracker, fRetrieve, expired, local, marked, tainted, least>>

\* Bug: the cache is not emptied.
KeepRows(p) == Cleared(p) /\ UNCHANGED sheet

Clear(p) == Cleared(p) /\ sheet' = <<>>

Fetch(p) ==
    /\ pc[p] = "fetch"
    /\ version' = [version EXCEPT ![p] = tracker]
    /\ row' = [row EXCEPT ![p] = 0]
    /\ Goto(p, "read")
    /\ UNCHANGED <<tracker, cache, wanted, base, answer, histories>>

\* The request fails, or a row cannot be read.
Fail(p) ==
    /\ pc[p] \in {"fetch", "read"}
    /\ Leave(p)
    /\ least' = [least EXCEPT ![p] = 0]
    /\ filler' = (IF filler = p THEN None ELSE filler)
    /\ UNCHANGED <<tracker, cache, base, answer, marked, tainted, early, filled, lost>>

\* No answer ever comes.
Hang(p) ==
    /\ pc[p] = "fetch"
    /\ Goto(p, "hung")
    /\ UNCHANGED <<tracker, cache, local, histories>>

ReadRow(p) ==
    /\ pc[p] = "read"
    /\ row[p] < Len(Listed)
    /\ row' = [row EXCEPT ![p] = @ + 1]
    /\ base' = [base EXCEPT ![p] = sheet]
    /\ Goto(p, "append")
    /\ UNCHANGED <<tracker, cache, wanted, version, answer, histories>>

AppendRow(p) ==
    /\ pc[p] = "append"
    /\ sheet' = Append(base[p], [device |-> Listed[row[p]], version |-> version[p]])
    /\ lost' = (lost \/ sheet \notin {base[p], <<>>})
    /\ base' = [base EXCEPT ![p] = <<>>]
    /\ Goto(p, "read")
    /\ UNCHANGED <<tracker, fRetrieve, expired, wanted, version, row, answer, marked, tainted,
                   least, early, filler, filled>>

\* Bug: the last row is not read.
EndEarly(p) ==
    /\ pc[p] = "read"
    /\ row[p] >= Len(Listed) - 1
    /\ filled' = IF filler = p THEN version[p] ELSE filled
    /\ filler' = IF filler = p THEN None ELSE filler
    /\ Goto(p, "search")
    /\ UNCHANGED <<tracker, cache, local, marked, tainted, least, early, lost>>

EndOfFile(p) ==
    /\ pc[p] = "read"
    /\ row[p] = Len(Listed)
    /\ filled' = IF filler = p THEN version[p] ELSE filled
    /\ filler' = IF filler = p THEN None ELSE filler
    /\ Goto(p, "search")
    /\ UNCHANGED <<tracker, cache, local, marked, tainted, least, early, lost>>

Hits(id) == {i \in DOMAIN sheet : sheet[i].device = id}

\* The first row of the device.
Search(p) ==
    /\ pc[p] = "search"
    /\ \/ /\ Hits(wanted[p]) = {}
          /\ UNCHANGED answer
       \/ \E i \in Hits(wanted[p]) :
           /\ \A j \in Hits(wanted[p]) : i <= j
           /\ answer' = [answer EXCEPT ![p] = sheet[i].version]
    /\ Leave(p)
    /\ UNCHANGED <<tracker, cache, base, histories>>

LookUp(p) ==
    \/ SetFlag(p) \/ Check(p) \/ ResetFlag(p) \/ SetRetrieved(p) \/ Clear(p)
    \/ Fetch(p) \/ Fail(p) \/ Hang(p)
    \/ ReadRow(p) \/ AppendRow(p) \/ EndOfFile(p) \/ Search(p)

SheetNext ==
    \/ Edit \/ Invalidate \/ Expire
    \/ \E p \in Process : LookUp(p) \/ \E id \in Device : Ask(p, id)

SheetSpec == SheetInit /\ [][SheetNext]_sheetVars

-----------------------------------------------------------------------------
SheetTypeOK ==
    /\ tracker \in Version /\ marked \in Version
    /\ sheet \in Seq(Row)
    /\ fRetrieve \in BOOLEAN /\ expired \in BOOLEAN /\ tainted \in BOOLEAN /\ lost \in BOOLEAN
    /\ pc \in [Process -> {"idle", "flag", "check", "reset", "retrieve", "clear", "fetch",
                           "hung", "read", "append", "search"}]
    /\ wanted \in [Process -> Device \cup {None}]
    /\ version \in [Process -> Version] /\ least \in [Process -> Version]
    /\ row \in [Process -> 0 .. Len(Listed)]
    /\ base \in [Process -> Seq(Row)]
    /\ answer \in [Process -> Version \cup {None}]
    /\ early \subseteq Process
    /\ filler \in Process \cup {None}
    /\ filled \in Version \cup {None}

\* Once the cache was called out of date, be it by a Slack command or by its age,
\* nobody who asks from then on gets a serial number that was replaced before, whoever
\* resets the flag, empties, refills and searches the cache at the same time, with two
\* exceptions.  Who finds the flag reset by another that has not come to empty the
\* cache (between sheet.go:66 and :70) may still search the old one.  And a refill that
\* was under way when the cache was called out of date may go on appending old rows to
\* the new cache, or to a copy of the one that was emptied.
NeverStale == \A p \in Process \ early : answer[p] # None => answer[p] >= least[p]

\* When the last process to empty the cache has read the sheet to its end, the
\* cache has all of it, whatever the refills that overlapped have left there and
\* still add, unless two of them appended at one moment.
FilledIsComplete ==
    filled # None /\ ~lost =>
        \A n \in DOMAIN Listed : \E i \in DOMAIN sheet :
            sheet[i] = [device |-> Listed[n], version |-> filled]
=============================================================================
