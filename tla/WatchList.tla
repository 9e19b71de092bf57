------------------------------ MODULE WatchList ------------------------------
(***************************************************************************)
(* The lists of devices, gateways and servers that the monitor instance    *)
(* keeps in memory to tell Slack who has gone silent and who is back:      *)
(* src/device.go, src/gateway.go, src/server.go and the timers of          *)
(* src/timer.go.  The three files hold the same algorithm.                 *)
(*                                                                         *)
(* Gateways and servers are backed by files: any instance writes their     *)
(* status file, and a sweep first tracks the modification time of every    *)
(* file.  Devices are tracked by a goroutine of the instance that received *)
(* the message.  None of the lists is protected by a lock.  A search takes *)
(* a step for each element, and a Slack command that sorts a list moves    *)
(* its entries in many steps, under whoever searches it or is about to    *)
(* write to it.  Such an overlap, and two writes of one entry at a time,   *)
(* are noted as a clash.                                                   *)
(*                                                                         *)
(* The lists share nothing: a behaviour is about one of them.              *)
(*                                                                         *)
(* Times are ages, saturated just above Limit; a tick is longer than a     *)
(* sweep, and timer5m sweeps in every tick, as 5 minutes are much less     *)
(* than the 10 minutes, 90 minutes or 24 hours that Limit stands for.      *)
(***************************************************************************)
EXTENDS Integers, Sequences, FiniteSets

CONSTANTS
    Key,          \* device, gateway or server ids
    MaxLimit,     \* bound on ...WarningAfterMinutes, in ticks
    Process,      \* timer5m, handlers of Slack commands, trackDevice goroutines
    List,         \* the lists: how each is kept, and by whom
    MayRestart    \* whether the monitor process may restart

ASSUME WatchListAssumption ==
    /\ Key # {}
    /\ MaxLimit \in Nat
    /\ MayRestart \in BOOLEAN
    /\ \A l \in List :
          /\ l.fileBacked \in BOOLEAN    \* gateways and servers, not devices
          /\ l.limit \in 1 .. MaxLimit
          /\ l.key \subseteq Key
          /\ l.sweeper \cup l.goroutine \subseteq Process
          /\ l.sweeper \cap l.goroutine = {}
          /\ l.sorter \subseteq l.sweeper \* Slack commands sort what they have swept

Never == -1
Age == 0 .. MaxLimit + 1
Older(a) == IF a = Never \/ a = MaxLimit + 1 THEN a ELSE a + 1

Entry == [key : Key, seen : Age, everRecentlySeen : BOOLEAN, notifiedAsUnseen : BOOLEAN]

VARIABLES
    kind,          \* the list that the behaviour is about
    contact,       \* age of the last contact of each key with any instance
    list,          \* seenDevices, seenGateways or seenServers
    pc, todo, key, when, idx,  \* what each process is doing, and to which entry
    swept,         \* the timer has swept in this tick
                   \* (of lists that are backed by files)
    warnings,      \* history: warnings of a silence since the last contact, up to 2
    told,          \* history: keys for which the last word in Slack is a warning
    contacted,     \* history: keys heard of since each process started its work
    forgotten,     \* history: keys whose silence a restart of the monitor hides
    clashed        \* history: two processes disturbed each other in a list

history == <<warnings, told, contacted, forgotten>>

vars == <<kind, clashed, contact, list, pc, todo, key, when, idx, swept, history>>

AnyKey == CHOOSE k \in Key : TRUE

Init ==
    /\ kind \in List
    /\ clashed = FALSE
    /\ contact = [k \in Key |-> Never]
    /\ list = <<>>
    /\ pc = [p \in Process |-> "idle"]
    /\ todo = [p \in Process |-> {}]
    /\ key = [p \in Process |-> AnyKey]
    /\ when = [p \in Process |-> 0]
    /\ idx = [p \in Process |-> 0]
    /\ swept = FALSE
    /\ warnings = [k \in Key |-> 0]
    /\ told = {}
    /\ contacted = [p \in Process |-> {}]
    /\ forgotten = {}

\* The process is done with an entry.
Leave(p) ==
    /\ key' = [key EXCEPT ![p] = AnyKey]
    /\ when' = [when EXCEPT ![p] = 0]
    /\ idx' = [idx EXCEPT ![p] = 0]

Goto(p, label) == pc' = [pc EXCEPT ![p] = label]
Idle == \A p \in Process : pc[p] = "idle"

Tick ==
    /\ Idle
    /\ swept
    /\ contact' = [k \in Key |-> Older(contact[k])]
    /\ list' = [i \in DOMAIN list |-> [list[i] EXCEPT !.seen = Older(@)]]
    /\ swept' = FALSE
    /\ UNCHANGED <<kind, clashed, pc, todo, key, when, idx, history>>

Heard(k) ==
    /\ contact' = [contact EXCEPT ![k] = 0]
    /\ contacted' = [p \in Process |-> IF pc[p] = "idle" \/ ~kind.fileBacked
                                           THEN {} ELSE contacted[p] \cup {k}]
    /\ warnings' = [warnings EXCEPT ![k] = 0]
    /\ forgotten' = forgotten \ {k}

\* Some instance writes the status file, or receives the device's message and
\* is not the monitor.
Contact(k) ==
    /\ Heard(k)
    /\ UNCHANGED <<kind, clashed, list, pc, todo, key, when, idx, swept, told>>

\* The monitor itself receives the message: WriteToLogs spawns trackDevice.
Receive(p, k) ==
    /\ pc[p] = "idle"
    /\ Heard(k)
    /\ todo' = [todo EXCEPT ![p] = {k}]
    /\ Goto(p, "search")
    /\ UNCHANGED <<kind, clashed, list, key, when, idx, swept, told>>

-----------------------------------------------------------------------------
\* Bug: a file that cannot be examined is tracked all the same.
StartUnchecked(p) ==
    /\ pc[p] = "idle"
    /\ todo' = [todo EXCEPT ![p] = kind.key]
    /\ Goto(p, "search")
    /\ UNCHANGED <<kind, clashed, contact, list, key, when, idx, swept, history>>

\* A sweep of gateways or servers goes through the status directory first.
Start(p) ==
    /\ pc[p] = "idle"
    /\ todo' = [todo EXCEPT ![p] = {k \in kind.key : kind.fileBacked /\ contact[k] # Never}]
    /\ Goto(p, "search")
    /\ UNCHANGED <<kind, clashed, contact, list, key, when, idx, swept, history>>

\* Processes that have found where an entry is, or is not, or that it has expired,
\* and are about to write accordingly.
Holding == {p \in Process : pc[p] \in {"update", "seen", "append", "warn"}}
About(p) == IF pc[p] = "append" THEN key[p] ELSE list[idx[p]].key

\* Processes to which the place of an entry matters, and those that move entries.
Placing == {p \in Process : pc[p] \in {"look", "update", "seen", "warn", "sort"}}
Sorting == {p \in Process : pc[p] = "sort"}

\* What a process does to the list meets what others are doing: it reads an element,
\* writes the entry of a key, or starts to move the entries.
Reads(p) == clashed' = (clashed \/ Sorting \ {p} # {})
Writes(p, k) ==
    clashed' = (clashed \/ Sorting \ {p} # {} \/ \E q \in Holding \ {p} : About(q) = k)
Moves(p) == clashed' = (clashed \/ Placing \ {p} # {})

Hits(k) == {i \in DOMAIN list : list[i].key = k}

\* Bug: the time is not that of the entry.
SearchAnyTime(p) ==
    /\ pc[p] = "search"
    /\ \E k \in todo[p] :
        /\ todo' = [todo EXCEPT ![p] = @ \ {k}]
        /\ key' = [key EXCEPT ![p] = k]
        /\ when' = [when EXCEPT ![p] = 0]
    /\ idx' = [idx EXCEPT ![p] = 1]
    /\ Goto(p, "look")
    /\ UNCHANGED <<kind, clashed, contact, list, swept, history>>

\* trackX: take a time to track and look for its entry.
Search(p) ==
    /\ pc[p] = "search"
    /\ \E k \in todo[p] :
        /\ todo' = [todo EXCEPT ![p] = @ \ {k}]
        /\ key' = [key EXCEPT ![p] = k]
        /\ when' = [when EXCEPT ![p] = contact[k]]
    /\ idx' = [idx EXCEPT ![p] = 1]
    /\ Goto(p, "look")
    /\ UNCHANGED <<kind, clashed, contact, list, swept, history>>

\* Bug: the last element is not looked at.
LookShort(p) ==
    /\ pc[p] = "look"
    /\ \/ idx[p] >= Len(list) /\ Goto(p, "append") /\ UNCHANGED idx
       \/ /\ idx[p] < Len(list)
          /\ IF list[idx[p]].key = key[p]
                 THEN Goto(p, "update") /\ UNCHANGED idx
                 ELSE idx' = [idx EXCEPT ![p] = @ + 1] /\ UNCHANGED pc
    /\ Reads(p)
    /\ UNCHANGED <<kind, contact, list, todo, key, when, swept, history>>

\* One turn of the loop, which reads the length of the list anew.
Look(p) ==
    /\ pc[p] = "look"
    /\ \/ idx[p] > Len(list) /\ Goto(p, "append") /\ UNCHANGED idx
       \/ /\ idx[p] <= Len(list)
          /\ IF list[idx[p]].key = key[p]
                 THEN Goto(p, "update") /\ UNCHANGED idx
                 ELSE idx' = [idx EXCEPT ![p] = @ + 1] /\ UNCHANGED pc
    /\ Reads(p)
    /\ UNCHANGED <<kind, contact, list, todo, key, when, swept, history>>

\* The entry is written through its index, in two steps.
Update(p) ==
    LET i == idx[p]
    IN /\ pc[p] = "update"
       /\ IF when[p] < kind.limit
              THEN /\ list' = [list EXCEPT ![i].everRecentlySeen = TRUE,
                                           ![i].notifiedAsUnseen = FALSE]
                   \* "has returned after ..."
                   /\ told' = IF list[i].notifiedAsUnseen THEN told \ {list[i].key} ELSE told
              ELSE UNCHANGED <<list, told>>
       /\ Goto(p, "seen")
       /\ Writes(p, list[i].key)
       /\ UNCHANGED <<kind, contact, todo, key, when, idx, swept, warnings, contacted, forgotten>>

\* Bug: the comparison of the two times is the wrong way round.
SeenReversed(p) ==
    /\ pc[p] = "seen"
    /\ list' = [list EXCEPT ![idx[p]].seen = IF when[p] > @ THEN when[p] ELSE @]
    /\ Leave(p)
    /\ Goto(p, "search")
    /\ Writes(p, list[idx[p]].key)
    /\ UNCHANGED <<kind, contact, todo, swept, history>>

Seen(p) ==
    /\ pc[p] = "seen"
    /\ list' = [list EXCEPT ![idx[p]].seen = IF when[p] < @ THEN when[p] ELSE @]
    /\ Leave(p)
    /\ Goto(p, "search")
    /\ Writes(p, list[idx[p]].key)
    /\ UNCHANGED <<kind, contact, todo, swept, history>>

\* Bug: a new entry does not count as recently seen.
AddUnseen(p) ==
    /\ pc[p] = "append"
    /\ list' = Append(list, [key |-> key[p], seen |-> when[p],
                             everRecentlySeen |-> FALSE, notifiedAsUnseen |-> FALSE])
    /\ Leave(p)
    /\ Goto(p, "search")
    /\ Writes(p, key[p])
    /\ UNCHANGED <<kind, contact, todo, swept, history>>

\* For a gateway the label is first read from its status file.
Add(p) ==
    /\ pc[p] = "append"
    /\ list' = Append(list, [key |-> key[p], seen |-> when[p],
                             everRecentlySeen |-> when[p] < kind.limit,
                             notifiedAsUnseen |-> FALSE])
    /\ Leave(p)
    /\ Goto(p, "search")
    /\ Writes(p, key[p])
    /\ UNCHANGED <<kind, contact, todo, swept, history>>

\* Of two appends at one moment only one takes effect.
LoseAppend(p) ==
    /\ pc[p] = "append"
    /\ \E q \in Process \ {p} : pc[q] = "append"
    /\ clashed' = TRUE
    /\ Leave(p)
    /\ Goto(p, "search")
    /\ UNCHANGED <<kind, contact, list, todo, swept, history>>

\* Everything is tracked: a goroutine ends, a sweep turns to the list.
Tracked(p) ==
    /\ pc[p] = "search"
    /\ todo[p] = {}
    /\ IF p \in kind.goroutine
           THEN Goto(p, "idle") /\ UNCHANGED idx
           ELSE Goto(p, "sweep") /\ idx' = [idx EXCEPT ![p] = 1]
    /\ UNCHANGED <<kind, clashed, contact, list, todo, key, when, swept, history>>

-----------------------------------------------------------------------------
Expired(e) == ~e.notifiedAsUnseen /\ e.everRecentlySeen /\ e.seen > kind.limit

Check(p) ==
    /\ pc[p] = "sweep"
    /\ idx[p] <= Len(list)
    /\ IF Expired(list[idx[p]])
           THEN Goto(p, "warn") /\ UNCHANGED idx
           ELSE idx' = [idx EXCEPT ![p] = @ + 1] /\ UNCHANGED pc
    /\ Reads(p)
    /\ UNCHANGED <<kind, contact, list, todo, key, when, swept, history>>

\* "hasn't been seen for ...".  A warning about something that came back during
\* the sweep is about its earlier silence, and not counted for the next.
SendWarning(p, k) ==
    IF kind.fileBacked
        THEN /\ warnings' = [warnings EXCEPT ![k] = IF @ = 2 \/ k \in contacted[p]
                                                       THEN @ ELSE @ + 1]
             /\ told' = told \cup {k}
        ELSE UNCHANGED <<warnings, told>>

\* Bug: the entry is not marked as notified.
WarnUnmarked(p) ==
    /\ pc[p] = "warn"
    /\ SendWarning(p, list[idx[p]].key)
    /\ idx' = [idx EXCEPT ![p] = @ + 1]
    /\ Goto(p, "sweep")
    /\ Writes(p, list[idx[p]].key)
    /\ UNCHANGED <<kind, contact, list, todo, key, when, swept, contacted, forgotten>>

Warn(p) ==
    /\ pc[p] = "warn"
    /\ list' = [list EXCEPT ![idx[p]].notifiedAsUnseen = TRUE]
    /\ SendWarning(p, list[idx[p]].key)
    /\ idx' = [idx EXCEPT ![p] = @ + 1]
    /\ Goto(p, "sweep")
    /\ Writes(p, list[idx[p]].key)
    /\ UNCHANGED <<kind, contact, todo, key, when, swept, contacted, forgotten>>

\* The sweep of the timer is over.
Finish(p) ==
    /\ pc[p] = "sweep"
    /\ idx[p] > Len(list)
    /\ p \notin kind.sorter
    /\ swept' = TRUE
    /\ contacted' = [contacted EXCEPT ![p] = {}]
    /\ Leave(p)
    /\ Goto(p, "idle")
    /\ UNCHANGED <<kind, clashed, contact, list, todo, warnings, told, forgotten>>

\* The summary for a Slack command sorts the list itself: the "sorted copy" shares
\* the slice's array.
StartSort(p) ==
    /\ pc[p] = "sweep"
    /\ idx[p] > Len(list)
    /\ p \in kind.sorter
    /\ Moves(p)
    /\ Leave(p)
    /\ Goto(p, "sort")
    /\ UNCHANGED <<kind, contact, list, todo, swept, history>>

\* sort.Sort exchanges one pair after another: any, as the algorithm is not modelled.
\* An exchange is two writes; whoever might see the first alone reads or writes the
\* list while another sorts it.
Swap(p) ==
    /\ pc[p] = "sort"
    /\ \E i, j \in DOMAIN list :
        /\ i < j
        /\ list' = [list EXCEPT ![i] = list[j], ![j] = list[i]]
    /\ UNCHANGED <<kind, clashed, contact, pc, todo, key, when, idx, swept, history>>

EndSort(p) ==
    /\ pc[p] = "sort"
    /\ contacted' = [contacted EXCEPT ![p] = {}]
    /\ Goto(p, "idle")
    /\ UNCHANGED <<kind, clashed, contact, list, todo, key, when, idx, swept, warnings,
                   told, forgotten>>

\* The monitor process exits and is started again with empty lists.  By its next
\* sweep a contact Limit - 1 ticks ago may be too old to count as recent.
Restart ==
    /\ MayRestart
    /\ list' = <<>>
    /\ pc' = [p \in Process |-> "idle"]
    /\ todo' = [p \in Process |-> {}]
    /\ key' = [p \in Process |-> AnyKey]
    /\ when' = [p \in Process |-> 0]
    /\ idx' = [p \in Process |-> 0]
    /\ forgotten' = forgotten \cup {k \in Key : kind.fileBacked /\ contact[k] >= kind.limit - 1}
    /\ contacted' = [p \in Process |-> {}]
    /\ UNCHANGED <<kind, clashed, contact, swept, warnings, told>>

-----------------------------------------------------------------------------
Track(p) ==
    Search(p) \/ Look(p) \/ Update(p) \/ Seen(p) \/ Add(p) \/ LoseAppend(p) \/ Tracked(p)
Sort(p) == StartSort(p) \/ Swap(p) \/ EndSort(p)
Sweep(p) == Start(p) \/ Track(p) \/ Check(p) \/ Warn(p) \/ Finish(p) \/ Sort(p)

Next ==
    \/ Tick
    \/ Restart
    \/ \E k \in kind.key : Contact(k)
    \/ \E p \in kind.sweeper : Sweep(p)
    \/ \E p \in kind.goroutine : Track(p) \/ \E k \in kind.key : Receive(p, k)

Spec == Init /\ [][Next]_vars

\* Time passes, timer5m keeps sweeping, and what has been started goes on.
Runs(p) ==
    \/ p \in kind.goroutine /\ Track(p)
    \/ p \in kind.sweeper /\ Sweep(p) /\ (pc[p] = "idle" => p \notin kind.sorter)

FairSpec == Spec /\ SF_vars(Tick) /\ \A p \in Process : WF_vars(Runs(p))

-----------------------------------------------------------------------------
TypeOK ==
    /\ kind \in List
    /\ contact \in [Key -> Age \cup {Never}]
    /\ list \in Seq(Entry)
    /\ pc \in [Process -> {"idle", "search", "look", "update", "seen", "append", "sweep",
                            "warn", "sort"}]
    /\ todo \in [Process -> SUBSET Key]
    /\ key \in [Process -> Key]
    /\ when \in [Process -> Age]
    /\ idx \in [Process -> Nat]
    /\ swept \in BOOLEAN
    /\ warnings \in [Key -> 0 .. 2]
    /\ told \subseteq Key
    /\ contacted \in [Process -> SUBSET Key]
    /\ forgotten \subseteq Key
    /\ clashed \in BOOLEAN

\* Searching and appending, by sweeps and goroutines in any order, never lists a
\* key twice, which would double every later warning and return.  What makes it so is
\* that two processes find a key missing and both append it, or that a Slack command
\* sorts the list while another process searches it and so misses an entry.
NoDuplicates ==
    clashed \/ \A i, j \in DOMAIN list : list[i].key = list[j].key => i = j

\* An entry never looks more recent than its device, gateway or server is, which
\* would hide an outage.  The entry is written through an index: only a Slack command
\* that sorts the list during the search, or between it and the write, makes the time
\* of one entry that of another.
NeverTooRecent ==
    clashed \/ \A i \in DOMAIN list : list[i].seen >= contact[list[i].key]

\* "Notify Slack once and only once when a device has expired" (device.go:105,
\* gateway.go:144, server.go:138): one silence of a gateway or a server is never
\* warned of twice, not even by a monitor that has been restarted in the middle
\* of it, nor by a timer and a Slack command, unless both find it in one moment or the
\* list was sorted while another process searched it or wrote to it.
WarnedOnce == kind.fileBacked /\ ~clashed => \A k \in Key : warnings[k] <= 1

\* A warning says that something has not been seen for longer than the limit:
\* then no instance had contact with the gateway or server for so long, unless it
\* came back during that very sweep, or the list once held two entries of it or mixed
\* entries up, as a sort that overlaps a search or a write can make it.  (Of a device
\* the monitor only knows what it receives itself, so its warnings may well be false.)
NoFalseAlarm ==
    [][kind.fileBacked /\ ~clashed =>
          \A k \in Key : warnings'[k] > warnings[k] => contact[k] > kind.limit]_vars

\* A gateway or server that was in contact and then stays silent for good is
\* reported, unless the monitor is restarted when the silence has already reached
\* the limit, or is about to, and whatever other restarts there are; and unless
\* processes clash in the list.
EveryOutageReported ==
    \A k \in Key :
        (<>[](kind.fileBacked /\ ~clashed /\ contact[k] > kind.limit /\ k \notin forgotten))
            => <>[](k \in told)
=============================================================================
