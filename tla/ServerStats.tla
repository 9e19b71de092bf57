----------------------------- MODULE ServerStats -----------------------------
(***************************************************************************)
(* The counters of a server instance and the status file that accumulates  *)
(* them: WriteServerStatus, ReadServerStatus and SummarizeStatsDelta of    *)
(* src/sstatus.go, the timers of src/timer.go and main.go that call them,  *)
(* and the handlers that count what they do.                               *)
(*                                                                         *)
(* One counter stands for each of the additive ones, which many goroutines *)
(* count with ++ on a shared variable.  A writer reads the file, adds the  *)
(* counter to what it finds, resets the counter and writes the file.       *)
(***************************************************************************)
EXTENDS Integers

CONSTANTS
    Writer,      \* timer12h and the two timer1m goroutines
    Handler,     \* goroutines that count
    OpensFail, MayCrash,
    MaxEvents,   \* bound on what is counted
    Missing, Truncated   \* no file, and one that cannot be parsed

ASSUME ServerStatsAssumption ==
    /\ MaxEvents \in Nat
    /\ Missing \notin Nat /\ Truncated \notin Nat
    /\ OpensFail \in BOOLEAN /\ MayCrash \in BOOLEAN

VARIABLES
    count,       \* stats.Count of the running process
    statusFile,  \* the count in the status file
    pc,          \* what each writer does next
    prev, value, \* its prevCount, and what it is about to write
    loaded,      \* the value a handler has loaded, or -1
    events,      \* history: what has been counted, all processes together
    last,        \* history: the last count written
    alone,       \* history: writers that nobody else's update of the file overlaps
    inflated     \* history: something has been counted again

statsVars == <<count, statusFile, pc, prev, value, loaded, events, last, alone, inflated>>

NotLoaded == -1

StatsInit ==
    /\ count = 0
    /\ events = 0
    /\ statusFile \in {0, Missing}
    /\ pc = [w \in Writer |-> "sleep"]
    /\ prev = [w \in Writer |-> 0]
    /\ value = [w \in Writer |-> 0]
    /\ loaded = [h \in Handler |-> NotLoaded]
    /\ last = 0
    /\ alone = {}
    /\ inflated = FALSE

GoOn(w, label) == pc' = [pc EXCEPT ![w] = label]

-----------------------------------------------------------------------------
\* stats.Count.X++ is a load and a store.
Load(h) ==
    /\ loaded[h] = NotLoaded
    /\ events < MaxEvents
    /\ loaded' = [loaded EXCEPT ![h] = count]
    /\ events' = events + 1
    /\ UNCHANGED <<count, statusFile, pc, prev, value, last, alone, inflated>>

Store(h) ==
    /\ loaded[h] # NotLoaded
    /\ count' = loaded[h] + 1
    /\ loaded' = [loaded EXCEPT ![h] = NotLoaded]
    /\ UNCHANGED <<statusFile, pc, prev, value, events, last, alone, inflated>>

-----------------------------------------------------------------------------
Overlap(w) ==
    alone' = IF statusFile # Truncated /\ \A u \in Writer : pc[u] = "sleep"
                 THEN {w} ELSE {}

\* Bug: the prior values are not read.
ReadNothing(w) ==
    /\ pc[w] = "sleep"
    /\ prev' = [prev EXCEPT ![w] = 0]
    /\ Overlap(w)
    /\ GoOn(w, "copy")
    /\ UNCHANGED <<count, statusFile, value, loaded, events, last, inflated>>

\* A file that is missing or corrupt is taken to hold the present counters.
Read(w) ==
    /\ pc[w] = "sleep"
    /\ prev' = [prev EXCEPT ![w] = IF statusFile \in {Missing, Truncated} THEN count
                                    ELSE statusFile]
    /\ inflated' = (inflated \/ (statusFile \in {Missing, Truncated} /\ count > 0))
    /\ Overlap(w)
    /\ GoOn(w, "copy")
    /\ UNCHANGED <<count, statusFile, value, loaded, events, last>>

Copy(w) ==
    /\ pc[w] = "copy"
    /\ value' = [value EXCEPT ![w] = count + prev[w]]
    /\ GoOn(w, "reset")
    /\ UNCHANGED <<count, statusFile, prev, loaded, events, last, alone, inflated>>

\* Bug: the counter goes on from where it is.
ResetNothing(w) ==
    /\ pc[w] = "reset"
    /\ GoOn(w, "open")
    /\ UNCHANGED <<count, statusFile, prev, value, loaded, events, last, alone, inflated>>

Reset(w) ==
    /\ pc[w] = "reset"
    /\ count' = 0
    /\ inflated' = (inflated \/ \E h \in Handler : loaded[h] > 0)
    /\ GoOn(w, "open")
    /\ UNCHANGED <<statusFile, prev, value, loaded, events, last, alone>>

OpenStatus(w) ==
    /\ pc[w] = "open"
    /\ statusFile' = Truncated
    /\ GoOn(w, "write")
    /\ UNCHANGED <<count, prev, value, loaded, events, last, alone, inflated>>

\* What has been counted since the last write is lost.
OpenFails(w) ==
    /\ OpensFail
    /\ pc[w] = "open"
    /\ GoOn(w, "sleep")
    /\ UNCHANGED <<count, statusFile, prev, value, loaded, events, last, alone, inflated>>

WriteStatus(w) ==
    /\ pc[w] = "write"
    /\ statusFile' = value[w]
    /\ last' = value[w]
    /\ GoOn(w, "sleep")
    /\ UNCHANGED <<count, prev, value, loaded, events, alone, inflated>>

\* The error is ignored.  The file stays as it is, or is left unreadable: with a part of
\* what was to be written, or with the end of something longer that another has written.
WriteFails(w) ==
    /\ pc[w] = "write"
    /\ statusFile' \in {statusFile, Truncated}
    /\ GoOn(w, "sleep")
    /\ UNCHANGED <<count, prev, value, loaded, events, last, alone, inflated>>

\* The process exits, perhaps while it writes, and run.sh starts it again.
Restart ==
    /\ MayCrash
    /\ count' = 0
    /\ pc' = [w \in Writer |-> "sleep"]
    /\ loaded' = [h \in Handler |-> NotLoaded]
    /\ UNCHANGED <<statusFile, prev, value, events, last, alone, inflated>>

WriteServerStatus(w) ==
    \/ Read(w) \/ Copy(w) \/ Reset(w)
    \/ OpenStatus(w) \/ OpenFails(w) \/ WriteStatus(w) \/ WriteFails(w)

StatsNext ==
    \/ \E h \in Handler : Load(h) \/ Store(h)
    \/ \E w \in Writer : WriteServerStatus(w)
    \/ Restart

StatsSpec == StatsInit /\ [][StatsNext]_statsVars

-----------------------------------------------------------------------------
WriterLabel == {"sleep", "copy", "reset", "open", "write"}

StatsTypeOK ==
    /\ count \in Nat /\ statusFile \in Nat \cup {Missing, Truncated}
    /\ pc \in [Writer -> WriterLabel]
    /\ prev \in [Writer -> Nat] /\ value \in [Writer -> Nat]
    /\ loaded \in [Handler -> Nat \cup {NotLoaded}]
    /\ events \in 0 .. MaxEvents /\ last \in Nat
    /\ alone \subseteq Writer /\ inflated \in BOOLEAN

\* "For certain fields, be additive to the prior values" (sstatus.go:79): a
\* writer that the others leave alone, and that finds the file intact, never
\* writes less than what was there, so that SummarizeStatsDelta does not wrap
\* around below zero; whatever other writers, crashes and lost counts came before.
AdditiveToPrior ==
    [][\A w \in alone : WriteStatus(w) => statusFile' >= last]_statsVars

\* "a running total of server stats" (sstatus.go:124): whichever writers overlap
\* and wherever a process is killed, the total counts nothing twice, except where
\* the counter is reset in the middle of a ++, or where ReadServerStatus takes the
\* counters for the prior values, as there are none that can be read.
RunningTotal == ~inflated => last <= events
=============================================================================
