----------------------------- MODULE ControlFile -----------------------------
(***************************************************************************)
(* How a Slack command restarts the instances: the control file of         *)
(* src/timer.go, whose modification time the monitor changes (slack.go)    *)
(* and every other instance compares once a minute with the time that it   *)
(* took when it started (main.go).                                         *)
(*                                                                         *)
(* A modification time is the number of times that the file was modified:  *)
(* 0 while there is none.  Where os.Stat fails ControlFileTime returns     *)
(* stats.Started, which equals no modification time of the file; since a   *)
(* process compares it with its own only, 0 stands for it as well.         *)
(*                                                                         *)
(* Where a reply goes is kept in a global variable by the handler of the   *)
(* command (inboundWebSlackHandler and sendToSafecastOps in src/slack.go). *)
(* A command is identified with the channel from which it comes; those of  *)
(* an unknown source, which do nothing, are left out.                      *)
(***************************************************************************)
EXTENDS Integers, FiniteSets

CONSTANTS
    Instance, Monitor,
    Timer,        \* the timer1m goroutines of a process (main.go starts two)
    Command,      \* Slack commands
    All,          \* those that are "restart-all"; the others are "restart", or "online"
                  \* and the like, which only have a reply
    SlackOpsNone, \* no channel
    MaxMishaps    \* bound on failures of os.Stat and on crashes

ASSUME ControlFileAssumption ==
    /\ Monitor \in Instance
    /\ All \subseteq Command
    /\ MaxMishaps \in Nat
    /\ SlackOpsNone \notin Command

VARIABLES
    file,      \* the modification time of the control file
    state,     \* "down", "boot" until its time has been taken, then "up"
    request,   \* AllServersSlackRestartRequestTime of each instance
    noticed,   \* the timers of each instance that have found a new time
    pending,   \* the instances whose RandomRestart is waiting
    handler,   \* what inboundWebSlackHandler does next with each command
    source,    \* SlackCommandSource
    told,      \* the channel to which the reply to each command went
    mishaps,
    born,      \* history: the file's time when the process was launched
    base,      \* history: the time that the process took at its start
    met,       \* history: the commands that were handled while each was
    fooled     \* history: instances for which an os.Stat failed since the launch

replies == <<source, told, met>>
vars == <<file, state, request, noticed, pending, handler, replies, mishaps, born, base,
          fooled>>

Started == 0
Others == Instance \ {Monitor}

\* The times that commands can give the file.
CommandTime == 1 .. 2 * Cardinality(Command) + 1

Init ==
    /\ file \in 0 .. 1
    /\ state = [i \in Instance |-> "down"]
    /\ request = [i \in Instance |-> Started]
    /\ noticed = [i \in Instance |-> {}]
    /\ pending = {}
    /\ handler = [c \in Command |-> "none"]
    /\ source = SlackOpsNone
    /\ told = [c \in Command |-> SlackOpsNone]
    /\ met = [c \in Command |-> {}]
    /\ mishaps = 0
    /\ born = [i \in Instance |-> 0]
    /\ base = [i \in Instance |-> 0]
    /\ fooled = {}

\* ControlFileTime without a message returns time.
ControlFileTime(i, time) ==
    \/ /\ time = file
       /\ UNCHANGED <<mishaps, fooled>>
    \/ /\ mishaps < MaxMishaps
       /\ time = Started
       /\ mishaps' = mishaps + 1
       /\ fooled' = fooled \cup {i}

Time == 0 .. file

-----------------------------------------------------------------------------
\* run.sh starts the program.
Launch(i) ==
    /\ state[i] = "down"
    /\ state' = [state EXCEPT ![i] = "boot"]
    /\ born' = [born EXCEPT ![i] = file]
    /\ fooled' = fooled \ {i}
    /\ UNCHANGED <<file, request, noticed, pending, handler, replies, mishaps, base>>

\* Bug: the time is not initialised from the file.
TakeNoTime(i) ==
    /\ state[i] = "boot"
    /\ request' = [request EXCEPT ![i] = Started]
    /\ base' = [base EXCEPT ![i] = Started]
    /\ state' = [state EXCEPT ![i] = "up"]
    /\ UNCHANGED <<file, noticed, pending, handler, replies, mishaps, born, fooled>>

\* After its queries to AWS and DNS the process takes the time of the file.
TakeTime(i) ==
    /\ state[i] = "boot"
    /\ \E time \in Time :
        /\ ControlFileTime(i, time)
        /\ request' = [request EXCEPT ![i] = time]
        /\ base' = [base EXCEPT ![i] = time]
    /\ state' = [state EXCEPT ![i] = "up"]
    /\ UNCHANGED <<file, noticed, pending, handler, replies, born>>

\* ControlFileCheck: the time differs ...
Compare(i, t) ==
    /\ i # Monitor
    /\ state[i] = "up"
    /\ t \notin noticed[i]
    /\ \E time \in Time :
        /\ ControlFileTime(i, time)
        /\ time # request[i]
    /\ noticed' = [noticed EXCEPT ![i] = @ \cup {t}]
    /\ UNCHANGED <<file, state, request, pending, handler, replies, born, base>>

\* Bug: the time is noted, but no restart scheduled.
NoteOnly(i, t) ==
    /\ t \in noticed[i]
    /\ \E time \in Time :
        /\ ControlFileTime(i, time)
        /\ request' = [request EXCEPT ![i] = time]
    /\ noticed' = [noticed EXCEPT ![i] = @ \ {t}]
    /\ UNCHANGED <<file, state, pending, handler, replies, born, base>>

\* ... and is asked for once more, to be noted, before "go RandomRestart()".
Note(i, t) ==
    /\ t \in noticed[i]
    /\ \E time \in Time :
        /\ ControlFileTime(i, time)
        /\ request' = [request EXCEPT ![i] = time]
    /\ pending' = pending \cup {i}
    /\ noticed' = [noticed EXCEPT ![i] = @ \ {t}]
    /\ UNCHANGED <<file, state, handler, replies, born, base>>

-----------------------------------------------------------------------------
\* The process is gone, with its goroutines and the commands it was handling.
Exit(i) ==
    /\ state' = [state EXCEPT ![i] = "down"]
    /\ noticed' = [noticed EXCEPT ![i] = {}]
    /\ pending' = pending \ {i}
    /\ IF i = Monitor
           THEN /\ handler' = [c \in Command |-> IF handler[c] = "none" THEN "none" ELSE "done"]
                /\ source' = SlackOpsNone
                /\ told' = [c \in Command |-> SlackOpsNone]
                /\ met' = [c \in Command |-> {}]
           ELSE UNCHANGED <<handler, replies>>
    /\ UNCHANGED <<file, request, born, base, fooled>>

\* Three to fifteen minutes later.
RandomRestart(i) ==
    /\ i \in pending
    /\ Exit(i)
    /\ UNCHANGED mishaps

Crash(i) ==
    /\ mishaps < MaxMishaps
    /\ state[i] # "down"
    /\ mishaps' = mishaps + 1
    /\ Exit(i)

-----------------------------------------------------------------------------
(* inboundWebSlackHandler.                                                  *)

Handled == {c \in Command : handler[c] \notin {"none", "answered", "done"}}

Goto(c, label) == handler' = [handler EXCEPT ![c] = label]

Finish(c) ==
    /\ Goto(c, "done")
    /\ told' = [told EXCEPT ![c] = SlackOpsNone]
    /\ met' = [met EXCEPT ![c] = {}]

\* The source is reset ...
Receive(c) ==
    /\ state[Monitor] = "up"
    /\ handler[c] = "none"
    /\ source' = SlackOpsNone
    /\ met' = [d \in Command |-> IF d = c THEN Handled
                                  ELSE IF d \in Handled THEN met[d] \cup {c} ELSE met[d]]
    /\ Goto(c, "identify")
    /\ UNCHANGED <<file, state, request, noticed, pending, told, mishaps, born, base, fooled>>

\* Bug: the index of the token is off by one.
IdentifyNext(c) ==
    /\ handler[c] = "identify"
    /\ source' \in Command \ {c}
    /\ Goto(c, "check")
    /\ UNCHANGED <<file, state, request, noticed, pending, told, met, mishaps, born, base,
                   fooled>>

\* ... and set to that of the token.
Identify(c) ==
    /\ handler[c] = "identify"
    /\ source' = c
    /\ Goto(c, "check")
    /\ UNCHANGED <<file, state, request, noticed, pending, told, met, mishaps, born, base,
                   fooled>>

\* A command of no source is not obeyed.
Check(c) ==
    /\ handler[c] = "check"
    /\ UNCHANGED <<file, state, request, noticed, pending, source, mishaps, born, base, fooled>>
    /\ IF source = SlackOpsNone THEN Finish(c) ELSE Goto(c, "reply") /\ UNCHANGED <<told, met>>

\* sendToSafecastOps replies if there is a source: for a summary when it is complete,
\* in a goroutine of its own.
TestSource(c) ==
    /\ handler[c] = "reply"
    /\ UNCHANGED <<file, state, request, noticed, pending, source, mishaps, born, base, fooled>>
    /\ \/ source # SlackOpsNone /\ Goto(c, "send") /\ UNCHANGED <<told, met>>
       \/ source = SlackOpsNone /\ Goto(c, "open") /\ UNCHANGED <<told, met>>
       \/ source = SlackOpsNone /\ c \notin All /\ Finish(c)

\* The source is read once more, as an index: a handler that finds none panics, and is
\* dropped by the server.
Reply(c) ==
    /\ handler[c] = "send"
    /\ IF source = SlackOpsNone
           THEN Finish(c)
           ELSE /\ told' = [told EXCEPT ![c] = source]
                /\ Goto(c, "open") \/ (c \notin All /\ Goto(c, "answered"))
                /\ UNCHANGED met
    /\ UNCHANGED <<file, state, request, noticed, pending, source, mishaps, born, base, fooled>>

\* Nobody recovers a goroutine that panics: the monitor exits.
ReplyPanics(c) ==
    /\ handler[c] = "send"
    /\ source = SlackOpsNone
    /\ c \notin All
    /\ Exit(Monitor)
    /\ UNCHANGED mishaps

\* ControlFileTime with a message truncates the file ...
Open(c) ==
    /\ handler[c] = "open"
    /\ file' = file + 1
    /\ Goto(c, "write")
    /\ UNCHANGED <<state, request, noticed, pending, replies, mishaps, born, base, fooled>>

\* ... and writes it, so that its time changes again.
Write(c) ==
    /\ handler[c] = "write"
    /\ file' = file + 1
    /\ IF c \in All THEN Goto(c, "exit") /\ UNCHANGED <<told, met>> ELSE Finish(c)
    /\ UNCHANGED <<state, request, noticed, pending, source, mishaps, born, base, fooled>>

\* "restart-all" ends with the monitor itself.
ExitMonitor(c) ==
    /\ handler[c] = "exit"
    /\ Exit(Monitor)
    /\ UNCHANGED mishaps

SlackHandler(c) ==
    \/ Receive(c) \/ Identify(c) \/ Check(c) \/ TestSource(c) \/ Reply(c) \/ ReplyPanics(c)
    \/ Open(c) \/ Write(c) \/ ExitMonitor(c)

Next ==
    \/ \E i \in Instance : Launch(i) \/ TakeTime(i) \/ RandomRestart(i) \/ Crash(i)
    \/ \E i \in Instance, t \in Timer : Compare(i, t) \/ Note(i, t)
    \/ \E c \in Command : SlackHandler(c)

Spec == Init /\ [][Next]_vars

\* run.sh loops forever, timers keep ticking, and a goroutine that waits goes on.
FairSpec ==
    /\ Spec
    /\ \A i \in Instance :
        WF_vars(Launch(i)) /\ WF_vars(TakeTime(i)) /\ WF_vars(RandomRestart(i))
    /\ \A i \in Instance, t \in Timer : WF_vars(Compare(i, t)) /\ WF_vars(Note(i, t))
    /\ \A c \in Command : WF_vars(~(handler[c] = "none") /\ SlackHandler(c))

-----------------------------------------------------------------------------
TypeOK ==
    /\ file \in Nat /\ mishaps \in 0 .. MaxMishaps
    /\ state \in [Instance -> {"down", "boot", "up"}]
    /\ request \in [Instance -> Nat]
    /\ noticed \in [Instance -> SUBSET Timer]
    /\ pending \subseteq Others
    /\ handler \in [Command -> {"none", "identify", "check", "reply", "send", "open", "write",
                               "exit", "answered", "done"}]
    /\ source \in Command \cup {SlackOpsNone}
    /\ told \in [Command -> Command \cup {SlackOpsNone}]
    /\ met \in [Command -> SUBSET Command]
    /\ born \in [Instance -> Nat] /\ base \in [Instance -> Nat]
    /\ fooled \subseteq Instance

\* An instance is about to restart itself only if the control file was touched
\* since its process began, or if an os.Stat has failed for it: ControlFileTime
\* then returns another time, not "a stable time" (timer.go:150).
OnlyOnCommand == \A i \in pending : born[i] < file \/ i \in fooled

\* "Restart this instance if instructed to do so" (timer.go:17): no process that
\* took its time before a command outlives the command for ever, whichever of
\* its timers notices first and whichever calls of os.Stat fail.
CommandsObeyed ==
    \A n \in CommandTime, i \in Others : file = n ~> base[i] >= n

\* A reply goes to the channel of the command, or of one that was handled at the
\* same time: never to that of a command that was over, though the source of that
\* stays behind.  And a command that is handled alone is answered, before it is obeyed.
RepliesToAskers ==
    \A c \in Command :
        /\ told[c] \in {SlackOpsNone, c} \cup met[c]
        /\ handler[c] \in {"open", "write", "exit", "answered"} /\ met[c] = {} => told[c] = c

\* No command leads to a loop of restarts: once commands, failures and crashes
\* have ceased, all instances are up for good.
Settles == <>[](pending = {} /\ \A i \in Instance : state[i] = "up")
=============================================================================
