----------------------------- MODULE ServerProofs -----------------------------
(***************************************************************************)
(* What is proved of a server instance and the files it shares.            *)
(*                                                                         *)
(* ControlFile: restarts and replies, for any number of instances, timers, *)
(* commands, crashes and failures of os.Stat.                              *)
(*                                                                         *)
(* ServerStats: the counters, for any number of writers, handlers and      *)
(* events; what a ++ is in the middle of, and what a writer is in the      *)
(* middle of, has to be counted along with the counter and the file.       *)
(***************************************************************************)
EXTENDS ControlFile, ServerStats, FiniteSetTheorems, TLAPS

\* Only a process that is up compares times, but not the monitor, and nothing of a
\* process outlives it.
Idle ==
    /\ noticed[Monitor] = {}
    /\ \A i \in Instance : state[i] # "up" => i \notin pending /\ noticed[i] = {}

\* The times that a process knows are those of the file since it was launched,
\* unless it was told the time of its start instead.
Known ==
    \A i \in Instance :
        /\ born[i] <= file
        /\ state[i] = "up" /\ i \notin fooled => born[i] <= request[i] /\ request[i] <= file

\* Who has noticed a new time has it from a modification or a failure.
Cause ==
    \A i \in Instance : i \in pending \/ noticed[i] # {} => born[i] < file \/ i \in fooled

RestartInvariant == TypeOK /\ Idle /\ Known /\ Cause

\* Commands that are handled at one time have met, and the source is one of them.
Meeting ==
    \A c \in Handled :
        /\ \A d \in Handled : d # c => d \in met[c]
        /\ source \in {SlackOpsNone, c} \cup met[c]
        /\ met[c] = {} /\ handler[c] \in {"check", "reply", "send"} => source = c

Silent == \A c \in Command : handler[c] = "none" => told[c] = SlackOpsNone

ReplyInvariant == RestartInvariant /\ Meeting /\ Silent /\ RepliesToAskers

-----------------------------------------------------------------------------
LEMMA ControlFileTimeType ==
    ASSUME TypeOK, NEW i \in Instance, NEW time \in Time, ControlFileTime(i, time)
    PROVE  /\ time \in Nat
           /\ mishaps' \in 0 .. MaxMishaps
           /\ fooled' \subseteq Instance /\ fooled \subseteq fooled' /\ fooled' \subseteq fooled \cup {i}
           /\ i \notin fooled' => time = file
  BY ControlFileAssumption DEF TypeOK, ControlFileTime, Time, Started

LEMMA TypeNext ==
    ASSUME TypeOK, Idle, [Next]_vars
    PROVE  TypeOK'
<1> USE ControlFileAssumption DEF TypeOK
<1>1. CASE UNCHANGED vars
  BY <1>1 DEF vars, replies
<1>2. ASSUME NEW i \in Instance, Exit(i), mishaps' \in 0 .. MaxMishaps
      PROVE  TypeOK'
  BY <1>2 DEF Exit, replies
<1>3. ASSUME NEW i \in Instance, Launch(i) \/ TakeTime(i) \/ RandomRestart(i) \/ Crash(i)
      PROVE  TypeOK'
  <2>1. CASE Launch(i)
    BY <2>1 DEF Launch, replies
  <2>2. CASE TakeTime(i)
    BY <2>2, ControlFileTimeType DEF TakeTime, replies
  <2>3. CASE RandomRestart(i)
    BY <1>2, <2>3 DEF RandomRestart
  <2>4. CASE Crash(i)
    BY <1>2, <2>4 DEF Crash
  <2>. QED
    BY <1>3, <2>1, <2>2, <2>3, <2>4
<1>4. ASSUME NEW i \in Instance, NEW t \in Timer, Compare(i, t) \/ Note(i, t)
      PROVE  TypeOK'
  <2>1. CASE Compare(i, t)
    BY <2>1, ControlFileTimeType DEF Compare, replies
  <2>2. CASE Note(i, t)
    BY <2>2, ControlFileTimeType DEF Note, Idle, replies, Others
  <2>. QED
    BY <1>4, <2>1, <2>2
<1>5. ASSUME NEW c \in Command, SlackHandler(c)
      PROVE  TypeOK'
  <2>1. CASE Receive(c)
    BY <2>1 DEF Receive, Goto, Handled
  <2>2. CASE Identify(c)
    BY <2>2 DEF Identify, Goto
  <2>3. CASE Check(c)
    BY <2>3 DEF Check, Finish, Goto
  <2>4. CASE TestSource(c)
    BY <2>4 DEF TestSource, Finish, Goto
  <2>5. CASE Reply(c)
    BY <2>5 DEF Reply, Finish, Goto
  <2>6. CASE Open(c)
    BY <2>6 DEF Open, Goto, replies
  <2>7. CASE Write(c)
    BY <2>7 DEF Write, Finish, Goto
  <2>8. CASE ExitMonitor(c) \/ ReplyPanics(c)
    BY <1>2, <2>8 DEF ExitMonitor, ReplyPanics
  <2>. QED
    BY <1>5, <2>1, <2>2, <2>3, <2>4, <2>5, <2>6, <2>7, <2>8 DEF SlackHandler
<1>. QED
  BY <1>1, <1>3, <1>4, <1>5 DEF Next

LEMMA RestartInvariantInit == Init => RestartInvariant
  BY ControlFileAssumption DEF Init, RestartInvariant, TypeOK, Idle, Known, Cause, Started

LEMMA RestartInvariantNext == RestartInvariant /\ [Next]_vars => RestartInvariant'
<1> SUFFICES ASSUME RestartInvariant, [Next]_vars
             PROVE  Idle' /\ Known' /\ Cause'
  BY TypeNext DEF RestartInvariant
<1>a. TypeOK /\ Idle /\ Known /\ Cause
  BY DEF RestartInvariant
<1>1. CASE UNCHANGED <<file, state, request, noticed, pending, born, fooled>>
  BY <1>a, <1>1 DEF Idle, Known, Cause
<1>2. ASSUME NEW i \in Instance, Exit(i)
      PROVE  Idle' /\ Known' /\ Cause'
  <2>1. /\ UNCHANGED <<file, request, born, fooled>>
        /\ state' = [state EXCEPT ![i] = "down"]
        /\ noticed' = [noticed EXCEPT ![i] = {}]
        /\ pending' = pending \ {i}
    BY <1>2 DEF Exit
  <2>. QED
    BY <1>a, <2>1, ControlFileAssumption DEF TypeOK, Idle, Known, Cause
<1>3. ASSUME NEW i \in Instance, Launch(i) \/ TakeTime(i) \/ RandomRestart(i) \/ Crash(i)
      PROVE  Idle' /\ Known' /\ Cause'
  <2>1. CASE Launch(i)
    BY <1>a, <2>1 DEF Launch, TypeOK, Idle, Known, Cause
  <2>2. CASE TakeTime(i)
    <3>1. PICK time \in Time : /\ ControlFileTime(i, time)
                               /\ request' = [request EXCEPT ![i] = time]
      BY <2>2 DEF TakeTime
    <3>2. fooled \subseteq fooled' /\ fooled' \subseteq fooled \cup {i}
          /\ (i \notin fooled' => time = file)
      BY <1>a, <3>1, ControlFileTimeType
    <3>3. /\ UNCHANGED <<file, noticed, pending, born>>
          /\ state[i] = "boot" /\ state' = [state EXCEPT ![i] = "up"]
      BY <2>2 DEF TakeTime
    <3>4. Idle'
      BY <1>a, <3>3 DEF TypeOK, Idle
    <3>5. Known' /\ Cause'
      BY <1>a, <3>1, <3>2, <3>3 DEF TypeOK, Known, Cause
    <3>. QED
      BY <3>4, <3>5
  <2>3. CASE RandomRestart(i) \/ Crash(i)
    BY <1>2, <2>3 DEF RandomRestart, Crash
  <2>. QED
    BY <1>3, <2>1, <2>2, <2>3
<1>4. ASSUME NEW i \in Instance, NEW t \in Timer, Compare(i, t) \/ Note(i, t)
      PROVE  Idle' /\ Known' /\ Cause'
  <2>1. CASE Compare(i, t)
    <3>1. PICK time \in Time : ControlFileTime(i, time) /\ time # request[i]
      BY <2>1 DEF Compare
    <3>2. fooled \subseteq fooled' /\ fooled' \subseteq fooled \cup {i}
          /\ (i \notin fooled' => time = file)
      BY <1>a, <3>1, ControlFileTimeType
    <3>3. /\ UNCHANGED <<file, state, request, pending, born>>
          /\ i # Monitor /\ state[i] = "up"
          /\ noticed' = [noticed EXCEPT ![i] = @ \cup {t}]
      BY <2>1 DEF Compare
    <3>4. Idle'
      BY <1>a, <3>3, ControlFileAssumption DEF TypeOK, Idle
    <3>5. Known'
      BY <1>a, <3>2, <3>3 DEF Known
    <3>6. born[i] < file \/ i \in fooled'
      BY <1>a, <3>1, <3>2, <3>3 DEF Known, TypeOK
    <3>7. Cause'
      BY <1>a, <3>2, <3>3, <3>6 DEF Cause, TypeOK
    <3>. QED
      BY <3>4, <3>5, <3>7
  <2>2. CASE Note(i, t)
    <3>1. PICK time \in Time : /\ ControlFileTime(i, time)
                               /\ request' = [request EXCEPT ![i] = time]
      BY <2>2 DEF Note
    <3>2. fooled \subseteq fooled' /\ fooled' \subseteq fooled \cup {i}
          /\ (i \notin fooled' => time = file)
      BY <1>a, <3>1, ControlFileTimeType
    <3>3. /\ UNCHANGED <<file, state, born>>
          /\ noticed[i] # {} /\ pending' = pending \cup {i}
          /\ noticed' = [noticed EXCEPT ![i] = @ \ {t}]
      BY <2>2 DEF Note
    <3>4. Idle'
      BY <1>a, <3>3, ControlFileAssumption DEF TypeOK, Idle
    <3>5. Known'
      BY <1>a, <3>1, <3>2, <3>3 DEF Known, TypeOK
    <3>6. Cause'
      BY <1>a, <3>2, <3>3 DEF Cause, TypeOK
    <3>. QED
      BY <3>4, <3>5, <3>6
  <2>. QED
    BY <1>4, <2>1, <2>2
<1>5. ASSUME NEW c \in Command, SlackHandler(c)
      PROVE  Idle' /\ Known' /\ Cause'
  <2>1. CASE Open(c) \/ Write(c)
    <3>1. file' = file + 1 /\ UNCHANGED <<state, request, noticed, pending, born, fooled>>
      BY <2>1 DEF Open, Write
    <3>. QED
      BY <1>a, <3>1 DEF Idle, Known, Cause, TypeOK
  <2>2. CASE ExitMonitor(c) \/ ReplyPanics(c)
    BY <1>2, <2>2, ControlFileAssumption DEF ExitMonitor, ReplyPanics
  <2>3. CASE Receive(c) \/ Identify(c) \/ Check(c) \/ TestSource(c) \/ Reply(c)
    BY <1>1, <2>3 DEF Receive, Identify, Check, TestSource, Reply
  <2>. QED
    BY <1>5, <2>1, <2>2, <2>3 DEF SlackHandler
<1>. QED
  BY <1>1, <1>3, <1>4, <1>5 DEF Next, vars

\* The variables have their types; in particular the monitor never schedules its
\* own restart.
THEOREM TypeCorrect == Spec => []TypeOK
  BY RestartInvariantInit, RestartInvariantNext, PTL DEF Spec, RestartInvariant

\* No instance restarts but for a modification of the control file since its launch
\* or a failure of os.Stat, whichever of its timers and however often.
THEOREM RestartsAreCaused == Spec => []OnlyOnCommand
<1>1. RestartInvariant => OnlyOnCommand
  BY DEF RestartInvariant, Cause, OnlyOnCommand, TypeOK, Others
<1>. QED
  BY RestartInvariantInit, RestartInvariantNext, <1>1, PTL DEF Spec

-----------------------------------------------------------------------------
\* A command has no reply before it was received.
LEMMA SilentNext ==
    ASSUME TypeOK, Silent, [Next]_vars
    PROVE  Silent'
<1>1. ASSUME NEW i \in Instance, Exit(i)
      PROVE  Silent'
  BY <1>1 DEF Exit, Silent, replies
<1>2. CASE UNCHANGED <<handler, replies>>
  BY <1>2 DEF Silent, replies
<1>3. ASSUME NEW c \in Command, SlackHandler(c)
      PROVE  Silent'
  <2>1. CASE Receive(c) \/ Identify(c) \/ Open(c)
    BY <2>1 DEF Receive, Identify, Open, Goto, Silent, TypeOK, replies
  <2>2. CASE Check(c) \/ TestSource(c) \/ Reply(c) \/ Write(c)
    BY <2>2 DEF Check, TestSource, Reply, Write, Finish, Goto, Silent, TypeOK
  <2>3. CASE ExitMonitor(c) \/ ReplyPanics(c)
    BY <1>1, <2>3, ControlFileAssumption DEF ExitMonitor, ReplyPanics
  <2>. QED
    BY <1>3, <2>1, <2>2, <2>3 DEF SlackHandler
<1>4. ASSUME NEW i \in Instance, Launch(i) \/ TakeTime(i) \/ RandomRestart(i) \/ Crash(i)
      PROVE  Silent'
  BY <1>1, <1>2, <1>4 DEF Launch, TakeTime, RandomRestart, Crash
<1>5. ASSUME NEW i \in Instance, NEW t \in Timer, Compare(i, t) \/ Note(i, t)
      PROVE  Silent'
  BY <1>2, <1>5 DEF Compare, Note
<1>. QED
  BY <1>2, <1>3, <1>4, <1>5 DEF Next, vars

LEMMA ReplyInvariantNext == ReplyInvariant /\ [Next]_vars => ReplyInvariant'
<1> SUFFICES ASSUME ReplyInvariant, [Next]_vars
             PROVE  Meeting' /\ RepliesToAskers'
  BY RestartInvariantNext, SilentNext DEF ReplyInvariant, RestartInvariant
<1>a. TypeOK /\ Meeting /\ Silent /\ RepliesToAskers
  BY DEF ReplyInvariant, RestartInvariant
<1>1. CASE UNCHANGED <<handler, replies>>
  BY <1>a, <1>1 DEF Meeting, RepliesToAskers, Handled, replies
<1>2. ASSUME NEW i \in Instance, Exit(i)
      PROVE  Meeting' /\ RepliesToAskers'
  <2>1. CASE i = Monitor
    <3>1. /\ \A c \in Command : handler'[c] \in {"none", "done"}
          /\ told' = [c \in Command |-> SlackOpsNone]
      BY <1>2, <2>1 DEF Exit
    <3>. QED
      BY <3>1 DEF Meeting, RepliesToAskers, Handled
  <2>2. CASE i # Monitor
    BY <1>1, <1>2, <2>2 DEF Exit
  <2>. QED
    BY <2>1, <2>2
<1>3. ASSUME NEW c \in Command, Finish(c), handler[c] \in {"check", "reply", "send", "write"},
             UNCHANGED source
      PROVE  Meeting' /\ RepliesToAskers'
  <2>1. /\ handler'[c] = "done" /\ told'[c] = SlackOpsNone
        /\ \A d \in Command : d # c => /\ handler'[d] = handler[d] /\ told'[d] = told[d]
                                       /\ met'[d] = met[d]
    BY <1>a, <1>3 DEF Finish, Goto, TypeOK
  <2>2. Handled' = Handled \ {c}
    BY <2>1 DEF Handled
  <2>. QED
    BY <1>a, <1>3, <2>1, <2>2 DEF Meeting, RepliesToAskers, Handled
<1>4. ASSUME NEW c \in Command, SlackHandler(c)
      PROVE  Meeting' /\ RepliesToAskers'
  <2>1. CASE Receive(c)
    <3>1. /\ handler[c] = "none" /\ handler' = [handler EXCEPT ![c] = "identify"]
          /\ source' = SlackOpsNone /\ told' = told
          /\ \A d \in Command : met'[d] = IF d = c THEN Handled
                                          ELSE IF d \in Handled THEN met[d] \cup {c} ELSE met[d]
      BY <2>1 DEF Receive, Goto
    <3>2. Handled' = Handled \cup {c} /\ c \notin Handled
      BY <1>a, <3>1 DEF Handled, TypeOK
    <3>3. handler'[c] = "identify" /\ \A d \in Command : d # c => handler'[d] = handler[d]
      BY <1>a, <3>1 DEF TypeOK
    <3>4. ASSUME NEW d \in Handled'
          PROVE  /\ \A e \in Handled' : e # d => e \in met'[d]
                 /\ source' \in {SlackOpsNone, d} \cup met'[d]
                 /\ met'[d] = {} /\ handler'[d] \in {"check", "reply", "send"} => source' = d
      <4>1. CASE d = c
        BY <3>1, <3>2, <3>3, <4>1
      <4>2. CASE d # c
        <5>1. d \in Handled /\ met'[d] = met[d] \cup {c}
          BY <3>1, <3>2, <4>2 DEF Handled
        <5>2. \A e \in Handled : e # d => e \in met[d]
          BY <1>a, <5>1 DEF Meeting
        <5>. QED
          BY <3>1, <3>2, <5>1, <5>2
      <4>. QED
        BY <4>1, <4>2
    <3>5. Meeting'
      BY <3>4 DEF Meeting
    <3>6. told[c] = SlackOpsNone
      BY <1>a, <3>1 DEF Silent
    <3>7. ASSUME NEW d \in Command
          PROVE  /\ told'[d] \in {SlackOpsNone, d} \cup met'[d]
                 /\ handler'[d] \in {"open", "write", "exit", "answered"} /\ met'[d] = {} => told'[d] = d
      <4>1. CASE d = c
        BY <3>1, <3>3, <3>6, <4>1
      <4>2. CASE d # c
        <5>1. met[d] \subseteq met'[d] /\ told'[d] = told[d] /\ handler'[d] = handler[d]
          BY <3>1, <3>3, <4>2
        <5>2. /\ told[d] \in {SlackOpsNone, d} \cup met[d]
              /\ handler[d] \in {"open", "write", "exit", "answered"} /\ met[d] = {} => told[d] = d
          BY <1>a DEF RepliesToAskers
        <5>. QED
          BY <5>1, <5>2
      <4>. QED
        BY <4>1, <4>2
    <3>8. RepliesToAskers'
      BY <3>7 DEF RepliesToAskers
    <3>. QED
      BY <3>5, <3>8
  <2>2. CASE Identify(c)
    <3>1. /\ handler[c] = "identify" /\ handler' = [handler EXCEPT ![c] = "check"]
          /\ source' = c /\ UNCHANGED <<told, met>>
      BY <2>2 DEF Identify, Goto
    <3>2. Handled' = Handled /\ c \in Handled
      BY <1>a, <3>1 DEF Handled, TypeOK
    <3>3. Meeting'
      BY <1>a, <3>1, <3>2 DEF Meeting, TypeOK
    <3>4. RepliesToAskers'
      BY <1>a, <3>1 DEF RepliesToAskers, TypeOK
    <3>. QED
      BY <3>3, <3>4
  <2>3. CASE Check(c)
    <3>1. CASE source = SlackOpsNone
      BY <1>3, <2>3, <3>1 DEF Check
    <3>2. CASE source # SlackOpsNone
      <4>1. /\ handler[c] = "check" /\ handler' = [handler EXCEPT ![c] = "reply"]
            /\ UNCHANGED replies
        BY <2>3, <3>2 DEF Check, Goto, replies
      <4>. QED
        BY <1>a, <4>1 DEF Meeting, RepliesToAskers, Handled, TypeOK, replies
    <3>. QED
      BY <3>1, <3>2
  <2>4. CASE TestSource(c)
    <3>1. CASE Finish(c)
      BY <1>3, <2>4, <3>1 DEF TestSource
    <3>2. CASE ~Finish(c)
      <4>1. /\ handler[c] = "reply" /\ UNCHANGED replies
            /\ handler' = [handler EXCEPT ![c] = IF source = SlackOpsNone THEN "open" ELSE "send"]
        BY <2>4, <3>2 DEF TestSource, Goto, replies
      <4>2. c \in Handled /\ (met[c] = {} => source = c)
        BY <1>a, <4>1 DEF Meeting, Handled
      <4>3. Handled' = Handled
        BY <1>a, <4>1 DEF Handled, TypeOK
      <4>4. Meeting'
        BY <1>a, <4>1, <4>2, <4>3 DEF Meeting, TypeOK, replies
      <4>5. RepliesToAskers'
        BY <1>a, <4>1, <4>2, ControlFileAssumption DEF RepliesToAskers, TypeOK, replies
      <4>. QED
        BY <4>4, <4>5
    <3>. QED
      BY <3>1, <3>2
  <2>5. CASE Reply(c)
    <3>1. CASE source = SlackOpsNone
      BY <1>3, <2>5, <3>1 DEF Reply
    <3>2. CASE source # SlackOpsNone
      <4>1. /\ handler[c] = "send" /\ told' = [told EXCEPT ![c] = source]
            /\ UNCHANGED <<source, met>>
            /\ \E label \in {"open", "answered"} : handler' = [handler EXCEPT ![c] = label]
        BY <2>5, <3>2 DEF Reply, Goto
      <4>2. c \in Handled /\ source \in {c} \cup met[c] /\ (met[c] = {} => source = c)
        BY <1>a, <3>2, <4>1 DEF Meeting, Handled
      <4>3. Handled' \subseteq Handled /\ handler'[c] \in {"open", "answered"}
        BY <1>a, <4>1 DEF Handled, TypeOK
      <4>4. Meeting'
        BY <1>a, <4>1, <4>3 DEF Meeting, TypeOK
      <4>5. RepliesToAskers'
        BY <1>a, <4>1, <4>2 DEF RepliesToAskers, TypeOK
      <4>. QED
        BY <4>4, <4>5
    <3>. QED
      BY <3>1, <3>2
  <2>6. CASE Open(c)
    <3>1. /\ handler[c] = "open" /\ handler' = [handler EXCEPT ![c] = "write"]
          /\ UNCHANGED replies
      BY <2>6 DEF Open, Goto
    <3>. QED
      BY <1>a, <3>1 DEF Meeting, RepliesToAskers, Handled, TypeOK, replies
  <2>7. CASE Write(c)
    <3>1. CASE c \in All
      <4>1. /\ handler[c] = "write" /\ handler' = [handler EXCEPT ![c] = "exit"]
            /\ UNCHANGED replies
        BY <2>7, <3>1 DEF Write, Goto, replies
      <4>. QED
        BY <1>a, <4>1 DEF Meeting, RepliesToAskers, Handled, TypeOK, replies
    <3>2. CASE c \notin All
      BY <1>3, <2>7, <3>2 DEF Write
    <3>. QED
      BY <3>1, <3>2
  <2>8. CASE ExitMonitor(c) \/ ReplyPanics(c)
    BY <1>2, <2>8, ControlFileAssumption DEF ExitMonitor, ReplyPanics
  <2>. QED
    BY <1>4, <2>1, <2>2, <2>3, <2>4, <2>5, <2>6, <2>7, <2>8 DEF SlackHandler
<1>5. ASSUME NEW i \in Instance,
             Launch(i) \/ TakeTime(i) \/ RandomRestart(i) \/ Crash(i)
      PROVE  Meeting' /\ RepliesToAskers'
  BY <1>1, <1>2, <1>5 DEF Launch, TakeTime, RandomRestart, Crash
<1>6. ASSUME NEW i \in Instance, NEW t \in Timer, Compare(i, t) \/ Note(i, t)
      PROVE  Meeting' /\ RepliesToAskers'
  BY <1>1, <1>6 DEF Compare, Note
<1>. QED
  BY <1>1, <1>4, <1>5, <1>6 DEF Next, vars

\* However many commands overlap, a reply goes to one of those who asked meanwhile,
\* and to the right one if there was one only.
THEOREM RepliesReachAskers == Spec => []RepliesToAskers
<1>1. Init => ReplyInvariant
  BY RestartInvariantInit DEF Init, ReplyInvariant, Meeting, Silent, RepliesToAskers, Handled
<1>. QED
  BY <1>1, ReplyInvariantNext, PTL DEF Spec, ReplyInvariant

-----------------------------------------------------------------------------
\* The handlers in the middle of a ++, whose events are not in the counter yet.
Busy == {h \in Handler : loaded[h] # NotLoaded}

\* A value that the total may yet take as a summand: nothing, what the file holds,
\* what a writer has read, and what it is about to write.
Prior ==
    {0} \cup ({statusFile} \cap Nat)
    \cup {prev[w] : w \in {u \in Writer : pc[u] = "copy"}}
    \cup {value[w] : w \in {u \in Writer : pc[u] \in {"open", "write"}}}

\* What the counter holds, and what it may fall back to when a ++ is completed.
Current == {count} \cup {loaded[h] : h \in Busy}

\* Each event is in one place at most, if the counter was not reset in the middle
\* of a ++ and no file was unreadable.
NothingTwice ==
    /\ \A p \in Prior, x \in Current : p + x + Cardinality(Busy) <= events
    /\ \A w \in Writer : pc[w] = "reset" => value[w] + Cardinality(Busy) <= events
    /\ last <= events

TotalInvariant == StatsTypeOK /\ IsFiniteSet(Busy) /\ (~inflated => NothingTwice)

\* A writer that the others leave alone has the last total, or is about to write it.
SoleWriter ==
    /\ statusFile \in {Missing, Truncated, last}
    /\ statusFile = Missing /\ statusFile # Truncated => last = 0
    /\ \A w \in alone :
          pc[w] # "sleep" =>
              /\ \A u \in Writer : u # w => pc[u] = "sleep"
              /\ last <= prev[w]
              /\ pc[w] # "copy" => last <= value[w]

-----------------------------------------------------------------------------
LEMMA StatsTypeNext == StatsTypeOK /\ [StatsNext]_statsVars => StatsTypeOK'
<1> SUFFICES ASSUME StatsTypeOK, [StatsNext]_statsVars
             PROVE  StatsTypeOK'
  OBVIOUS
<1> USE ServerStatsAssumption DEF StatsTypeOK, WriterLabel, NotLoaded
<1>1. ASSUME NEW h \in Handler, Load(h) \/ Store(h)
      PROVE  StatsTypeOK'
  <2>1. CASE Load(h)
    BY <2>1 DEF Load
  <2>2. CASE Store(h)
    <3>1. loaded[h] \in Nat
      BY <2>2 DEF Store
    <3>. QED
      BY <2>2, <3>1 DEF Store
  <2>. QED
    BY <1>1, <2>1, <2>2
<1>2. ASSUME NEW w \in Writer, WriteServerStatus(w)
      PROVE  StatsTypeOK'
  <2>1. CASE Read(w)
    <3>1. (IF statusFile \in {Missing, Truncated} THEN count ELSE statusFile) \in Nat
      OBVIOUS
    <3>2. alone' \subseteq Writer
      BY <2>1 DEF Read, Overlap
    <3>. QED
      BY <2>1, <3>1, <3>2 DEF Read, GoOn
  <2>2. CASE Copy(w)
    <3>1. count + prev[w] \in Nat
      OBVIOUS
    <3>. QED
      BY <2>2, <3>1 DEF Copy, GoOn
  <2>3. CASE Reset(w)
    BY <2>3 DEF Reset, GoOn
  <2>4. CASE OpenStatus(w) \/ OpenFails(w)
    BY <2>4 DEF OpenStatus, OpenFails, GoOn
  <2>5. CASE WriteStatus(w)
    BY <2>5 DEF WriteStatus, GoOn
  <2>6. CASE WriteFails(w)
    BY <2>6 DEF WriteFails, GoOn
  <2>. QED
    BY <1>2, <2>1, <2>2, <2>3, <2>4, <2>5, <2>6 DEF WriteServerStatus
<1>3. CASE Restart
  BY <1>3 DEF Restart
<1>4. CASE UNCHANGED statsVars
  BY <1>4 DEF statsVars
<1>. QED
  BY <1>1, <1>2, <1>3, <1>4 DEF StatsNext

LEMMA StatsTypeInit == StatsInit => StatsTypeOK
<1> SUFFICES ASSUME StatsInit
             PROVE  StatsTypeOK
  OBVIOUS
<1>1. statusFile \in Nat \cup {Missing, Truncated} /\ events \in 0 .. MaxEvents
  BY ServerStatsAssumption DEF StatsInit
<1>. QED
  BY <1>1 DEF StatsInit, StatsTypeOK, WriterLabel

\* Counters, totals and what writers hold are numbers.
THEOREM StatsTypeCorrect == StatsSpec => []StatsTypeOK
  BY StatsTypeInit, StatsTypeNext, PTL DEF StatsSpec

-----------------------------------------------------------------------------
\* A step that leaves Busy and the counter alone, and adds no new summand.
LEMMA NothingTwiceKept ==
    ASSUME NothingTwice, Busy' = Busy, Current' = Current, Prior' \subseteq Prior,
           UNCHANGED events, last' <= events,
           \A w \in Writer : pc'[w] = "reset" => pc[w] = "reset" /\ value'[w] = value[w]
    PROVE  NothingTwice'
  BY DEF NothingTwice

LEMMA TotalInit == StatsInit => TotalInvariant
<1> SUFFICES ASSUME StatsInit
             PROVE  TotalInvariant
  OBVIOUS
<1>1. Busy = {}
  BY DEF StatsInit, Busy
<1>2. IsFiniteSet(Busy) /\ Cardinality(Busy) = 0
  BY <1>1, FS_EmptySet
<1>3. Prior = {0} /\ Current = {0}
  BY <1>1, ServerStatsAssumption DEF StatsInit, Prior, Current
<1>4. NothingTwice
  BY <1>2, <1>3 DEF StatsInit, NothingTwice
<1>. QED
  BY <1>2, <1>4, StatsTypeInit DEF TotalInvariant

LEMMA CountStep ==
    ASSUME TotalInvariant, NEW h \in Handler, Load(h) \/ Store(h)
    PROVE  IsFiniteSet(Busy') /\ (~inflated' => NothingTwice')
<1> USE DEF NotLoaded
<1>1. StatsTypeOK /\ IsFiniteSet(Busy) /\ (~inflated => NothingTwice)
  BY DEF TotalInvariant
<1>2. Cardinality(Busy) \in Nat
  BY <1>1, FS_CardinalityType
<1>3. Prior' = Prior /\ UNCHANGED <<pc, value, last, inflated>>
  BY DEF Load, Store, Prior
<1>4. CASE Load(h)
  <2>1. /\ h \notin Busy /\ loaded' = [loaded EXCEPT ![h] = count]
        /\ events' = events + 1 /\ count' = count
    BY <1>4 DEF Load, Busy
  <2>2. Busy' = Busy \cup {h}
    BY <1>1, <2>1 DEF Busy, StatsTypeOK
  <2>3. IsFiniteSet(Busy') /\ Cardinality(Busy') = Cardinality(Busy) + 1
    BY <1>1, <2>1, <2>2, FS_AddElement
  <2>4. Current' = Current
    BY <1>1, <2>1, <2>2 DEF Current, StatsTypeOK, Busy
  <2>5. \A p \in Prior, x \in Current : p \in Nat /\ x \in Nat
    BY <1>1 DEF Prior, Current, StatsTypeOK, Busy
  <2>6. ASSUME NothingTwice
        PROVE  NothingTwice'
    BY <1>1, <1>2, <1>3, <2>1, <2>3, <2>4, <2>5, <2>6 DEF NothingTwice, StatsTypeOK
  <2>. QED
    BY <1>1, <1>3, <2>3, <2>6
<1>5. CASE Store(h)
  <2>1. /\ h \in Busy /\ loaded' = [loaded EXCEPT ![h] = NotLoaded]
        /\ events' = events /\ count' = loaded[h] + 1
    BY <1>5 DEF Store, Busy
  <2>2. Busy' = Busy \ {h}
    BY <1>1, <2>1 DEF Busy, StatsTypeOK
  <2>3. IsFiniteSet(Busy') /\ Cardinality(Busy') = Cardinality(Busy) - 1
    BY <1>1, <2>1, <2>2, FS_RemoveElement
  <2>4. \A x \in Current' : x \in Current \/ x = loaded[h] + 1
    BY <1>1, <2>1, <2>2 DEF Current, StatsTypeOK, Busy
  <2>5. loaded[h] \in Current
    BY <2>1 DEF Current
  <2>6. \A p \in Prior, x \in Current : p \in Nat /\ x \in Nat
    BY <1>1 DEF Prior, Current, StatsTypeOK, Busy
  <2>7. ASSUME NothingTwice
        PROVE  NothingTwice'
    BY <1>1, <1>2, <1>3, <2>1, <2>3, <2>4, <2>5, <2>6, <2>7 DEF NothingTwice, StatsTypeOK
  <2>. QED
    BY <1>1, <1>3, <2>3, <2>7
<1>. QED
  BY <1>4, <1>5

LEMMA WriterStep ==
    ASSUME TotalInvariant, NEW w \in Writer, WriteServerStatus(w)
    PROVE  IsFiniteSet(Busy') /\ (~inflated' => NothingTwice')
<1> USE ServerStatsAssumption
<1>1. StatsTypeOK /\ IsFiniteSet(Busy) /\ (~inflated => NothingTwice)
  BY DEF TotalInvariant
<1>2. Cardinality(Busy) \in Nat
  BY <1>1, FS_CardinalityType
<1>3. Busy' = Busy /\ UNCHANGED <<loaded, events>>
  BY DEF WriteServerStatus, Read, Copy, Reset, OpenStatus, OpenFails, WriteStatus, WriteFails,
     Busy
<1>4. CASE Read(w)
  <2>1. /\ inflated' = (inflated \/ (statusFile \in {Missing, Truncated} /\ count > 0))
        /\ prev' = [prev EXCEPT ![w] = IF statusFile \in {Missing, Truncated} THEN count ELSE statusFile]
        /\ pc' = [pc EXCEPT ![w] = "copy"] /\ UNCHANGED <<count, statusFile, value, last>>
    BY <1>4 DEF Read, GoOn
  <2>2. ASSUME ~inflated'
        PROVE  Prior' \subseteq Prior
    <3>0. ~(statusFile \in {Missing, Truncated} /\ count > 0)
      BY <2>1, <2>2, Zenon
    <3>1. statusFile \in {Missing, Truncated} => count = 0
      BY <1>1, <3>0 DEF StatsTypeOK
    <3>2. prev'[w] \in Prior
      BY <1>1, <2>1, <3>1 DEF Prior, StatsTypeOK
    <3>. QED
      BY <1>1, <2>1, <3>2 DEF Prior, StatsTypeOK
  <2>3. Current' = Current
    BY <1>3, <2>1 DEF Current
  <2>4. \A u \in Writer : pc'[u] = "reset" => pc[u] = "reset" /\ value'[u] = value[u]
    BY <1>1, <2>1 DEF StatsTypeOK
  <2>5. ASSUME ~inflated'
        PROVE  NothingTwice'
    <3>1. NothingTwice
      BY <1>1, <2>1, <2>5
    <3>. QED
      BY <1>3, <2>1, <2>2, <2>3, <2>4, <2>5, <3>1, NothingTwiceKept DEF NothingTwice
  <2>. QED
    BY <1>1, <1>3, <2>5
<1>5. CASE Copy(w)
  <2>1. /\ pc[w] = "copy" /\ value' = [value EXCEPT ![w] = count + prev[w]]
        /\ pc' = [pc EXCEPT ![w] = "reset"] /\ UNCHANGED <<count, statusFile, prev, last, inflated>>
    BY <1>5 DEF Copy, GoOn
  <2>2. Prior' \subseteq Prior /\ Current' = Current
    BY <1>1, <1>3, <2>1 DEF Prior, Current, StatsTypeOK
  <2>3. prev[w] \in Prior /\ count \in Current
    BY <2>1 DEF Prior, Current
  <2>4. ASSUME NothingTwice
        PROVE  NothingTwice'
    <3>1. prev[w] + count + Cardinality(Busy) <= events
      BY <2>3, <2>4 DEF NothingTwice
    <3>2. value'[w] = count + prev[w] /\ \A u \in Writer : u # w => value'[u] = value[u] /\ pc'[u] = pc[u]
      BY <1>1, <2>1 DEF StatsTypeOK
    <3>3. value'[w] + Cardinality(Busy) <= events
      BY <1>1, <1>2, <3>1, <3>2 DEF StatsTypeOK
    <3>. QED
      BY <1>3, <2>1, <2>2, <2>4, <3>2, <3>3 DEF NothingTwice
  <2>. QED
    BY <1>1, <1>3, <2>1, <2>4
<1>6. CASE Reset(w)
  <2>1. /\ pc[w] = "reset" /\ pc' = [pc EXCEPT ![w] = "open"] /\ count' = 0
        /\ inflated' = (inflated \/ \E h \in Handler : loaded[h] > 0)
        /\ UNCHANGED <<statusFile, prev, value, last>>
    BY <1>6 DEF Reset, GoOn
  <2>2. \A p \in Prior' : p \in Prior \/ p = value[w]
    BY <1>1, <2>1 DEF Prior, StatsTypeOK
  <2>3. ASSUME ~inflated'
        PROVE  \A x \in Current' : x = 0
    <3>1. \A h \in Handler : ~(loaded[h] > 0)
      BY <2>1, <2>3
    <3>2. \A h \in Busy : loaded[h] = 0
      BY <1>1, <3>1 DEF Busy, StatsTypeOK, NotLoaded
    <3>. QED
      BY <1>3, <2>1, <3>2 DEF Current
  <2>4. \A p \in Prior : p \in Nat
    BY <1>1 DEF Prior, StatsTypeOK
  <2>5. ASSUME ~inflated'
        PROVE  NothingTwice'
    <3>1. NothingTwice
      BY <1>1, <2>1, <2>5
    <3>2. \A p \in Prior : p + Cardinality(Busy) <= events
      <4>1. \A p \in Prior : p + count + Cardinality(Busy) <= events
        BY <3>1 DEF NothingTwice, Current
      <4>. QED
        BY <1>1, <1>2, <2>4, <4>1 DEF StatsTypeOK
    <3>3. value[w] + Cardinality(Busy) <= events /\ value[w] \in Nat
      BY <1>1, <2>1, <3>1 DEF NothingTwice, StatsTypeOK
    <3>4. \A p \in Prior', x \in Current' : p + x + Cardinality(Busy) <= events
      BY <1>2, <2>2, <2>3, <2>4, <2>5, <3>2, <3>3
    <3>. QED
      BY <1>1, <1>3, <2>1, <3>1, <3>4 DEF NothingTwice, StatsTypeOK
  <2>. QED
    BY <1>1, <1>3, <2>5
<1>7. CASE OpenStatus(w) \/ OpenFails(w) \/ WriteFails(w)
  <2>1. /\ pc[w] \in {"open", "write"}
        /\ pc' \in {[pc EXCEPT ![w] = "write"], [pc EXCEPT ![w] = "sleep"]}
        /\ statusFile' \in {statusFile, Truncated} /\ UNCHANGED <<count, prev, value, last, inflated>>
    BY <1>7 DEF OpenStatus, OpenFails, WriteFails, GoOn
  <2>2. Prior' \subseteq Prior /\ Current' = Current
    BY <1>1, <1>3, <2>1 DEF Prior, Current, StatsTypeOK
  <2>3. \A u \in Writer : pc'[u] = "reset" => pc[u] = "reset" /\ value'[u] = value[u]
    BY <1>1, <2>1 DEF StatsTypeOK
  <2>4. NothingTwice => NothingTwice'
    BY <1>3, <2>1, <2>2, <2>3, NothingTwiceKept DEF NothingTwice
  <2>. QED
    BY <1>1, <1>3, <2>1, <2>4
<1>8. CASE WriteStatus(w)
  <2>1. /\ pc[w] = "write" /\ pc' = [pc EXCEPT ![w] = "sleep"]
        /\ statusFile' = value[w] /\ last' = value[w] /\ UNCHANGED <<count, prev, value, inflated>>
    BY <1>8 DEF WriteStatus, GoOn
  <2>2. Prior' \subseteq Prior /\ Current' = Current /\ value[w] \in Prior
    BY <1>1, <1>3, <2>1 DEF Prior, Current, StatsTypeOK
  <2>3. \A u \in Writer : pc'[u] = "reset" => pc[u] = "reset" /\ value'[u] = value[u]
    BY <1>1, <2>1 DEF StatsTypeOK
  <2>4. ASSUME NothingTwice
        PROVE  NothingTwice'
    <3>1. value[w] + count + Cardinality(Busy) <= events
      BY <2>2, <2>4 DEF NothingTwice, Current
    <3>2. last' <= events
      BY <1>1, <1>2, <2>1, <3>1 DEF StatsTypeOK
    <3>. QED
      BY <1>3, <2>2, <2>3, <2>4, <3>2, NothingTwiceKept
  <2>. QED
    BY <1>1, <1>3, <2>1, <2>4
<1>. QED
  BY <1>4, <1>5, <1>6, <1>7, <1>8 DEF WriteServerStatus

LEMMA TotalNext == TotalInvariant /\ [StatsNext]_statsVars => TotalInvariant'
<1> SUFFICES ASSUME TotalInvariant, [StatsNext]_statsVars
             PROVE  IsFiniteSet(Busy') /\ (~inflated' => NothingTwice')
  BY StatsTypeNext DEF TotalInvariant
<1>1. StatsTypeOK /\ IsFiniteSet(Busy) /\ (~inflated => NothingTwice)
  BY DEF TotalInvariant
<1>2. CASE Restart
  <2>1. /\ count' = 0 /\ pc' = [w \in Writer |-> "sleep"]
        /\ loaded' = [h \in Handler |-> NotLoaded]
        /\ UNCHANGED <<statusFile, prev, value, events, last, inflated>>
    BY <1>2 DEF Restart
  <2>2. Busy' = {}
    BY <2>1 DEF Busy
  <2>3. IsFiniteSet(Busy') /\ Cardinality(Busy') = 0
    BY <2>2, FS_EmptySet
  <2>4. Current' = {0} /\ Prior' \subseteq Prior
    BY <2>1, <2>2 DEF Current, Prior
  <2>5. \A p \in Prior : p \in Nat
    BY <1>1 DEF Prior, StatsTypeOK
  <2>6. Cardinality(Busy) \in Nat
    BY <1>1, FS_CardinalityType
  <2>7. ASSUME NothingTwice
        PROVE  NothingTwice'
    <3>1. \A p \in Prior : p + count + Cardinality(Busy) <= events
      BY <2>7 DEF NothingTwice, Current
    <3>2. \A p \in Prior : p <= events
      BY <1>1, <2>5, <2>6, <3>1 DEF StatsTypeOK
    <3>. QED
      BY <2>1, <2>3, <2>4, <2>5, <2>7, <3>2 DEF NothingTwice
  <2>. QED
    BY <1>1, <2>1, <2>3, <2>7
<1>3. CASE UNCHANGED statsVars
  BY <1>1, <1>3 DEF statsVars, Busy, NothingTwice, Prior, Current
<1>. QED
  BY <1>2, <1>3, CountStep, WriterStep DEF StatsNext

\* However many writers and handlers overlap, the total counts nothing twice, but
\* for the two cases that the property names.
THEOREM TotalCountsOnce == StatsSpec => []RunningTotal
<1>1. TotalInvariant => RunningTotal
  BY DEF TotalInvariant, NothingTwice, RunningTotal
<1>. QED
  BY TotalInit, TotalNext, <1>1, PTL DEF StatsSpec

-----------------------------------------------------------------------------
LEMMA SoleWriterNext == StatsTypeOK /\ SoleWriter /\ [StatsNext]_statsVars => SoleWriter'
<1> SUFFICES ASSUME StatsTypeOK, SoleWriter, [StatsNext]_statsVars
             PROVE  SoleWriter'
  OBVIOUS
<1>1. ASSUME NEW w \in Writer, WriteServerStatus(w)
      PROVE  SoleWriter'
  <2>1. CASE Read(w)
    BY <2>1, ServerStatsAssumption DEF Read, Overlap, GoOn, SoleWriter, StatsTypeOK
  <2>2. CASE Copy(w)
    BY <2>2 DEF Copy, GoOn, SoleWriter, StatsTypeOK
  <2>3. CASE Reset(w)
    BY <2>3 DEF Reset, GoOn, SoleWriter, StatsTypeOK
  <2>4. CASE OpenStatus(w) \/ OpenFails(w)
    BY <2>4 DEF OpenStatus, OpenFails, GoOn, SoleWriter, StatsTypeOK
  <2>5. CASE WriteStatus(w)
    BY <2>5, ServerStatsAssumption DEF WriteStatus, GoOn, SoleWriter, StatsTypeOK
  <2>6. CASE WriteFails(w)
    BY <2>6 DEF WriteFails, GoOn, SoleWriter, StatsTypeOK
  <2>. QED
    BY <1>1, <2>1, <2>2, <2>3, <2>4, <2>5, <2>6 DEF WriteServerStatus
<1>2. CASE \E h \in Handler : Load(h) \/ Store(h)
  BY <1>2 DEF Load, Store, SoleWriter
<1>3. CASE Restart
  BY <1>3 DEF Restart, SoleWriter, StatsTypeOK
<1>4. CASE UNCHANGED statsVars
  BY <1>4 DEF statsVars, SoleWriter
<1>. QED
  BY <1>1, <1>2, <1>3, <1>4 DEF StatsNext

\* A writer whom nobody disturbs, and who finds the file intact, never writes a
\* smaller total than the last.
THEOREM TotalsGrow == StatsSpec => AdditiveToPrior
<1>1. StatsInit => SoleWriter
  BY DEF StatsInit, SoleWriter
<1>2. StatsTypeOK /\ SoleWriter /\ [StatsNext]_statsVars =>
         [\A w \in alone : WriteStatus(w) => statusFile' >= last]_statsVars
  <2>1. ASSUME StatsTypeOK, SoleWriter, NEW w \in alone, WriteStatus(w)
        PROVE  statusFile' >= last
    BY <2>1 DEF WriteStatus, SoleWriter, StatsTypeOK
  <2>. QED
    BY <2>1
<1>. QED
  BY <1>1, <1>2, StatsTypeInit, StatsTypeNext, SoleWriterNext, PTL DEF StatsSpec, AdditiveToPrior
=============================================================================
