---------------------------- MODULE RoutingProofs ----------------------------
(***************************************************************************)
(* Proofs about Routing: whatever is measured, and however often Notehub   *)
(* routes its events, each measurement has one story that is told to every *)
(* service, and what a notecard measured is never sent back to Notehub.    *)
(***************************************************************************)
EXTENDS Routing, FiniteSetTheorems, TLAPS

\* What this server makes of a measurement.
Story(m) ==
    CASE m.source = "gateway" -> GatewaySD(m)
      [] m.source = "note" -> NoteToSD(NotecardEvent(m))
      [] OTHER -> ReformatFromV1(m)

\* An event is a notecard's own, or its name shows that this server posted it.
EventsTraceable ==
    \A e \in events :
        /\ e.m \in Measurement
        /\ \/ e.m.source = "note" /\ e = NotecardEvent(e.m)
           \/ ~(Colons(e.uid) <= 1)

JobsWellFormed ==
    \A j \in jobs :
        /\ j = Job(j.step, j.sd)
        /\ j.sd.m \in Measurement
        /\ j.step = "redirect" => j.sd.m.source = "v1"
        /\ j.step # "redirect" => j.sd = Story(j.sd.m)

ToldAsIs == \A r \in ingest \cup logged \cup notehub : r = Story(r.m)

NotNoted == \A r \in notehub : r.m.source # "note"

\* No job about a V1 device can be taken for one about a Solarcast.
TypesKept ==
    \A j \in jobs : j.step # "redirect" /\ j.sd.m.source = "v1" => DeviceType(j.sd.id) # "none"

\* A job of uploading is accompanied by one of logging.
JobsAreLogged ==
    \A j \in jobs : j.step = "ingest" => j.sd \in logged \cup lost \/ Job("log", j.sd) \in jobs

IInv ==
    /\ EventsTraceable /\ JobsWellFormed /\ ToldAsIs /\ NotNoted
    /\ TypesKept /\ RelayedAsItCame /\ JobsAreLogged /\ UploadsAreLogged

\* The ranges of ids that have a type.
LEMMA Typed ==
    ASSUME NEW id \in Nat,
           \/ Among(id, 1, 999) \/ Among(id, 10000, 29999) \/ Among(id, 50000, 59999)
           \/ Among(id, 60000, 64999) \/ Among(id, 65000, 69999)
    PROVE  DeviceType(id) # "none"
<1> USE DEF Among
<1>1. CASE Among(id, 10000, 29999) \/ id = 100
  BY <1>1 DEF DeviceType
<1>2. CASE Among(id, 50000, 59999)
  BY <1>2 DEF DeviceType
<1>3. CASE Among(id, 60000, 64999)
  BY <1>3 DEF DeviceType
<1>4. CASE Among(id, 65000, 69999)
  BY <1>4 DEF DeviceType
<1>5. CASE Among(id, 1, 999) /\ id # 100
  BY <1>5 DEF DeviceType
<1>6. QED
  BY <1>1, <1>2, <1>3, <1>4, <1>5

\* The ids of pointcasts, divided by 10, are among them.
LEMMA PointcastTyped ==
    ASSUME NEW id \in Nat, Pointcast(id)
    PROVE  DeviceType(V2Id(id)) # "none"
<1> USE DEF Among, Pointcast
<1>1. V2Id(id) = id \div 10
  BY DEF V2Id
<1>2. id \div 10 \in Nat
  OBVIOUS
<1>3. CASE Among(id, 100000, 299999)
  <2>1. Among(id \div 10, 10000, 29999)
    BY <1>3
  <2>2. QED
    BY <1>1, <1>2, <2>1, Typed
<1>4. CASE Among(id, 1000, 1999)
  <2>1. Among(id \div 10, 1, 999)
    BY <1>4
  <2>2. QED
    BY <1>1, <1>2, <2>1, Typed
<1>5. QED
  BY <1>3, <1>4

\* A device that has a type in the V1 numbering has one in the other.
LEMMA TypesAgree ==
    \A id \in Nat : V1DeviceType(id) # "none" => DeviceType(V2Id(id)) # "none"
<1> USE DEF Among, Pointcast
<1> TAKE id \in Nat
<1>1. CASE Pointcast(id)
  BY <1>1, PointcastTyped
<1>2. CASE ~Pointcast(id)
  <2>1. V2Id(id) = id
    BY <1>2 DEF V2Id
  <2>2. CASE Among(id, 1, 999)
    BY <2>1, <2>2, Typed
  <2>3. CASE Among(id, 50000, 69999)
    <3>1. Among(id, 50000, 59999) \/ Among(id, 60000, 64999) \/ Among(id, 65000, 69999)
      BY <2>3
    <3>2. QED
      BY <2>1, <3>1, Typed
  <2>4. CASE ~Among(id, 1, 999) /\ ~Among(id, 50000, 69999)
    BY <1>2, <2>4 DEF V1DeviceType
  <2>5. QED
    BY <2>2, <2>3, <2>4
<1>3. QED
  BY <1>1, <1>2

\* The record of a measurement names it; that of a note comes from Notehub, that
\* of anything else has a name of two parts.
LEMMA StoryOf ==
    ASSUME NEW m \in Measurement
    PROVE  /\ Story(m).m = m
           /\ m.source \in {"gateway", "note", "v1"}
           /\ m.source = "note" => IsFromNotehub(Story(m).uid)
           /\ m.source # "note" => ~(Colons(<<"webhook">> \o Story(m).uid) <= 1)
<1>1. m.source \in {"gateway", "note", "v1"}
  BY RoutingAssumption DEF Gatewayed, Noted, Posted
<1>2. CASE m.source = "gateway"
  BY <1>2 DEF Story, GatewaySD, Colons
<1>3. CASE m.source = "note"
  BY <1>3 DEF Story, NoteToSD, NotecardEvent, IsFromNotehub
<1>4. CASE m.source = "v1"
  BY <1>4 DEF Story, ReformatFromV1, Colons
<1>5. QED
  BY <1>1, <1>2, <1>3, <1>4

\* The jobs that a measurement's record gives rise to are about it, as it is.
LEMMA PublishEffect ==
    ASSUME NEW m \in Measurement, NEW sd, sd = Story(m), sd.m = m, JobsWellFormed,
           m.source = "v1" => DeviceType(sd.id) # "none", TypesKept, JobsAreLogged,
           NEW old \in SUBSET jobs, \A j \in jobs \ old : j.step = "redirect",
           jobs' = old \cup Publish(sd), UNCHANGED <<logged, lost>>
    PROVE  JobsWellFormed' /\ TypesKept' /\ JobsAreLogged'
<1>1. \A j \in Publish(sd) : /\ j = Job(j.step, j.sd) /\ j.sd = sd
                             /\ j.step \in {"ingest", "solarcast", "notehub", "log"}
  BY DEF Publish, Job
<1>2. Job("log", sd) \in Publish(sd)
  BY DEF Publish
<1>3. JobsWellFormed'
  BY <1>1 DEF JobsWellFormed
<1>4. TypesKept'
  BY <1>1 DEF TypesKept
<1>5. JobsAreLogged'
  <2>1. \A sd2 : Job("log", sd2).step = "log"
    BY DEF Job
  <2>2. \A j \in old : j.step = "ingest" => j.sd \in logged \cup lost \/ Job("log", j.sd) \in old
    BY <2>1 DEF JobsAreLogged
  <2>3. QED
    BY <1>1, <1>2, <2>2 DEF JobsAreLogged
<1>6. QED
  BY <1>3, <1>4, <1>5

\* A job that is done leaves the others as they are.
LEMMA DoneEffect ==
    ASSUME NEW j \in jobs, JobsWellFormed, TypesKept, JobsAreLogged, Done(j),
           \/ j.step # "log" /\ UNCHANGED <<logged, lost>>
           \/ (logged \cup lost)' = logged \cup lost \cup {j.sd}
    PROVE  JobsWellFormed' /\ TypesKept' /\ JobsAreLogged'
<1>1. jobs' = jobs \ {j}
  BY DEF Done
<1>2. \A sd : Job("log", sd).step = "log" /\ Job("log", sd).sd = sd
  BY DEF Job
<1>3. JobsWellFormed' /\ TypesKept'
  BY <1>1 DEF JobsWellFormed, TypesKept
<1>4. JobsAreLogged'
  BY <1>1, <1>2 DEF JobsAreLogged
<1>5. QED
  BY <1>3, <1>4

\* The initial state satisfies the invariant.
LEMMA InitIInv == Init => IInv
  BY DEF Init, IInv, EventsTraceable, JobsWellFormed, ToldAsIs, NotNoted, TypesKept,
         RelayedAsItCame, JobsAreLogged, UploadsAreLogged

\* A device's message comes in.
LEMMA GatewayStep ==
    ASSUME IInv, NEW m \in Measurement, SendSafecastMessage(m)
    PROVE  IInv'
<1>1. m.source = "gateway" /\ Story(m) = GatewaySD(m) /\ Story(m).m = m
  BY StoryOf DEF SendSafecastMessage, Story
<1>2. /\ jobs' = jobs \cup Publish(GatewaySD(m))
      /\ UNCHANGED <<events, ingest, v1, notehub, logged, lost>>
  BY DEF SendSafecastMessage, GatewaySD
<1>3. JobsWellFormed' /\ TypesKept' /\ JobsAreLogged'
  BY <1>1, <1>2, PublishEffect DEF IInv
<1>4. EventsTraceable' /\ ToldAsIs' /\ NotNoted' /\ RelayedAsItCame'
  BY <1>2 DEF IInv, EventsTraceable, ToldAsIs, NotNoted, RelayedAsItCame
<1>5. UploadsAreLogged'
  BY <1>2 DEF IInv, UploadsAreLogged
<1>6. QED
  BY <1>3, <1>4, <1>5 DEF IInv

\* A notecard has a new event.
LEMMA SyncStep ==
    ASSUME IInv, NEW m \in Measurement, Sync(m)
    PROVE  IInv'
<1>1. /\ m.source = "note" /\ NotecardEvent(m).m = m
      /\ events' = events \cup {NotecardEvent(m)}
      /\ UNCHANGED <<jobs, ingest, v1, notehub, logged, lost>>
  BY DEF Sync, NotecardEvent
<1>2. EventsTraceable'
  BY <1>1 DEF IInv, EventsTraceable
<1>3. QED
  BY <1>1, <1>2 DEF IInv, JobsWellFormed, ToldAsIs, NotNoted, TypesKept,
                    RelayedAsItCame, JobsAreLogged, UploadsAreLogged

\* Notehub routes an event here: only a notecard's own is acceptable.
LEMMA NoteStep ==
    ASSUME IInv, NEW e \in events, NoteHandler(e)
    PROVE  IInv'
<1>1. e.m \in Measurement /\ e.m.source = "note" /\ e = NotecardEvent(e.m)
  <2>1. Colons(e.uid) <= 1
    BY DEF NoteHandler, Acceptable
  <2>2. e.m \in Measurement /\ ((e.m.source = "note" /\ e = NotecardEvent(e.m)) \/ ~(Colons(e.uid) <= 1))
    BY DEF IInv, EventsTraceable
  <2>3. QED
    BY <2>1, <2>2
<1> DEFINE m == e.m
           sd == NoteToSD(e)
<1>2. sd = Story(m) /\ sd.m = m
  BY <1>1, StoryOf DEF Story
<1>3. UNCHANGED <<events, ingest, v1, notehub, logged, lost>>
  BY DEF NoteHandler
<1>4. CASE e.file = "_session.qo"
  <2>1. jobs' = jobs \cup {Job("log", sd)}
    BY <1>4 DEF NoteHandler
  <2>2. /\ Job("log", sd).step = "log" /\ Job("log", sd).sd = sd
        /\ Job("log", sd) = Job(Job("log", sd).step, Job("log", sd).sd)
    BY DEF Job
  <2> HIDE DEF m, sd
  <2>3. JobsWellFormed'
    BY <1>1, <1>2, <2>1, <2>2 DEF IInv, JobsWellFormed, m
  <2>4. TypesKept'
    BY <1>1, <1>2, <2>1, <2>2 DEF IInv, TypesKept, m
  <2>5. JobsAreLogged' /\ UploadsAreLogged'
    BY <1>3, <2>1, <2>2 DEF IInv, JobsAreLogged, UploadsAreLogged
  <2>6. QED
    BY <1>3, <2>3, <2>4, <2>5 DEF IInv, EventsTraceable, ToldAsIs, NotNoted, RelayedAsItCame
<1>5. CASE e.file # "_session.qo"
  <2>1. jobs' = jobs \cup Publish(sd)
    BY <1>5 DEF NoteHandler
  <2> HIDE DEF m, sd
  <2>2. m \in Measurement /\ m.source = "note"
    BY <1>1 DEF m
  <2>3. JobsWellFormed' /\ TypesKept' /\ JobsAreLogged'
    BY <1>2, <1>3, <2>1, <2>2, PublishEffect DEF IInv
  <2>4. UploadsAreLogged'
    BY <1>3, <2>1 DEF IInv, UploadsAreLogged
  <2>5. QED
    BY <1>3, <2>3, <2>4 DEF IInv, EventsTraceable, ToldAsIs, NotNoted, RelayedAsItCame
<1>6. QED
  BY <1>4, <1>5

\* A request in the V1 format comes in, and is relayed as it came.
LEMMA RedirectHandlerStep ==
    ASSUME IInv, NEW m \in Measurement, RedirectHandler(m)
    PROVE  IInv'
<1> DEFINE job == Job("redirect", [m |-> m])
<1>1. /\ m.source = "v1" /\ jobs' = jobs \cup {job}
      /\ v1' = v1 \cup {[m |-> m, id |-> m.id]} \/ UNCHANGED v1
      /\ UNCHANGED <<events, ingest, notehub, logged, lost>>
  BY DEF RedirectHandler
<1>2. job.step = "redirect" /\ job.sd.m = m /\ job = Job(job.step, job.sd)
  BY DEF Job
<1> HIDE DEF job
<1>3. JobsWellFormed' /\ TypesKept'
  BY <1>1, <1>2 DEF IInv, JobsWellFormed, TypesKept
<1>4. JobsAreLogged' /\ UploadsAreLogged'
  BY <1>1, <1>2 DEF IInv, JobsAreLogged, UploadsAreLogged
<1>5. RelayedAsItCame'
  BY <1>1 DEF IInv, RelayedAsItCame
<1>6. QED
  BY <1>1, <1>3, <1>4, <1>5 DEF IInv, EventsTraceable, ToldAsIs, NotNoted

\* The relayed request is converted.
LEMMA RedirectStep ==
    ASSUME IInv, NEW j \in jobs, Redirect(j)
    PROVE  IInv'
<1> DEFINE m == j.sd.m
           sd == ReformatFromV1(m)
<1>1. /\ j.step = "redirect" /\ m \in Measurement /\ m.source = "v1"
      /\ UNCHANGED <<events, ingest, v1, notehub, logged, lost>>
  BY DEF Redirect, IInv, JobsWellFormed
<1>2. UploadsAreLogged'
  <2>1. \A r : Job("log", r).step = "log"
    BY DEF Job
  <2>2. jobs \ {j} \subseteq jobs'
    BY DEF Redirect, Done
  <2>3. QED
    BY <1>1, <2>1, <2>2 DEF IInv, UploadsAreLogged
<1>3. CASE Reformattable(m) /\ sd.data # {}
  <2>1. jobs' = (jobs \ {j}) \cup Publish(sd)
    BY <1>3 DEF Redirect
  <2>2. sd = Story(m) /\ sd.m = m
    BY <1>1 DEF Story, ReformatFromV1
  <2>3. Renumbered(m.id) \in Nat
    BY <1>1, RoutingAssumption DEF Renumbered, Posted, Gatewayed, Noted
  <2>4. sd.id = V2Id(Renumbered(m.id)) /\ V1DeviceType(Renumbered(m.id)) # "none"
    BY <1>3 DEF Reformattable, ReformatFromV1
  <2>5. DeviceType(sd.id) # "none"
    BY <2>3, <2>4, TypesAgree
  <2> DEFINE old == jobs \ {j}
  <2>6. old \in SUBSET jobs /\ (\A k \in jobs \ old : k.step = "redirect")
    BY <1>1
  <2> HIDE DEF m, sd, old
  <2>7. jobs' = old \cup Publish(sd)
    BY <2>1 DEF old
  <2>8. JobsWellFormed' /\ TypesKept' /\ JobsAreLogged'
    BY <1>1, <2>2, <2>5, <2>6, <2>7, PublishEffect DEF IInv
  <2>9. QED
    BY <1>1, <1>2, <2>8 DEF IInv, EventsTraceable, ToldAsIs, NotNoted, RelayedAsItCame
<1>4. CASE ~(Reformattable(m) /\ sd.data # {})
  <2>1. Done(j)
    BY <1>4 DEF Redirect
  <2>2. JobsWellFormed' /\ TypesKept' /\ JobsAreLogged'
    BY <1>1, <2>1, DoneEffect DEF IInv
  <2>3. QED
    BY <1>1, <1>2, <2>2 DEF IInv, EventsTraceable, ToldAsIs, NotNoted, RelayedAsItCame
<1>5. QED
  BY <1>3, <1>4

\* A goroutine other than that of a redirected request ends.
LEMMA LastStep ==
    ASSUME IInv, NEW j \in jobs, Work(j), ~Redirect(j)
    PROVE  IInv'
<1>1. Done(j) /\ j.step # "redirect" /\ j.sd = Story(j.sd.m) /\ j.sd.m \in Measurement
  BY DEF Work, DoUploadToSafecast, DoSolarcastV1Uploads, DoUploadToNotehub, WriteToLogs,
         IInv, JobsWellFormed
<1>2. /\ Job("log", j.sd).step = "log"
      /\ \A r : Job("log", r).step = "log" /\ Job("log", r).sd = r
  BY DEF Job
<1>3. CASE DoUploadToSafecast(j)
  <2>1. /\ j.step = "ingest" /\ UNCHANGED <<events, v1, notehub, logged, lost>>
        /\ ingest' = ingest \cup {j.sd} \/ UNCHANGED ingest
    BY <1>3 DEF DoUploadToSafecast
  <2>2. JobsWellFormed' /\ TypesKept' /\ JobsAreLogged'
    BY <1>1, <2>1, DoneEffect DEF IInv
  <2>3. ToldAsIs'
    BY <1>1, <2>1 DEF IInv, ToldAsIs
  <2>4. j.sd \in logged \cup lost \/ Job("log", j.sd) \in jobs
    BY <2>1 DEF IInv, JobsAreLogged
  <2>5. UploadsAreLogged'
    BY <1>1, <1>2, <2>1, <2>4 DEF IInv, UploadsAreLogged, Done
  <2>6. QED
    BY <2>1, <2>2, <2>3, <2>5 DEF IInv, EventsTraceable, NotNoted, RelayedAsItCame
<1>4. CASE DoSolarcastV1Uploads(j)
  <2>1. j.step = "solarcast" /\ UNCHANGED <<events, ingest, notehub, logged, lost>>
    BY <1>4 DEF DoSolarcastV1Uploads
  <2>2. JobsWellFormed' /\ TypesKept' /\ JobsAreLogged'
    BY <1>1, <2>1, DoneEffect DEF IInv
  <2>3. UploadsAreLogged'
    BY <1>1, <1>2, <2>1 DEF IInv, UploadsAreLogged, Done
  <2>4. PICK received \in SUBSET ReformatToV1(j.sd) :
           v1' = v1 \cup {[m |-> j.sd.m, id |-> id] : id \in received}
    BY <1>4 DEF DoSolarcastV1Uploads
  <2>5. j.sd.m.source = "v1" => ReformatToV1(j.sd) = {}
    BY <1>1 DEF IInv, TypesKept, ReformatToV1
  <2>6. RelayedAsItCame'
    BY <2>4, <2>5 DEF IInv, RelayedAsItCame
  <2>7. QED
    BY <2>1, <2>2, <2>3, <2>6 DEF IInv, EventsTraceable, ToldAsIs, NotNoted
<1>5. CASE DoUploadToNotehub(j)
  <2>1. j.step = "notehub" /\ UNCHANGED <<ingest, v1, logged, lost>>
    BY <1>5 DEF DoUploadToNotehub
  <2>2. JobsWellFormed' /\ TypesKept' /\ JobsAreLogged'
    BY <1>1, <2>1, DoneEffect DEF IInv
  <2>3. UploadsAreLogged'
    BY <1>1, <1>2, <2>1 DEF IInv, UploadsAreLogged, Done
  <2>4. CASE UNCHANGED <<notehub, events>>
    BY <2>1, <2>2, <2>3, <2>4 DEF IInv, EventsTraceable, ToldAsIs, NotNoted, RelayedAsItCame
  <2>5. CASE ~IsFromNotehub(j.sd.uid) /\ PostToNotehub(j.sd)
    <3>1. j.sd.m.source # "note" /\ ~(Colons(<<"webhook">> \o j.sd.uid) <= 1)
      BY <1>1, <2>5, StoryOf
    <3>2. /\ notehub' = notehub \cup {j.sd}
          /\ events' = events \cup {WebhookEvent(j.sd)}
      BY <2>5 DEF PostToNotehub
    <3>3. WebhookEvent(j.sd).m = j.sd.m /\ WebhookEvent(j.sd).uid = <<"webhook">> \o j.sd.uid
      BY DEF WebhookEvent
    <3>4. EventsTraceable'
      BY <1>1, <3>1, <3>2, <3>3 DEF IInv, EventsTraceable
    <3>5. ToldAsIs' /\ NotNoted'
      BY <1>1, <2>1, <3>1, <3>2 DEF IInv, ToldAsIs, NotNoted
    <3>6. QED
      BY <2>1, <2>2, <2>3, <3>4, <3>5 DEF IInv, RelayedAsItCame
  <2>6. QED
    BY <1>5, <2>4, <2>5 DEF DoUploadToNotehub
<1>6. CASE WriteToLogs(j)
  <2>1. /\ j.step = "log" /\ (logged \cup lost)' = logged \cup lost \cup {j.sd}
        /\ logged' \subseteq logged \cup {j.sd}
        /\ UNCHANGED <<events, ingest, v1, notehub>>
    BY <1>6 DEF WriteToLogs
  <2>2. JobsWellFormed' /\ TypesKept' /\ JobsAreLogged'
    BY <1>1, <2>1, DoneEffect DEF IInv
  <2>3. UploadsAreLogged'
    BY <1>1, <1>2, <2>1 DEF IInv, UploadsAreLogged, Done
  <2>4. ToldAsIs'
    BY <1>1, <2>1 DEF IInv, ToldAsIs
  <2>5. QED
    BY <2>1, <2>2, <2>3, <2>4 DEF IInv, EventsTraceable, NotNoted, RelayedAsItCame
<1>7. QED
  BY <1>3, <1>4, <1>5, <1>6 DEF Work

\* An instance exits with its goroutines.
LEMMA ExitStep ==
    ASSUME IInv, NEW gone \in SUBSET jobs, Exit(gone)
    PROVE  IInv'
<1>1. /\ jobs' = jobs \ gone
      /\ lost' = lost \cup {j.sd : j \in {k \in gone : k.step = "log"}}
      /\ UNCHANGED <<events, ingest, v1, notehub, logged>>
  BY DEF Exit
<1>2. \A r : Job("log", r).step = "log" /\ Job("log", r).sd = r
  BY DEF Job
<1>3. \A r : Job("log", r) \in gone => r \in lost'
  BY <1>1, <1>2
<1>4. JobsWellFormed' /\ TypesKept'
  BY <1>1 DEF IInv, JobsWellFormed, TypesKept
<1>5. JobsAreLogged'
  BY <1>1, <1>3 DEF IInv, JobsAreLogged
<1>6. UploadsAreLogged'
  BY <1>1, <1>3 DEF IInv, UploadsAreLogged
<1>. QED
  BY <1>1, <1>4, <1>5, <1>6
     DEF IInv, EventsTraceable, ToldAsIs, NotNoted, RelayedAsItCame

\* Every step preserves the invariant.
LEMMA NextIInv == IInv /\ [Next]_vars => IInv'
<1> SUFFICES ASSUME IInv, [Next]_vars
             PROVE  IInv'
  OBVIOUS
<1>1. ASSUME NEW m \in Measurement,
             SendSafecastMessage(m) \/ Sync(m) \/ RedirectHandler(m)
      PROVE  IInv'
  BY <1>1, GatewayStep, SyncStep, RedirectHandlerStep
<1>2. ASSUME NEW e \in events, NoteHandler(e)
      PROVE  IInv'
  BY <1>2, NoteStep
<1>3. ASSUME NEW j \in jobs, Work(j)
      PROVE  IInv'
  BY <1>3, RedirectStep, LastStep
<1>4. ASSUME NEW gone \in SUBSET jobs, Exit(gone)
      PROVE  IInv'
  BY <1>4, ExitStep
<1>5. CASE UNCHANGED vars
  BY <1>5 DEF vars, IInv, EventsTraceable, JobsWellFormed, ToldAsIs, NotNoted, TypesKept,
              RelayedAsItCame, JobsAreLogged, UploadsAreLogged
<1>. QED
  BY <1>1, <1>2, <1>3, <1>4, <1>5 DEF Next

\* Services, events and jobs are as the invariant says, always.
THEOREM InductiveInvariant == Spec => []IInv
<1>1. QED
  BY InitIInv, NextIInv, PTL DEF Spec

\* What a notecard measured never goes back to Notehub, nor does anything go to
\* Notehub twice (doUploadToNotehub and the loopback protection of noteToSD).
THEOREM DataDoesNotCirculate == Spec => []NothingCirculates
<1>1. IInv => NothingCirculates
  BY DEF IInv, ToldAsIs, NotNoted, NothingCirculates
<1>2. QED
  BY <1>1, InductiveInvariant, PTL

\* The Ingest service and the logs are told the same of a measurement.
THEOREM EveryoneIsToldTheSame == Spec => []OneStory
<1>1. IInv => OneStory
  BY DEF IInv, ToldAsIs, OneStory
<1>2. QED
  BY <1>1, InductiveInvariant, PTL

\* A measurement in the V1 format goes to the V1 service under the id it came with
\* only, as no device has a type in one numbering and none in the other.
THEOREM V1IsRelayedAsItCame == Spec => []RelayedAsItCame
<1>1. IInv => RelayedAsItCame
  BY DEF IInv
<1>2. QED
  BY <1>1, InductiveInvariant, PTL

\* What is uploaded is logged, or a goroutine is about to, or an attempt to log it came
\* to nothing (noteHandler, SafecastUpload and SafecastLog).
THEOREM NoUploadGoesUnlogged == Spec => []UploadsAreLogged
<1>1. IInv => UploadsAreLogged
  BY DEF IInv
<1>2. QED
  BY <1>1, InductiveInvariant, PTL

-----------------------------------------------------------------------------
(* Types.                                                                    *)

\* The records that are made of measurements are those of the model's type.
LEMMA StoryTyped ==
    ASSUME NEW m \in Measurement, m.source = "v1" => ReformatFromV1(m).data # {},
           m.source = "note" => m.body # NoBody
    PROVE  /\ Story(m).data \subseteq Kind
           /\ Story(m).data # {} \/ m.source # "v1"
           /\ Story(m).id \in Nat /\ Len(Story(m).uid) \in {2, 3}
<1>1. m.source \in {"gateway", "note", "v1"}
  BY StoryOf
<1>2. CASE m.source = "gateway"
  <2>1. m.id \in Nat /\ m.data \subseteq Kind
    BY <1>2, RoutingAssumption DEF Gatewayed, Noted, Posted
  <2>. QED
    BY <1>2, <2>1 DEF Story, GatewaySD
<1>3. CASE m.source = "note"
  <2>1. m.id \in Nat /\ m.file \in File /\ m.body \in Body
    BY <1>3, RoutingAssumption DEF Gatewayed, Noted, Posted
  <2>2. Story(m).uid = <<"note", "dev", m.id>> /\ Story(m).id \in Nat
    BY <1>3 DEF Story, NoteToSD, NotecardEvent, NotecardId
  <2>3. \A otherwise \in SUBSET Kind : NoteTube(m.body.model, otherwise) \subseteq Kind
    BY DEF NoteTube, Kind, Tube
  <2>4. m.body.has \ {"Count"} \subseteq Kind
    BY <2>1 DEF Body, Kind
  <2>5. {t \in NoteTube(m.body.model, {"U712"}) : "Count" \in m.body.has} \subseteq Kind
    BY <2>3 DEF Kind, Tube
  <2>6. NoteTube(m.body.model, {"Pms"}) \subseteq Kind
    BY <2>3 DEF Kind, Tube
  <2>7. NotecardEvent(m).file = m.file /\ NotecardEvent(m).body = m.body
    BY DEF NotecardEvent
  <2>8. NoteData(NotecardEvent(m)) \subseteq Kind
    BY <2>4, <2>5, <2>6, <2>7 DEF NoteData, Kind, Tube
  <2>9. Story(m).data = NoteData(NotecardEvent(m)) \cup {"Dev"} /\ "Dev" \in Kind
    BY <1>3 DEF Story, NoteToSD, Kind
  <2>. QED
    BY <1>3, <2>2, <2>8, <2>9
<1>4. CASE m.source = "v1"
  <2>1. m.id \in Nat /\ m.unit \in {"cpm", "pm2.5", "tempc", "status", "other"}
    BY <1>4, RoutingAssumption DEF Gatewayed, Noted, Posted
  <2>2. Story(m) = ReformatFromV1(m)
    BY <1>4 DEF Story
  <2>3. V2Id(Renumbered(m.id)) \in Nat
    BY <2>1 DEF V2Id, Renumbered
  <2>4. V1Tube(Renumbered(m.id)) \subseteq Kind
    BY DEF V1Tube, Kind, Tube
  <2>5. ReformatFromV1(m).data \subseteq Kind
    BY <2>1, <2>4 DEF ReformatFromV1, Kind
  <2>. QED
    BY <1>4, <2>2, <2>3, <2>5 DEF ReformatFromV1
<1>. QED
  BY <1>1, <1>2, <1>3, <1>4

\* The event that Notehub makes of a post names one of the models.
LEMMA WebhookTyped ==
    ASSUME NEW sd
    PROVE  WebhookEvent(sd).file \in File /\ WebhookEvent(sd).body \in Body
<1>1. WebhookModel(sd.data) \in Model
  <2>1. CASE sd.data \cap Tube = {}
    BY <2>1 DEF WebhookModel, Model
  <2>2. CASE sd.data \cap Tube # {}
    <3> DEFINE Last(t) == \A u \in sd.data \cap Tube : Turn[u] <= Turn[t]
    <3>1. \E t \in sd.data \cap Tube : Last(t)
      <4>1. CASE "W78017" \in sd.data
        BY <4>1 DEF Tube, Turn
      <4>2. CASE "U712" \in sd.data /\ "W78017" \notin sd.data
        BY <4>2 DEF Tube, Turn
      <4>3. CASE "EC7128" \in sd.data /\ {"U712", "W78017"} \cap sd.data = {}
        BY <4>3 DEF Tube, Turn
      <4>4. CASE "C7318" \in sd.data /\ {"EC7128", "U712", "W78017"} \cap sd.data = {}
        BY <4>4 DEF Tube, Turn
      <4>5. CASE "U7318" \in sd.data /\ {"C7318", "EC7128", "U712", "W78017"} \cap sd.data = {}
        BY <4>5 DEF Tube, Turn
      <4>. QED
        BY <2>2, <4>1, <4>2, <4>3, <4>4, <4>5 DEF Tube
    <3> DEFINE t == CHOOSE t \in sd.data \cap Tube : Last(t)
    <3>2. t \in Tube
      BY <3>1
    <3>3. WebhookModel(sd.data) = ModelOf[t]
      BY <2>2 DEF WebhookModel
    <3> HIDE DEF t
    <3>. QED
      BY <3>2, <3>3 DEF Tube, ModelOf, Model
  <2>. QED
    BY <2>1, <2>2
<1>2. sd.data \cap {"Env", "Bat"} \in SUBSET {"Env", "Bat", "Count"}
  OBVIOUS
<1>. QED
  BY <1>1, <1>2 DEF WebhookEvent, Body, File, SensorFile

\* More measurements sent leave what is typed so.
LEMMA EmitTyped ==
    ASSUME TypeOK, IsFiniteSet(sent), NEW m \in Measurement, Emit(m)
    PROVE  /\ IsFiniteSet(sent') /\ sent' \subseteq Measurement /\ m \in sent'
           /\ Cardinality(sent') <= InFlight /\ sent \subseteq sent'
<1>1. m \notin sent /\ Cardinality(sent) < InFlight /\ sent' = sent \cup {m}
  BY DEF Emit
<1>2. Cardinality(sent) \in Nat
  BY FS_CardinalityType
<1>3. IsFiniteSet(sent') /\ Cardinality(sent') = Cardinality(sent) + 1
  BY <1>1, FS_AddElement
<1>. QED
  BY <1>1, <1>2, <1>3, RoutingAssumption DEF TypeOK

LEMMA TypeNext ==
    ASSUME IInv, TypeOK, IsFiniteSet(sent), [Next]_vars
    PROVE  TypeOK' /\ IsFiniteSet(sent')
<1> DEFINE Job4 == {"ingest", "solarcast", "notehub", "log"}
<1>1. \A sd : SD(sd) /\ sent \subseteq sent' => SD(sd)'
  BY DEF SD
<1>2. \A sd : /\ \A j \in Publish(sd) : j.step \in Job4 /\ j.sd = sd
              /\ Job("log", sd).step = "log" /\ Job("log", sd).sd = sd
  BY DEF Publish, Job
<1>3. ASSUME NEW m \in Measurement, SendSafecastMessage(m)
      PROVE  TypeOK' /\ IsFiniteSet(sent')
  <2>1. /\ m.source = "gateway" /\ Emit(m) /\ Story(m) = GatewaySD(m) /\ Story(m).m = m
        /\ jobs' = jobs \cup Publish(GatewaySD(m))
        /\ UNCHANGED <<events, ingest, v1, notehub, logged, lost>>
    BY <1>3, StoryOf DEF SendSafecastMessage, Story
  <2>2. SD(GatewaySD(m))'
    BY <2>1, EmitTyped, StoryTyped DEF SD, GatewaySD
  <2>. QED
    BY <1>1, <1>2, <2>1, <2>2, EmitTyped DEF TypeOK
<1>4. ASSUME NEW m \in Measurement, Sync(m)
      PROVE  TypeOK' /\ IsFiniteSet(sent')
  <2>1. /\ m.source = "note" /\ Emit(m) /\ events' = events \cup {NotecardEvent(m)}
        /\ UNCHANGED <<jobs, ingest, v1, notehub, logged, lost>>
    BY <1>4 DEF Sync
  <2>2. m.file \in File /\ m.body \in Body \cup {NoBody}
    BY <2>1, RoutingAssumption DEF Gatewayed, Noted, Posted
  <2>3. NotecardEvent(m).m = m /\ NotecardEvent(m).file = m.file /\ NotecardEvent(m).body = m.body
    BY DEF NotecardEvent
  <2>. QED
    BY <1>1, <2>1, <2>2, <2>3, EmitTyped DEF TypeOK
<1>5. ASSUME NEW m \in Measurement, RedirectHandler(m)
      PROVE  TypeOK' /\ IsFiniteSet(sent')
  <2>1. /\ m.source = "v1" /\ Emit(m) /\ v1' \subseteq v1 \cup {[m |-> m, id |-> m.id]}
        /\ jobs' = jobs \cup {Job("redirect", [m |-> m])}
        /\ UNCHANGED <<events, ingest, notehub, logged, lost>>
    BY <1>5 DEF RedirectHandler
  <2>2. m.id \in Nat
    BY <2>1, RoutingAssumption DEF Gatewayed, Noted, Posted
  <2>3. Job("redirect", [m |-> m]).step = "redirect" /\ Job("redirect", [m |-> m]).sd.m = m
    BY DEF Job
  <2>. QED
    BY <1>1, <2>1, <2>2, <2>3, EmitTyped DEF TypeOK
<1>6. ASSUME NEW e \in events, NoteHandler(e)
      PROVE  TypeOK' /\ IsFiniteSet(sent')
  <2>1. e.m \in Measurement /\ e.m.source = "note" /\ e = NotecardEvent(e.m) /\ e.body # NoBody
    <3>1. Colons(e.uid) <= 1 /\ e.body # NoBody
      BY <1>6 DEF NoteHandler, Acceptable
    <3>2. /\ e.m \in Measurement
          /\ (e.m.source = "note" /\ e = NotecardEvent(e.m)) \/ ~(Colons(e.uid) <= 1)
      BY DEF IInv, EventsTraceable
    <3>. QED
      BY <3>1, <3>2
  <2>2. e.m \in sent
    BY DEF TypeOK
  <2>3. NoteToSD(e) = Story(e.m) /\ Story(e.m).m = e.m /\ e.m.body # NoBody
    BY <2>1, StoryOf DEF Story, NotecardEvent
  <2>4. SD(NoteToSD(e))
    BY <2>1, <2>2, <2>3, StoryTyped DEF SD
  <2>5. /\ jobs' \subseteq jobs \cup {Job("log", NoteToSD(e))} \cup Publish(NoteToSD(e))
        /\ UNCHANGED <<sent, events, ingest, v1, notehub, logged, lost>>
    BY <1>6 DEF NoteHandler
  <2>. QED
    BY <1>1, <1>2, <2>4, <2>5 DEF TypeOK
<1>7. ASSUME NEW j \in jobs, Redirect(j)
      PROVE  TypeOK' /\ IsFiniteSet(sent')
  <2>1. j.step = "redirect" /\ UNCHANGED <<sent, events, ingest, v1, notehub, logged, lost>>
    BY <1>7 DEF Redirect
  <2>2. j.sd.m \in Measurement /\ j.sd.m.source = "v1" /\ j.sd.m \in sent
    BY <2>1 DEF IInv, JobsWellFormed, TypeOK
  <2>3. CASE ReformatFromV1(j.sd.m).data # {} /\ jobs' = (jobs \ {j}) \cup Publish(ReformatFromV1(j.sd.m))
    <3>1. Story(j.sd.m) = ReformatFromV1(j.sd.m) /\ Story(j.sd.m).m = j.sd.m
      BY <2>2, StoryOf DEF Story
    <3>2. SD(ReformatFromV1(j.sd.m))
      BY <2>2, <2>3, <3>1, StoryTyped DEF SD
    <3>. QED
      BY <1>1, <1>2, <2>1, <2>3, <3>2 DEF TypeOK
  <2>4. CASE jobs' = jobs \ {j}
    BY <1>1, <2>1, <2>4 DEF TypeOK
  <2>. QED
    BY <1>7, <2>3, <2>4 DEF Redirect, Done
<1>8. ASSUME NEW j \in jobs, DoUploadToSafecast(j) \/ WriteToLogs(j)
      PROVE  TypeOK' /\ IsFiniteSet(sent')
  <2>1. /\ jobs' = jobs \ {j} /\ j.step \in {"ingest", "log"}
        /\ ingest' \subseteq ingest \cup {j.sd} /\ (logged \cup lost)' \subseteq logged \cup lost \cup {j.sd}
        /\ UNCHANGED <<sent, events, v1, notehub>>
    BY <1>8 DEF DoUploadToSafecast, WriteToLogs, Done
  <2>2. SD(j.sd)
    BY <2>1 DEF TypeOK
  <2>. QED
    BY <1>1, <2>1, <2>2 DEF TypeOK
<1>9. ASSUME NEW j \in jobs, DoSolarcastV1Uploads(j)
      PROVE  TypeOK' /\ IsFiniteSet(sent')
  <2>1. /\ jobs' = jobs \ {j} /\ j.step = "solarcast"
        /\ UNCHANGED <<sent, events, ingest, notehub, logged, lost>>
    BY <1>9 DEF DoSolarcastV1Uploads, Done
  <2>2. PICK received \in SUBSET ReformatToV1(j.sd) :
            v1' = v1 \cup {[m |-> j.sd.m, id |-> id] : id \in received}
    BY <1>9 DEF DoSolarcastV1Uploads
  <2>3. SD(j.sd)
    BY <2>1 DEF TypeOK
  <2>4. \A id \in ReformatToV1(j.sd) : id \in Nat
    BY RoutingAssumption DEF ReformatToV1
  <2>5. \A r \in v1' : r.m \in sent /\ r.id \in Nat
    BY <2>2, <2>3, <2>4 DEF SD, TypeOK
  <2>. QED
    BY <1>1, <2>1, <2>5 DEF TypeOK
<1>10. ASSUME NEW j \in jobs, DoUploadToNotehub(j)
      PROVE  TypeOK' /\ IsFiniteSet(sent')
  <2>1. /\ jobs' = jobs \ {j} /\ j.step = "notehub"
        /\ events' \subseteq events \cup {WebhookEvent(j.sd)} /\ notehub' \subseteq notehub \cup {j.sd}
        /\ UNCHANGED <<sent, ingest, v1, logged, lost>>
    BY <1>10 DEF DoUploadToNotehub, PostToNotehub, Done
  <2>2. SD(j.sd)
    BY <2>1 DEF TypeOK
  <2>3. WebhookEvent(j.sd).m = j.sd.m /\ j.sd.m \in sent
    BY <2>2 DEF WebhookEvent, SD
  <2>. QED
    BY <1>1, <2>1, <2>2, <2>3, WebhookTyped DEF TypeOK
<1>11. ASSUME NEW gone \in SUBSET jobs, Exit(gone)
       PROVE  TypeOK' /\ IsFiniteSet(sent')
  <2>1. /\ jobs' \subseteq jobs
        /\ lost' = lost \cup {j.sd : j \in {k \in gone : k.step = "log"}}
        /\ UNCHANGED <<sent, events, ingest, v1, notehub, logged>>
    BY <1>11 DEF Exit
  <2>2. \A sd \in lost' : SD(sd)
    BY <2>1 DEF TypeOK
  <2>. QED
    BY <1>1, <2>1, <2>2 DEF TypeOK
<1>12. CASE UNCHANGED vars
  BY <1>1, <1>12 DEF vars, TypeOK
<1>. QED
  BY <1>3, <1>4, <1>5, <1>6, <1>7, <1>8, <1>9, <1>10, <1>11, <1>12 DEF Next, Work

\* Every job, event and record is one of a measurement that was sent, of a known
\* format, and no V1 measurement of nothing is published.
THEOREM TypeCorrect == Spec => []TypeOK
<1> DEFINE Finite == IsFiniteSet(sent)
<1>1. Init => TypeOK /\ Finite
  BY FS_EmptySet, RoutingAssumption DEF Init, TypeOK
<1>2. IInv /\ TypeOK /\ Finite /\ [Next]_vars => TypeOK' /\ Finite'
  BY TypeNext
<1> HIDE DEF Finite
<1>. QED
  BY <1>1, <1>2, InitIInv, NextIInv, PTL DEF Spec
=============================================================================
