------------------------------- MODULE Routing -------------------------------
(***************************************************************************)
(* Where a measurement goes: the three ways in (SendSafecastMessage in     *)
(* src/safecast.go, noteHandler in src/http-note.go, and the handler of    *)
(* src/http-redirect.go), the conversions between their formats            *)
(* (src/reformat.go), and the goroutines that Upload and WriteToLogs spawn *)
(* for the Ingest service, the V1 service, Notehub and the log.            *)
(*                                                                         *)
(* Notehub is both a source and a destination: it routes its events to     *)
(* this server, those included that this server has posted to it.          *)
(*                                                                         *)
(* A reading is abstracted to the kind of sensor that took it.  The broker *)
(* is left out: nothing connects to it, so that brokerPublish returns.     *)
(***************************************************************************)
EXTENDS Integers, Sequences, FiniteSets

CONSTANTS
    Measurement,   \* what devices send, see Gatewayed, Noted and Posted
    Serial,        \* the devices that the sheet knows, and their serial numbers
    InFlight,      \* bound: measurements sent in one behaviour
    NoBody

Tube == {"U7318", "C7318", "EC7128", "U712", "W78017"}
Kind == Tube \cup {"Pms", "Pms2", "Opc", "Env", "Bat", "Track", "Dev"}

\* The body of an event: the model of the sensor, and what else it holds.  Count
\* is a radiation count above 0.
Model == {"none", "lnd712", "lnd7317", "lnd7128", "lnd78017"}
Body == [model : Model, has : SUBSET {"Env", "Bat", "Count"}]

SensorFile == {"_air.qo", "_track.qo", "bat.qo", "air-bme280.qo", "rad0-lnd7318u.qo",
               "rad0-lnd7318c.qo", "rad0-lnd7128ec.qo", "aq0-pms7003.qo",
               "aq1-pms7003.qo", "track.qo"}
File == SensorFile \cup {"_session.qo", "other"}

Gatewayed == [source : {"gateway"}, id : Nat, data : SUBSET Kind]
Noted == [source : {"note"}, id : Nat, product : BOOLEAN, file : File,
          body : Body \cup {NoBody}]
\* valid: the request comes from an address that is not abusive, and decodes.
\* A status is one that tells the voltage and some counts.
Posted == [source : {"v1"}, id : Nat, valid : BOOLEAN, zero : BOOLEAN, test : BOOLEAN,
           unit : {"cpm", "pm2.5", "tempc", "status", "other"}]

ASSUME RoutingAssumption ==
    /\ Measurement \subseteq Gatewayed \cup Noted \cup Posted
    /\ InFlight \in Nat \ {0}
    /\ DOMAIN Serial \subseteq Nat /\ \A id \in DOMAIN Serial : Serial[id] \in Nat
    /\ NoBody \notin Body

VARIABLES
    sent,      \* measurements that devices have sent
    events,    \* events that Notehub routes here, each any number of times
    jobs,      \* goroutines at work: what each does, on which data
    ingest,    \* what the Ingest service has received
    v1,        \* what the V1 service has received, and under which id
    notehub,   \* what has been posted to Notehub
    logged,    \* what has been written to the log of a device
    lost       \* history: what was to be logged, and was dropped, or its write failed,
               \* or the instance exited before it

vars == <<sent, events, jobs, ingest, v1, notehub, logged, lost>>

-----------------------------------------------------------------------------
(* Device ids and their conversion.                                         *)

Among(id, first, last) == first <= id /\ id <= last

DeviceType(id) ==
    CASE Among(id, 10000, 29999) \/ id = 100 -> "pointcast"
      [] Among(id, 50000, 59999) -> "safecast-air"
      [] Among(id, 60000, 64999) -> "geigiecast"
      [] Among(id, 65000, 69999) -> "geigiecast-zen"
      [] Among(id, 1, 999) /\ id # 100 -> "ngeigie"
      [] OTHER -> "none"

Pointcast(id) == Among(id, 100000, 299999) \/ Among(id, 1000, 1999)

\* Device ids as pointcast, safecast-air or nGeigie devices number themselves.
V1DeviceType(id) ==
    CASE Pointcast(id) -> "pointcast"
      [] Among(id, 1, 999) -> "ngeigie"
      [] Among(id, 50000, 69999) -> DeviceType(id)
      [] OTHER -> "none"

\* Bug: the last digit, which tells the tube, is kept.
V2IdUndivided(id) == id

V2Id(id) == IF Pointcast(id) THEN id \div 10 ELSE id

\* The record that SendSafecastMessage builds, its readings as they came.
GatewaySD(m) ==
    [m |-> m, id |-> m.id, data |-> m.data,
     uid |-> <<IF DeviceType(m.id) = "none" THEN "safecast" ELSE DeviceType(m.id), m.id>>]

\* A few devices have a tube of their own.
V1Tube(id) ==
    LET v2 == V2Id(id)
        type == V1DeviceType(id)
    IN IF v2 \in {100, 63, 54} THEN {"U712"}
       ELSE IF v2 \in {78, 20105} THEN {"W78017"}
       ELSE {t \in {"U7318"} : \/ type \in {"ngeigie", "geigiecast", "geigiecast-zen"}
                               \/ type = "pointcast" /\ id % 10 = 1}
            \cup {t \in {"EC7128"} : type = "pointcast" /\ id % 10 = 2}

\* One particular device is partially converted to another firmware.
Renumbered(id) == IF id = 48 THEN 40 ELSE id

\* A device id of 0 or of no known type is not reformatted, nor is the count of
\* a tube that is known to be missing.
Reformattable(m) ==
    /\ V1DeviceType(Renumbered(m.id)) # "none"
    /\ ~(m.unit = "cpm" /\ m.id = 1001 /\ m.zero)

ReformatFromV1(m) ==
    LET id == Renumbered(m.id)
    IN [m |-> m, uid |-> <<V1DeviceType(id), V2Id(id)>>, id |-> V2Id(id),
        data |-> {k \in {"Dev"} : m.test} \cup
           CASE m.unit = "cpm" -> V1Tube(id)
             [] m.unit = "pm2.5" -> {"Opc"}
             [] m.unit = "tempc" -> {"Env"}
             [] m.unit = "status" -> {"Env", "Bat", "Dev"}
             [] OTHER -> {}]

\* The V1 ids under which a Solarcast, which has no type, is reported as three.
ReformatToV1(sd) ==
    IF sd.id = 0 \/ DeviceType(sd.id) # "none" \/ sd.id \notin DOMAIN Serial
        \/ Serial[sd.id] = 0
        THEN {}
        ELSE {Serial[sd.id] * 10 + 1 : k \in sd.data \cap {"U7318", "U712", "W78017"}}
             \cup {Serial[sd.id] * 10 + 2 : k \in sd.data \cap {"C7318", "EC7128"}}
             \cup {Serial[sd.id] * 10 + 9 : k \in sd.data \cap {"Env"}}

-----------------------------------------------------------------------------
(* Events of Notehub.                                                       *)

Colons(uid) == Len(uid) - 1

\* Bug: no protection against events that this server has posted.
AcceptableAnyName(e) ==
    /\ e.product
    /\ e.body # NoBody
    /\ e.file # "other"

Acceptable(e) ==
    /\ Colons(e.uid) <= 1
    /\ e.product
    /\ e.body # NoBody
    /\ e.file # "other"

NoteTube(model, otherwise) ==
    CASE model = "lnd712" -> {"U712"}
      [] model = "lnd7317" -> {"C7318"}
      [] OTHER -> otherwise

NoteData(e) ==
    CASE e.file = "_air.qo" -> NoteTube(e.body.model, {"Pms"}) \cup (e.body.has \ {"Count"})
      [] e.file = "_track.qo" ->
            {t \in NoteTube(e.body.model, {"U712"}) : "Count" \in e.body.has}
            \cup {"Bat", "Env", "Track"}
      [] e.file = "bat.qo" -> {"Bat"}
      [] e.file = "air-bme280.qo" -> {"Env"}
      [] e.file = "rad0-lnd7318u.qo" -> {"U7318"}
      [] e.file = "rad0-lnd7318c.qo" -> {"C7318"}
      [] e.file = "rad0-lnd7128ec.qo" -> {"EC7128"}
      [] e.file = "aq0-pms7003.qo" -> {"Pms"}
      [] e.file = "aq1-pms7003.qo" -> {"Pms2"}
      [] e.file = "track.qo" -> {"Track"}
      [] OTHER -> {}

\* Notecards are numbered by a hash, above all ids that are allocated.
NotecardId == 1048576

\* What Notehub makes of a note of one of its devices.
NotecardEvent(m) == [m |-> m, uid |-> <<"dev", m.id>>, product |-> m.product,
                     file |-> m.file, body |-> m.body]

\* Dev is there even when it is empty.  The event's own voltage is left out.
NoteToSD(e) == [m |-> e.m, uid |-> <<"note">> \o e.uid, id |-> NotecardId,
                data |-> NoteData(e) \cup {"Dev"}]

IsFromNotehub(uid) == Head(uid) = "note"

\* The tubes are looked at in turn, and the last one names the model.
Turn == [U7318 |-> 1, C7318 |-> 2, EC7128 |-> 3, U712 |-> 4, W78017 |-> 5]
ModelOf == [U7318 |-> "lnd7317", C7318 |-> "lnd7317", EC7128 |-> "lnd7128",
            U712 |-> "lnd712", W78017 |-> "lnd78017"]
WebhookModel(data) ==
    IF data \cap Tube = {} THEN "none"
    ELSE ModelOf[CHOOSE t \in data \cap Tube :
                    \A u \in data \cap Tube : Turn[u] <= Turn[t]]

\* What Notehub makes of a posted event: a device of the webhook, in a project.
\* The ambient readings of Dev, which replace those of Env, are left out.
WebhookEvent(sd) ==
    [m |-> sd.m, uid |-> <<"webhook">> \o sd.uid, product |-> TRUE, file |-> "_air.qo",
     body |-> [model |-> WebhookModel(sd.data), has |-> sd.data \cap {"Env", "Bat"}]]

-----------------------------------------------------------------------------
Init ==
    /\ sent = {} /\ events = {} /\ jobs = {}
    /\ ingest = {} /\ v1 = {} /\ notehub = {} /\ logged = {} /\ lost = {}

Job(step, sd) == [step |-> step, sd |-> sd]

\* Bug: only one of the two calls is made.
PublishUnlogged(sd) == {Job(step, sd) : step \in {"ingest", "solarcast", "notehub"}}

\* SafecastUpload and SafecastLog.
Publish(sd) == {Job(step, sd) : step \in {"ingest", "solarcast", "notehub", "log"}}

Emit(m) ==
    /\ m \notin sent
    /\ Cardinality(sent) < InFlight
    /\ sent' = sent \cup {m}

\* A device's message comes through a gateway, and its stamp has been applied.
SendSafecastMessage(m) ==
    /\ m.source = "gateway"
    /\ Emit(m)
    /\ jobs' = jobs \cup Publish(GatewaySD(m))
    /\ UNCHANGED <<events, ingest, v1, notehub, logged, lost>>

\* A notecard synchronises with Notehub.
Sync(m) ==
    /\ m.source = "note"
    /\ Emit(m)
    /\ events' = events \cup {NotecardEvent(m)}
    /\ UNCHANGED <<jobs, ingest, v1, notehub, logged, lost>>

\* Notehub routes an event here, or does so again.
NoteHandler(e) ==
    /\ Acceptable(e)
    /\ jobs' = jobs \cup (IF e.file = "_session.qo"
                              THEN {Job("log", NoteToSD(e))}
                              ELSE Publish(NoteToSD(e)))
    /\ UNCHANGED <<sent, events, ingest, v1, notehub, logged, lost>>

\* The request is relayed to the V1 service, which may fail, and answered.
RedirectHandler(m) ==
    /\ m.source = "v1"
    /\ m.valid
    /\ Emit(m)
    /\ \/ v1' = v1 \cup {[m |-> m, id |-> m.id]}
       \/ UNCHANGED v1
    /\ jobs' = jobs \cup {Job("redirect", [m |-> m])}
    /\ UNCHANGED <<events, ingest, notehub, logged, lost>>

-----------------------------------------------------------------------------
(* The goroutines.                                                          *)

Done(j) == jobs' = jobs \ {j}

\* After the relay, the request is converted.  A measurement of nothing is dropped.
Redirect(j) ==
    LET m == j.sd.m
    IN /\ j.step = "redirect"
       /\ IF Reformattable(m) /\ ReformatFromV1(m).data # {}
              THEN jobs' = (jobs \ {j}) \cup Publish(ReformatFromV1(m))
              ELSE Done(j)
       /\ UNCHANGED <<sent, events, ingest, v1, notehub, logged, lost>>

\* The service is not reached: the error is reported, and there is no retry.
DoUploadToSafecast(j) ==
    /\ j.step = "ingest"
    /\ Done(j)
    /\ \/ ingest' = ingest \cup {j.sd}
       \/ UNCHANGED ingest
    /\ UNCHANGED <<sent, events, v1, notehub, logged, lost>>

\* One request after the other, each of which may fail.
DoSolarcastV1Uploads(j) ==
    /\ j.step = "solarcast"
    /\ Done(j)
    /\ \E received \in SUBSET ReformatToV1(j.sd) :
          v1' = v1 \cup {[m |-> j.sd.m, id |-> id] : id \in received}
    /\ UNCHANGED <<sent, events, ingest, notehub, logged, lost>>

\* The post is received, and Notehub has an event of its own.
PostToNotehub(sd) ==
    /\ notehub' = notehub \cup {sd}
    /\ events' = events \cup {WebhookEvent(sd)}

\* Bug: what comes from Notehub goes back.
DoUploadAllToNotehub(j) ==
    /\ j.step = "notehub"
    /\ Done(j)
    /\ PostToNotehub(j.sd) \/ UNCHANGED <<notehub, events>>
    /\ UNCHANGED <<sent, ingest, v1, logged, lost>>

\* Nothing is posted for an empty body, which that of Pms readings of 0 is too.
\* Of Dev the ambient readings count, if there are any.  The post may fail.
DoUploadToNotehub(j) ==
    /\ j.step = "notehub"
    /\ Done(j)
    /\ \/ /\ ~IsFromNotehub(j.sd.uid)
          /\ j.sd.data \cap (Tube \cup {"Env", "Bat", "Pms", "Dev"}) # {}
          /\ PostToNotehub(j.sd)
       \/ UNCHANGED <<notehub, events>>
    /\ UNCHANGED <<sent, ingest, v1, logged, lost>>

\* The file cannot be opened, or was created by another in between, or a write to it
\* fails: nobody is told.
WriteToLogs(j) ==
    /\ j.step = "log"
    /\ Done(j)
    /\ \/ logged' = logged \cup {j.sd} /\ UNCHANGED lost
       \/ lost' = lost \cup {j.sd} /\ UNCHANGED logged
    /\ UNCHANGED <<sent, events, ingest, v1, notehub>>

Work(j) ==
    \/ Redirect(j)
    \/ DoUploadToSafecast(j)
    \/ DoSolarcastV1Uploads(j)
    \/ DoUploadToNotehub(j)
    \/ WriteToLogs(j)

\* An instance exits, with the goroutines that it runs.
Exit(gone) ==
    /\ gone # {}
    /\ jobs' = jobs \ gone
    /\ lost' = lost \cup {j.sd : j \in {k \in gone : k.step = "log"}}
    /\ UNCHANGED <<sent, events, ingest, v1, notehub, logged>>

Next ==
    \/ \E m \in Measurement : SendSafecastMessage(m) \/ Sync(m) \/ RedirectHandler(m)
    \/ \E e \in events : NoteHandler(e)
    \/ \E j \in jobs : Work(j)
    \/ \E gone \in SUBSET jobs : Exit(gone)

Spec == Init /\ [][Next]_vars

-----------------------------------------------------------------------------
(* The properties.                                                          *)

SD(sd) ==
    /\ sd.m \in sent
    /\ sd.data \subseteq Kind /\ (sd.data # {} \/ sd.m.source # "v1")
    /\ sd.id \in Nat
    /\ Len(sd.uid) \in {2, 3}

TypeOK ==
    /\ sent \subseteq Measurement /\ Cardinality(sent) <= InFlight
    /\ \A e \in events : e.m \in sent /\ e.file \in File /\ e.body \in Body \cup {NoBody}
    /\ \A j \in jobs :
          \/ j.step = "redirect" /\ j.sd.m \in sent
          \/ j.step \in {"ingest", "solarcast", "notehub", "log"} /\ SD(j.sd)
    /\ \A sd \in ingest \cup notehub \cup logged \cup lost : SD(sd)
    /\ \A r \in v1 : r.m \in sent /\ r.id \in Nat

\* "Do NOT, under any circumstances, send Notehub-originated data back to Notehub
\* else we will be in a circular loop of data" (safecast.go:974): what a notecard
\* has measured is never posted to Notehub, and nothing is posted a second time
\* when Notehub routes back what it was posted.
NothingCirculates ==
    \A p, q \in notehub : p.m.source # "note" /\ (p.m = q.m => p = q)

\* Whatever way a measurement takes, and although Notehub may bring it back under
\* another device and another model of sensor, the Ingest service and the logs
\* are told one story: the same device, and the same readings.
OneStory == \A r, s \in ingest \cup logged : r.m = s.m => r = s

\* A measurement that came through the V1 format is relayed as it came, and never
\* reported a second time as one of a Solarcast, although the two formats number
\* devices differently.
RelayedAsItCame == \A r \in v1 : r.m.source = "v1" => r.id = r.m.id

\* What the Ingest service has been told of is in the log, or on its way there, or
\* there was an attempt to log it that failed, or that the exit of the instance cut
\* short.  The upload and the log go separate ways from the first (http-note.go:154
\* and 163), so that neither a failure nor a delay of the one is one of the other, and
\* the conversion of a V1 request, which comes first, loses both or none.
UploadsAreLogged == \A r \in ingest : r \in logged \cup lost \/ Job("log", r) \in jobs
=============================================================================
