-------------------------------- MODULE Stamp --------------------------------
(***************************************************************************)
(* Message stamping, src/stamp.go, and the part of SendSafecastMessage in  *)
(* src/safecast.go that consumes a stamped message.                        *)
(*                                                                         *)
(* A device uploads its GPS time and position rarely, under a stamp id,    *)
(* and later messages only name the stamp.  Every server instance caches   *)
(* the last stamp of each device behind a mutex; all instances share one   *)
(* stamp file per device on a network file system that has no locking.     *)
(* A stamped message keeps POINTERS into the cache entry (date, time,      *)
(* altitude, test mode, motion) and follows them after the mutex has been  *)
(* released.                                                               *)
(*                                                                         *)
(* Values are abstracted to their provenance: a field holds the stamp whose*)
(* value it carries, not the value.                                        *)
(***************************************************************************)
EXTENDS Naturals, Sequences

CONSTANTS
    Instance,      \* server processes behind the load balancer
    Device,        \* device ids
    Stamp,         \* stamp ids a device may choose
    Thread,        \* goroutines handling inbound messages
    Home,          \* the instance each goroutine runs in
    Located,       \* stamps with a nonzero latitude or longitude
    HasAltitude,   \* stamps with a nonzero altitude
    HasMotion,     \* stamps with a motion offset
    SaysTest,      \* stamps that state the test mode
    InTest,        \* stamps that state it to be on
    None, Own, Now, Unreadable

ASSUME StampAssumption ==
    /\ Home \in [Thread -> Instance]
    /\ Located \subseteq Stamp
    /\ HasAltitude \subseteq Stamp
    /\ HasMotion \subseteq Stamp
    /\ SaysTest \subseteq Stamp
    /\ InTest \subseteq SaysTest

\* What a stampFile holds: the device that sent it and the stamp id.
Content == [dev : Device, stamp : Stamp]

\* The special values are not stamp contents, goroutines or one another.
ASSUME SpecialValuesAssumption ==
    /\ {None, Own, Now, Unreadable} \cap Content = {}
    /\ None \notin Thread
    /\ Own # None /\ Own # Now /\ Now # None

\* A stamper carries a StampVersion; it is "badset" when the version is unknown
\* or a required field is missing.  A stampee names a stamp, and may carry an
\* offset from the stamp's time and a location of its own.
Message ==
    [kind : {"set"}, dev : Device, stamp : Stamp, offset : {FALSE}, located : {FALSE}]
    \cup [kind : {"badset", "plain"}, dev : Device, stamp : {None},
          offset : {FALSE}, located : {FALSE}]
    \cup [kind : {"apply"}, dev : Device, stamp : Stamp,
          offset : BOOLEAN, located : BOOLEAN]

\* The fields a stamped message holds by pointer, in the order in which
\* SendSafecastMessage follows them.
Rank == [date |-> 1, time |-> 2, alt |-> 3, motion |-> 4, test |-> 5]
Field == DOMAIN Rank

Uploaded == [loc : Content \cup {None, Own},
             date : Content \cup {None, Now}, time : Content \cup {None, Now},
             alt : Content \cup {None}, motion : Content \cup {None},
             test : Content \cup {None}]

NoFields == [loc |-> None, date |-> None, time |-> None,
             alt |-> None, motion |-> None, test |-> None]

\* An entry of the cachedDevices slice; its cell is blank until first filled.
CachedDevice == [deviceid : Device, valid : BOOLEAN, cache : Content \cup {None}]

VARIABLES
    file,           \* the shared stamp file of each device
    cachedDevices,  \* per instance, the slice of cache entries
    cacheLock,      \* per instance, the goroutine holding the mutex
    pc, msg,        \* per goroutine, where it is and its message
    entry,          \* its CacheEntry index
    frozen,         \* what its pointers see once append has moved the slice
    todo,           \* the pointers it has still to follow
    out,            \* the fields of the record it uploads
    steady          \* history: see SteadyStampUsed

vars == <<file, cachedDevices, cacheLock, pc, msg, entry, frozen, todo, out, steady>>

Cached(t) == cachedDevices[Home[t]][entry[t]]
Named(t) == [dev |-> msg[t].dev, stamp |-> msg[t].stamp]
Writing(d) == {t \in Thread : pc[t] = "write" /\ msg[t].dev = d}

Init ==
    /\ file = [d \in Device |-> Unreadable]
    /\ cachedDevices = [i \in Instance |-> <<>>]
    /\ cacheLock = [i \in Instance |-> None]
    /\ pc = [t \in Thread |-> "idle"]
    /\ msg = [t \in Thread |-> None]
    /\ entry = [t \in Thread |-> 0]
    /\ frozen = [t \in Thread |-> None]
    /\ todo = [t \in Thread |-> {}]
    /\ out = [t \in Thread |-> NoFields]
    /\ steady = [t \in Thread |-> FALSE]

Goto(t, label) == pc' = [pc EXCEPT ![t] = label]
Unlock(t) == cacheLock' = [cacheLock EXCEPT ![Home[t]] = None]
Cache(t, valid, content) ==
    cachedDevices' = [cachedDevices EXCEPT ![Home[t]][entry[t]] =
                         [deviceid |-> @.deviceid, valid |-> valid, cache |-> content]]
Invalidate(t) == Cache(t, FALSE, Cached(t).cache)

-----------------------------------------------------------------------------
(* A message of any device reaches any instance: UDP, TCP and HTTP          *)
(* deliveries are lost, repeated and reordered on the way.                  *)
Receive(t) ==
    /\ pc[t] = "idle"
    /\ \E m \in Message :
        /\ msg' = [msg EXCEPT ![t] = m]
        /\ steady' = [steady EXCEPT ![t] =
                         /\ m.kind = "apply"
                         /\ file[m.dev] = [dev |-> m.dev, stamp |-> m.stamp]
                         /\ Writing(m.dev) = {}]
    /\ Goto(t, "arrived")
    /\ UNCHANGED <<file, cachedDevices, cacheLock, entry, frozen, todo, out>>

\* Bug: a read lock, which lets several goroutines in.
LockShared(t) ==
    /\ pc[t] = "arrived"
    /\ cacheLock' = [cacheLock EXCEPT ![Home[t]] = t]
    /\ Goto(t, "find")
    /\ UNCHANGED <<file, cachedDevices, msg, entry, frozen, todo, out, steady>>

Lock(t) ==
    /\ pc[t] = "arrived"
    /\ cacheLock[Home[t]] = None
    /\ cacheLock' = [cacheLock EXCEPT ![Home[t]] = t]
    /\ Goto(t, "find")
    /\ UNCHANGED <<file, cachedDevices, msg, entry, frozen, todo, out, steady>>

\* The linear search for the device's entry.
Find(t) ==
    LET slice == cachedDevices[Home[t]]
        hits == {n \in 1 .. Len(slice) : slice[n].deviceid = msg[t].dev}
    IN /\ pc[t] = "find"
       /\ \/ /\ hits = {}
             /\ Goto(t, "create")
             /\ UNCHANGED entry
          \/ \E n \in hits :
                /\ \A k \in hits : n <= k
                /\ entry' = [entry EXCEPT ![t] = n]
                /\ Goto(t, msg[t].kind)
       /\ UNCHANGED <<file, cachedDevices, cacheLock, msg, frozen, todo, out, steady>>

\* Appending the entry may move the slice; pointers into the old one then keep
\* what it held.
Create(t) ==
    LET i == Home[t]
    IN /\ pc[t] = "create"
       /\ cachedDevices' = [cachedDevices EXCEPT ![i] =
              Append(@, [deviceid |-> msg[t].dev, valid |-> FALSE, cache |-> None])]
       /\ entry' = [entry EXCEPT ![t] = Len(cachedDevices[i]) + 1]
       /\ \E moves \in BOOLEAN :
              frozen' = [u \in Thread |->
                  IF moves /\ Home[u] = i /\ pc[u] = "send" /\ frozen[u] = None
                      THEN Cached(u).cache
                      ELSE frozen[u]]
       /\ Goto(t, msg[t].kind)
       /\ UNCHANGED <<file, cacheLock, msg, todo, out, steady>>

\* Neither a stamper nor a stampee.
Plain(t) ==
    /\ pc[t] = "plain"
    /\ Unlock(t)
    /\ Goto(t, "done")
    /\ UNCHANGED <<file, cachedDevices, msg, entry, frozen, todo, out, steady>>

-----------------------------------------------------------------------------
(* stpSet.  The cache entry is invalid from its first line until the file   *)
(* has been written; the file is truncated by the open and written next, so *)
(* another instance can read it in between.                                 *)
SetMalformed(t) ==
    /\ pc[t] = "badset"
    /\ Invalidate(t)
    /\ Unlock(t)
    /\ Goto(t, "done")
    /\ UNCHANGED <<file, msg, entry, frozen, todo, out, steady>>

\* Bug: the error return keeps the mutex.
SetOpenFailsLocked(t) ==
    /\ pc[t] = "set"
    /\ Invalidate(t)
    /\ Goto(t, "done")
    /\ UNCHANGED <<file, cacheLock, msg, entry, frozen, todo, out, steady>>

SetOpenFails(t) ==
    /\ pc[t] = "set"
    /\ Invalidate(t)
    /\ Unlock(t)
    /\ Goto(t, "done")
    /\ UNCHANGED <<file, msg, entry, frozen, todo, out, steady>>

SetOpen(t) ==
    /\ pc[t] = "set"
    /\ Invalidate(t)
    /\ file' = [file EXCEPT ![msg[t].dev] = Unreadable]
    /\ steady' = [u \in Thread |-> steady[u] /\ msg[u].dev # msg[t].dev]
    /\ Goto(t, "write")
    /\ UNCHANGED <<cacheLock, msg, entry, frozen, todo, out>>

\* The result of WriteString is ignored: a failed or partial write, or one laid
\* over a longer stamp that another instance has just written, is cached too.
SetWrite(t) ==
    /\ pc[t] = "write"
    /\ \E result \in {Named(t), Unreadable, file[msg[t].dev]} :
           file' = [file EXCEPT ![msg[t].dev] = result]
    /\ Cache(t, TRUE, Named(t))
    /\ Unlock(t)
    /\ Goto(t, "done")
    /\ UNCHANGED <<msg, entry, frozen, todo, out, steady>>

-----------------------------------------------------------------------------
(* stpApply: refresh the cache if it is invalid or names another stamp, then *)
(* stamp the message, use the cache as last known good, or discard.          *)
\* Bug: any valid entry is taken for the stamp the message names.
HitAny(t) == Cached(t).valid

Hit(t) == Cached(t).valid /\ Cached(t).cache = Named(t)

ApplyCached(t) ==
    /\ pc[t] = "apply"
    /\ Hit(t)
    /\ Goto(t, "stamp")
    /\ UNCHANGED <<file, cachedDevices, cacheLock, msg, entry, frozen, todo, out, steady>>

\* Bug: the refreshed entry is not marked valid again.
ApplyRefreshUnmarked(t) ==
    /\ pc[t] = "apply"
    /\ ~Hit(t)
    /\ IF file[msg[t].dev] = Unreadable
           THEN Invalidate(t)
           ELSE Cache(t, Cached(t).valid, file[msg[t].dev])
    /\ Goto(t, "stamp")
    /\ UNCHANGED <<file, cacheLock, msg, entry, frozen, todo, out, steady>>

ApplyRefresh(t) ==
    /\ pc[t] = "apply"
    /\ ~Hit(t)
    /\ IF file[msg[t].dev] = Unreadable
           THEN Invalidate(t)
           ELSE Cache(t, TRUE, file[msg[t].dev])
    /\ Goto(t, "stamp")
    /\ UNCHANGED <<file, cacheLock, msg, entry, frozen, todo, out, steady>>

\* The read of the network file fails although the file is good.
ApplyReadFails(t) ==
    /\ pc[t] = "apply"
    /\ ~Hit(t)
    /\ Invalidate(t)
    /\ steady' = [steady EXCEPT ![t] = FALSE]
    /\ Goto(t, "stamp")
    /\ UNCHANGED <<file, cacheLock, msg, entry, frozen, todo, out>>

ApplyDiscard(t) ==
    /\ pc[t] = "stamp"
    /\ ~Cached(t).valid
    /\ Unlock(t)
    /\ Goto(t, "discarded")
    /\ UNCHANGED <<file, cachedDevices, msg, entry, frozen, todo, out, steady>>

\* The location is copied out of the cache while the mutex is held.
CopiedLocation(t) ==
    IF msg[t].located THEN Own
    ELSE IF Cached(t).cache.stamp \in Located THEN Cached(t).cache
    ELSE None

\* The altitude goes by pointer, together with a copied location.
AltitudePointer(t) ==
    {f \in {"alt"} : /\ ~msg[t].located
                     /\ Cached(t).cache.stamp \in Located \cap HasAltitude}

\* The date and time are pointed to only if the message has an offset to add;
\* the motion offset is used only together with them.
StampPointers(t) ==
    AltitudePointer(t)
        \cup {f \in {"date", "time"} : msg[t].offset}
        \cup {f \in {"motion"} : msg[t].offset /\ Cached(t).cache.stamp \in HasMotion}
        \cup {f \in {"test"} : Cached(t).cache.stamp \in InTest}

LastKnownGoodPointers(t) ==
    AltitudePointer(t) \cup {f \in {"test"} : Cached(t).cache.stamp \in SaysTest}

ApplyStamp(t) ==
    /\ pc[t] = "stamp"
    /\ Hit(t)
    /\ out' = [out EXCEPT ![t].loc = CopiedLocation(t)]
    /\ todo' = [todo EXCEPT ![t] = StampPointers(t)]
    /\ Unlock(t)
    /\ Goto(t, "send")
    /\ UNCHANGED <<file, cachedDevices, msg, entry, frozen, steady>>

\* The stamp the message names is not to be had: last known good modes and
\* place, and the server's clock for the time.
ApplyLastKnownGood(t) ==
    /\ pc[t] = "stamp"
    /\ Cached(t).valid
    /\ ~Hit(t)
    /\ out' = [out EXCEPT ![t].loc = CopiedLocation(t), ![t].date = Now, ![t].time = Now]
    /\ todo' = [todo EXCEPT ![t] = LastKnownGoodPointers(t)]
    /\ Unlock(t)
    /\ Goto(t, "send")
    /\ UNCHANGED <<file, cachedDevices, msg, entry, frozen, steady>>

-----------------------------------------------------------------------------
(* SendSafecastMessage, after the mutex has been released: the pointers are  *)
(* followed one after the other.                                             *)
PointsTo(t) == IF frozen[t] # None THEN frozen[t] ELSE Cached(t).cache

Follow(t) ==
    /\ pc[t] = "send"
    /\ \E f \in todo[t] :
        /\ \A g \in todo[t] : Rank[f] <= Rank[g]
        /\ out' = [out EXCEPT ![t][f] = PointsTo(t)]
        /\ todo' = [todo EXCEPT ![t] = @ \ {f}]
    /\ UNCHANGED <<file, cachedDevices, cacheLock, pc, msg, entry, frozen, steady>>

Upload(t) ==
    /\ pc[t] = "send"
    /\ todo[t] = {}
    /\ Goto(t, "done")
    /\ UNCHANGED <<file, cachedDevices, cacheLock, msg, entry, frozen, todo, out, steady>>

\* Forget everything about the goroutines in a set.
Reset(S) ==
    /\ pc' = [t \in Thread |-> IF t \in S THEN "idle" ELSE pc[t]]
    /\ msg' = [t \in Thread |-> IF t \in S THEN None ELSE msg[t]]
    /\ entry' = [t \in Thread |-> IF t \in S THEN 0 ELSE entry[t]]
    /\ frozen' = [t \in Thread |-> IF t \in S THEN None ELSE frozen[t]]
    /\ todo' = [t \in Thread |-> IF t \in S THEN {} ELSE todo[t]]
    /\ out' = [t \in Thread |-> IF t \in S THEN NoFields ELSE out[t]]
    /\ steady' = [t \in Thread |-> t \notin S /\ steady[t]]

Finish(t) ==
    /\ pc[t] \in {"done", "discarded"}
    /\ Reset({t})
    /\ UNCHANGED <<file, cachedDevices, cacheLock>>

\* A process exits, for an upgrade or a failure, and run.sh starts it again: its
\* memory is gone, the shared file stays as it is, truncated perhaps.
Restart(i) ==
    /\ cachedDevices' = [cachedDevices EXCEPT ![i] = <<>>]
    /\ cacheLock' = [cacheLock EXCEPT ![i] = None]
    /\ Reset({t \in Thread : Home[t] = i})
    /\ UNCHANGED file

-----------------------------------------------------------------------------
SetStamp(t) == SetMalformed(t) \/ SetOpenFails(t) \/ SetOpen(t) \/ SetWrite(t)

Apply(t) ==
    \/ ApplyCached(t) \/ ApplyRefresh(t) \/ ApplyReadFails(t)
    \/ ApplyDiscard(t) \/ ApplyStamp(t) \/ ApplyLastKnownGood(t)

\* What a goroutine does once it has received a message.
Handle(t) ==
    \/ Lock(t) \/ Find(t) \/ Create(t) \/ Plain(t)
    \/ SetStamp(t) \/ Apply(t)
    \/ Follow(t) \/ Upload(t) \/ Finish(t)

Next ==
    \/ \E t \in Thread : Receive(t) \/ Handle(t)
    \/ \E i \in Instance : Restart(i)

Spec == Init /\ [][Next]_vars

\* Goroutines keep running, and sync.RWMutex does not starve a waiting writer.
Fairness == \A t \in Thread : WF_vars(Handle(t)) /\ SF_vars(Lock(t))

FairSpec == Spec /\ Fairness

-----------------------------------------------------------------------------
Label == {"idle", "arrived", "find", "create", "plain", "set", "badset", "write",
          "apply", "stamp", "send", "done", "discarded"}

TypeOK ==
    /\ file \in [Device -> Content \cup {Unreadable}]
    /\ cachedDevices \in [Instance -> Seq(CachedDevice)]
    /\ cacheLock \in [Instance -> Thread \cup {None}]
    /\ pc \in [Thread -> Label]
    /\ msg \in [Thread -> Message \cup {None}]
    /\ entry \in [Thread -> Nat]
    /\ frozen \in [Thread -> Content \cup {None}]
    /\ todo \in [Thread -> SUBSET Field]
    /\ out \in [Thread -> Uploaded]
    /\ steady \in [Thread -> BOOLEAN]

\* The linear search and the append of stampSetOrApply, run by many goroutines,
\* never give a device two entries: the second would hide or resurrect stamps.
OneEntryPerDevice ==
    \A i \in Instance : \A m, n \in DOMAIN cachedDevices[i] :
        cachedDevices[i][m].deviceid = cachedDevices[i][n].deviceid => m = n

\* Whatever the pointers into the cache come to point at after the unlock, a
\* message is never uploaded with the place, time or mode of another device.
OwnDeviceOnly ==
    \A t \in Thread : \A f \in DOMAIN out[t] :
        out[t][f] \in Content => out[t][f].dev = msg[t].dev

\* The location that stpApply gives a message which is dated by its stamp is
\* the location of that stamp, even when the cache entry is overwritten before
\* the upload; only a message dated with the server's clock has another one's.
StampedLocation ==
    \A t \in Thread :
        out[t].loc \in Content /\ out[t].loc # Named(t) => out[t].date = Now

\* A stamp that is in the shared file when a message naming it arrives, and that
\* no stamper or failing read disturbs until it is uploaded, is the one used, on
\* every instance and whatever that instance has in its cache: the message is
\* not discarded, not dated with the server's clock, and neither its location
\* nor the date and time behind its pointers are another stamp's.
SteadyStampUsed ==
    \A t \in Thread : steady[t] =>
        /\ pc[t] # "discarded"
        /\ pc[t] = "done" =>
            /\ out[t].loc = IF msg[t].located THEN Own
                            ELSE IF msg[t].stamp \in Located THEN Named(t) ELSE None
            /\ msg[t].offset => out[t].date = Named(t) /\ out[t].time = Named(t)

\* "We have a valid cache entry for the correct stamp, so use it" (stamp.go:296):
\* a stamped message is captured at the server's clock or at the date and time
\* of the stamp it names, never a mixture and never another stamp's.
CapturedAtNamedStamp ==
    \A t \in Thread : pc[t] = "done" /\ msg[t].kind = "apply" /\ msg[t].offset =>
        <<out[t].date, out[t].time>> \in {<<Now, Now>>, <<Named(t), Named(t)>>}

\* Every return of stampSetOrApply releases the mutex, so that no message, of
\* whatever kind and whichever file operation fails, waits forever.
EveryMessageHandled == \A t \in Thread : pc[t] = "arrived" ~> pc[t] = "idle"
=============================================================================
