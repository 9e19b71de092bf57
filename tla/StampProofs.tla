----------------------------- MODULE StampProofs -----------------------------
(***************************************************************************)
(* Stamp for every number of instances, devices, stamps and goroutines.    *)
(* The inductive invariant says who is inside the mutex, what a CacheEntry *)
(* index obtained there refers to, and which device each cell, file and    *)
(* pointer belongs to.                                                     *)
(***************************************************************************)
EXTENDS Stamp, TLAPS

Inside == {"find", "create", "plain", "set", "badset", "write", "apply", "stamp"}
Indexed == {"plain", "set", "badset", "write", "apply", "stamp", "send"}

\* The mutex of an instance is held by exactly the goroutine that is inside.
LockInv == \A t \in Thread : pc[t] \in Inside <=> cacheLock[Home[t]] = t

\* What a goroutine has in hand at each point.
MessageInv ==
    \A t \in Thread :
        /\ pc[t] # "idle" => msg[t] \in Message
        /\ pc[t] \in {"plain", "set", "badset", "apply"} => msg[t].kind = pc[t]
        /\ pc[t] = "write" => msg[t].kind = "set"
        /\ pc[t] \in {"stamp", "send", "discarded"} => msg[t].kind = "apply"
        /\ pc[t] = "idle" => ~steady[t] /\ out[t] = NoFields
        /\ pc[t] \notin {"send", "done"} => frozen[t] = None
        /\ steady[t] => msg[t].kind = "apply"

\* An index found or created under the mutex keeps denoting the message's
\* device, because the slice only grows.
EntryInv ==
    \A t \in Thread : pc[t] \in Indexed =>
        /\ entry[t] \in DOMAIN cachedDevices[Home[t]]
        /\ Cached(t).deviceid = msg[t].dev

\* A goroutine about to append has found no entry.
CreateInv ==
    \A t \in Thread : pc[t] = "create" =>
        \A n \in DOMAIN cachedDevices[Home[t]] :
            cachedDevices[Home[t]][n].deviceid # msg[t].dev

\* Cells and files hold stamps of their own device, and a valid cell holds one.
CellInv ==
    /\ \A i \in Instance : \A n \in DOMAIN cachedDevices[i] :
          /\ cachedDevices[i][n].valid => cachedDevices[i][n].cache \in Content
          /\ cachedDevices[i][n].cache \in Content =>
                cachedDevices[i][n].cache.dev = cachedDevices[i][n].deviceid
    /\ \A d \in Device : file[d] \in Content => file[d].dev = d

\* So do the pointers of a stamped message, in place or left behind by append.
PointerInv ==
    \A t \in Thread :
        /\ pc[t] = "send" => Cached(t).cache \in Content
        /\ frozen[t] \in Content => frozen[t].dev = msg[t].dev

IInv ==
    /\ TypeOK
    /\ LockInv
    /\ MessageInv
    /\ EntryInv
    /\ CreateInv
    /\ CellInv
    /\ PointerInv
    /\ OneEntryPerDevice
    /\ OwnDeviceOnly

-----------------------------------------------------------------------------
(* What an assignment to a cache entry changes, and what it leaves alone.    *)
LEMMA CacheEffect ==
    ASSUME TypeOK, NEW t \in Thread, entry[t] \in DOMAIN cachedDevices[Home[t]],
           NEW v \in BOOLEAN, NEW c \in Content \cup {None}, Cache(t, v, c)
    PROVE  /\ cachedDevices' \in [Instance -> Seq(CachedDevice)]
           /\ \A i \in Instance : DOMAIN cachedDevices'[i] = DOMAIN cachedDevices[i]
           /\ \A i \in Instance : \A n \in DOMAIN cachedDevices[i] :
                 /\ cachedDevices'[i][n].deviceid = cachedDevices[i][n].deviceid
                 /\ i # Home[t] \/ n # entry[t] =>
                       cachedDevices'[i][n] = cachedDevices[i][n]
           /\ cachedDevices'[Home[t]][entry[t]].valid = v
           /\ cachedDevices'[Home[t]][entry[t]].cache = c
<1> DEFINE i == Home[t]
           s == cachedDevices[i]
           e == [deviceid |-> s[entry[t]].deviceid, valid |-> v, cache |-> c]
<1>1. i \in Instance /\ s \in Seq(CachedDevice)
  BY StampAssumption DEF TypeOK
<1>2. s[entry[t]] \in CachedDevice
  <2>1. entry[t] \in 1 .. Len(s)
    BY <1>1
  <2>2. QED
    BY <1>1, <2>1
<1>e. e \in CachedDevice
  BY <1>2 DEF CachedDevice
<1>3. cachedDevices' = [cachedDevices EXCEPT ![i] = [s EXCEPT ![entry[t]] = e]]
  BY DEF Cache, TypeOK
<1>4. [s EXCEPT ![entry[t]] = e] \in Seq(CachedDevice)
  BY <1>1, <1>e
<1>5. QED
  BY <1>1, <1>2, <1>e, <1>3, <1>4 DEF TypeOK

\* A message that sets or names a stamp names a possible one.
LEMMA NamedType ==
    ASSUME MessageInv, NEW t \in Thread, pc[t] \in {"set", "write", "apply", "stamp", "send"}
    PROVE  /\ msg[t] \in Message
           /\ msg[t].dev \in Device
           /\ msg[t].kind \in {"set", "apply"}
           /\ Named(t) \in Content
<1>1. msg[t] \in Message /\ msg[t].kind \in {"set", "apply"}
  BY DEF MessageInv
<1>2. QED
  BY <1>1 DEF Message, Named, Content

\* What a goroutine with an index sees through it.
LEMMA CachedType ==
    ASSUME TypeOK, EntryInv, NEW t \in Thread, pc[t] \in Indexed
    PROVE  /\ entry[t] \in DOMAIN cachedDevices[Home[t]]
           /\ Cached(t) \in CachedDevice
           /\ Cached(t).deviceid = msg[t].dev
           /\ Cached(t).cache \in Content \cup {None}
<1>1. Home[t] \in Instance /\ cachedDevices[Home[t]] \in Seq(CachedDevice)
  BY StampAssumption DEF TypeOK
<1>2. entry[t] \in DOMAIN cachedDevices[Home[t]] /\ Cached(t).deviceid = msg[t].dev
  BY DEF EntryInv
<1>3. Cached(t) \in CachedDevice
  <2>1. entry[t] \in 1 .. Len(cachedDevices[Home[t]])
    BY <1>1, <1>2
  <2>2. QED
    BY <1>1, <2>1 DEF Cached
<1>4. QED
  BY <1>2, <1>3 DEF CachedDevice

\* The entry an action of stpSet or stpApply assigns to.
LEMMA AssignEffect ==
    ASSUME TypeOK, EntryInv, NEW t \in Thread, pc[t] \in Indexed,
           NEW v \in BOOLEAN, NEW c \in Content \cup {None}, Cache(t, v, c)
    PROVE  /\ cachedDevices' \in [Instance -> Seq(CachedDevice)]
           /\ \A i \in Instance : DOMAIN cachedDevices'[i] = DOMAIN cachedDevices[i]
           /\ \A i \in Instance : \A n \in DOMAIN cachedDevices[i] :
                 /\ cachedDevices'[i][n].deviceid = cachedDevices[i][n].deviceid
                 /\ i # Home[t] \/ n # entry[t] =>
                       cachedDevices'[i][n] = cachedDevices[i][n]
           /\ cachedDevices'[Home[t]][entry[t]].valid = v
           /\ cachedDevices'[Home[t]][entry[t]].cache = c
  BY CachedType, CacheEffect

\* The five fields a stamped message holds by pointer.
LEMMA FieldNames == Field = {"date", "time", "alt", "motion", "test"}
  BY DEF Field, Rank

\* Every step, of a goroutine or of a restart, keeps the types.
LEMMA TypeOKStep == IInv /\ [Next]_vars => TypeOK'
<1> SUFFICES ASSUME IInv, [Next]_vars PROVE TypeOK'
  OBVIOUS
<1> USE DEF IInv
<1>1. CASE UNCHANGED vars
  BY <1>1 DEF TypeOK, vars
<1>2. ASSUME NEW t \in Thread, Receive(t) PROVE TypeOK'
  BY <1>2 DEF Receive, Goto, TypeOK, Label
<1>3. ASSUME NEW t \in Thread, Lock(t) PROVE TypeOK'
  BY <1>3, StampAssumption DEF Lock, Goto, TypeOK, Label
<1>4. ASSUME NEW t \in Thread, Find(t) PROVE TypeOK'
  <2>1. msg[t] \in Message
    BY <1>4 DEF Find, MessageInv
  <2>2. msg[t].kind \in Label
    BY <2>1 DEF Message, Label
  <2>3. pc' \in [Thread -> Label]
    BY <1>4, <2>2 DEF Find, Goto, TypeOK, Label
  <2>4. entry' \in [Thread -> Nat]
    BY <1>4, StampAssumption DEF Find, TypeOK
  <2>5. QED
    BY <1>4, <2>3, <2>4 DEF Find, TypeOK
<1>5. ASSUME NEW t \in Thread, Create(t) PROVE TypeOK'
  <2> DEFINE e == [deviceid |-> msg[t].dev, valid |-> FALSE, cache |-> None]
  <2>1. msg[t] \in Message /\ msg[t].kind \in Label /\ Home[t] \in Instance
    BY <1>5, StampAssumption DEF Create, MessageInv, Message, Label, TypeOK
  <2>2. cachedDevices[Home[t]] \in Seq(CachedDevice) /\ e \in CachedDevice
    BY <2>1 DEF TypeOK, CachedDevice, Message
  <2>3. cachedDevices' \in [Instance -> Seq(CachedDevice)]
    <3>1. Append(cachedDevices[Home[t]], e) \in Seq(CachedDevice)
      BY <2>2
    <3>2. QED
      BY <1>5, <3>1 DEF Create, TypeOK
  <2>4. entry' \in [Thread -> Nat]
    BY <1>5, <2>2 DEF Create, TypeOK
  <2>5. frozen' \in [Thread -> Content \cup {None}]
    <3>1. \A u \in Thread : pc[u] = "send" => Cached(u).cache \in Content
      BY DEF PointerInv
    <3>2. QED
      BY <1>5, <3>1 DEF Create, TypeOK
  <2>6. pc' \in [Thread -> Label]
    BY <1>5, <2>1 DEF Create, Goto, TypeOK
  <2>7. QED
    BY <1>5, <2>3, <2>4, <2>5, <2>6 DEF Create, TypeOK
<1>6. ASSUME NEW t \in Thread, Plain(t) PROVE TypeOK'
  BY <1>6, StampAssumption DEF Plain, Goto, Unlock, TypeOK, Label
<1>7. ASSUME NEW t \in Thread, SetStamp(t) PROVE TypeOK'
  <2>1. pc[t] \in Indexed
    BY <1>7 DEF SetStamp, SetMalformed, SetOpenFails, SetOpen, SetWrite, Indexed
  <2>2. cachedDevices' \in [Instance -> Seq(CachedDevice)]
    <3>1. CASE Invalidate(t)
      BY <2>1, <3>1, CachedType, AssignEffect DEF Invalidate
    <3>2. CASE SetWrite(t)
      BY <2>1, <3>2, NamedType, AssignEffect DEF SetWrite
    <3>3. QED
      BY <1>7, <3>1, <3>2 DEF SetStamp, SetMalformed, SetOpenFails, SetOpen
  <2>3. file' \in [Device -> Content \cup {Unreadable}]
    <3>1. CASE SetOpen(t)
      BY <3>1 DEF SetOpen, TypeOK
    <3>2. CASE SetWrite(t)
      <4>1. Named(t) \in Content /\ file[msg[t].dev] \in Content \cup {Unreadable}
        BY <3>2, NamedType DEF SetWrite, TypeOK
      <4>2. QED
        BY <3>2, <4>1 DEF SetWrite, TypeOK
    <3>3. QED
      BY <1>7, <3>1, <3>2 DEF SetStamp, SetMalformed, SetOpenFails, TypeOK
  <2>4. pc' \in [Thread -> Label] /\ steady' \in [Thread -> BOOLEAN]
    BY <1>7 DEF SetStamp, SetMalformed, SetOpenFails, SetOpen, SetWrite, Goto, TypeOK, Label
  <2>5. cacheLock' \in [Instance -> Thread \cup {None}]
    BY <1>7 DEF SetStamp, SetMalformed, SetOpenFails, SetOpen, SetWrite, Unlock, TypeOK
  <2>6. QED
    BY <1>7, <2>2, <2>3, <2>4, <2>5
       DEF SetStamp, SetMalformed, SetOpenFails, SetOpen, SetWrite, TypeOK
<1>8. ASSUME NEW t \in Thread, Apply(t) PROVE TypeOK'
  <2> USE DEF Apply, ApplyCached, ApplyRefresh, ApplyReadFails, ApplyDiscard,
              ApplyStamp, ApplyLastKnownGood
  <2>1. pc[t] \in Indexed
    BY <1>8 DEF Indexed
  <2>2. cachedDevices' \in [Instance -> Seq(CachedDevice)]
    <3>1. CASE Invalidate(t)
      BY <2>1, <3>1, CachedType, AssignEffect DEF Invalidate
    <3>2. CASE Cache(t, TRUE, file[msg[t].dev]) /\ pc[t] = "apply"
                 /\ file[msg[t].dev] # Unreadable
      <4>1. file[msg[t].dev] \in Content
        BY <3>2, NamedType DEF TypeOK
      <4>2. QED
        BY <2>1, <3>2, <4>1, AssignEffect
    <3>3. CASE UNCHANGED cachedDevices
      BY <3>3 DEF TypeOK
    <3>4. QED
      BY <1>8, <3>1, <3>2, <3>3
  <2>3. pc' \in [Thread -> Label] /\ steady' \in [Thread -> BOOLEAN]
    BY <1>8 DEF Goto, TypeOK, Label
  <2>4. cacheLock' \in [Instance -> Thread \cup {None}]
    BY <1>8 DEF Unlock, TypeOK
  <2>5. todo' \in [Thread -> SUBSET Field]
    <3>1. StampPointers(t) \in SUBSET Field /\ LastKnownGoodPointers(t) \in SUBSET Field
      BY FieldNames DEF StampPointers, LastKnownGoodPointers, AltitudePointer
    <3>2. QED
      BY <1>8, <3>1 DEF TypeOK
  <2>6. out' \in [Thread -> Uploaded]
    <3>1. pc[t] = "stamp" /\ Cached(t).valid => CopiedLocation(t) \in Content \cup {None, Own}
      <4>1. pc[t] = "stamp" /\ Cached(t).valid => Cached(t).cache \in Content
        BY <2>1, StampAssumption, CachedType DEF CellInv, Cached, TypeOK
      <4>2. QED
        BY <4>1 DEF CopiedLocation
    <3>2. out[t] \in Uploaded
      BY DEF TypeOK
    <3>3. CASE ApplyStamp(t)
      <4>1. [out[t] EXCEPT !.loc = CopiedLocation(t)] \in Uploaded
        BY <3>1, <3>2, <3>3 DEF Uploaded, Hit
      <4>2. QED
        BY <3>3, <4>1 DEF TypeOK
    <3>4. CASE ApplyLastKnownGood(t)
      <4>1. [out[t] EXCEPT !.loc = CopiedLocation(t), !.date = Now, !.time = Now] \in Uploaded
        BY <3>1, <3>2, <3>4 DEF Uploaded
      <4>2. QED
        BY <3>4, <4>1 DEF TypeOK
    <3>5. QED
      BY <1>8, <3>3, <3>4 DEF TypeOK
  <2>7. QED
    BY <1>8, <2>2, <2>3, <2>4, <2>5, <2>6 DEF TypeOK
<1>9. ASSUME NEW t \in Thread, Follow(t) PROVE TypeOK'
  <2>1. PICK f \in todo[t] : /\ out' = [out EXCEPT ![t][f] = PointsTo(t)]
                             /\ todo' = [todo EXCEPT ![t] = @ \ {f}]
    BY <1>9 DEF Follow
  <2>2. PointsTo(t) \in Content
    BY <1>9 DEF Follow, PointsTo, PointerInv, TypeOK
  <2>3. f \in {"date", "time", "alt", "motion", "test"}
    BY FieldNames DEF TypeOK
  <2>4. [out[t] EXCEPT ![f] = PointsTo(t)] \in Uploaded
    <3>1. out[t] \in Uploaded
      BY DEF TypeOK
    <3>2. QED
      BY <2>2, <2>3, <3>1 DEF Uploaded
  <2>5. out' \in [Thread -> Uploaded]
    BY <2>1, <2>4 DEF TypeOK
  <2>6. QED
    BY <1>9, <2>1, <2>5 DEF Follow, TypeOK
<1>10. ASSUME NEW t \in Thread, Upload(t) PROVE TypeOK'
  BY <1>10 DEF Upload, Goto, TypeOK, Label
<1>11. ASSUME NEW t \in Thread, Finish(t) PROVE TypeOK'
  BY <1>11 DEF Finish, Reset, TypeOK, Label, NoFields, Uploaded
<1>12. ASSUME NEW i \in Instance, Restart(i) PROVE TypeOK'
  BY <1>12 DEF Restart, Reset, TypeOK, Label, NoFields, Uploaded
<1>13. QED
  BY <1>1, <1>2, <1>3, <1>4, <1>5, <1>6, <1>7, <1>8, <1>9, <1>10, <1>11, <1>12
     DEF Next, Handle

-----------------------------------------------------------------------------
(* What every action of one goroutine has in common.                         *)

\* The other goroutines stay where they are, with what they have in hand.
LEMMA OthersUnchanged ==
    ASSUME TypeOK, NEW t \in Thread, Receive(t) \/ Handle(t), NEW u \in Thread, u # t
    PROVE  /\ pc'[u] = pc[u] /\ msg'[u] = msg[u] /\ entry'[u] = entry[u]
           /\ todo'[u] = todo[u] /\ out'[u] = out[u]
           /\ steady'[u] => steady[u]
<1>1. CASE Receive(t)
  BY <1>1 DEF Receive, Goto, TypeOK
<1>2. CASE Lock(t) \/ Find(t) \/ Plain(t)
  BY <1>2 DEF Lock, Find, Plain, Goto, TypeOK
<1>3. CASE Create(t)
  BY <1>3 DEF Create, Goto, TypeOK
<1>4. CASE SetStamp(t)
  BY <1>4 DEF SetStamp, SetMalformed, SetOpenFails, SetOpen, SetWrite, Goto, TypeOK
<1>5. CASE Apply(t)
  BY <1>5 DEF Apply, ApplyCached, ApplyRefresh, ApplyReadFails, ApplyDiscard,
              ApplyStamp, ApplyLastKnownGood, Goto, TypeOK
<1>6. CASE Follow(t) \/ Upload(t)
  BY <1>6 DEF Follow, Upload, Goto, TypeOK
<1>7. CASE Finish(t)
  BY <1>7 DEF Finish, Reset, TypeOK
<1>8. QED
  BY <1>1, <1>2, <1>3, <1>4, <1>5, <1>6, <1>7 DEF Handle

\* The actions that assign to a cache entry, with what they may put there.
LEMMA Assigning ==
    ASSUME TypeOK, MessageInv, EntryInv, NEW t \in Thread,
           SetStamp(t) \/ ApplyRefresh(t) \/ ApplyReadFails(t)
    PROVE  /\ pc[t] \in Indexed
           /\ \/ Cache(t, FALSE, Cached(t).cache)
              \/ /\ pc[t] = "write" /\ Cache(t, TRUE, Named(t)) /\ Named(t) \in Content
              \/ /\ pc[t] = "apply" /\ Cache(t, TRUE, file[msg[t].dev])
                 /\ file[msg[t].dev] \in Content
<1>1. CASE SetStamp(t)
  BY <1>1, NamedType
     DEF SetStamp, SetMalformed, SetOpenFails, SetOpen, SetWrite, Invalidate, Indexed
<1>2. CASE ApplyRefresh(t) \/ ApplyReadFails(t)
  BY <1>2, NamedType DEF ApplyRefresh, ApplyReadFails, Invalidate, Indexed, TypeOK
<1>3. QED
  BY <1>1, <1>2

\* Their effect: one entry, and of that one the cell and its validity only.
LEMMA AssigningEffect ==
    ASSUME TypeOK, MessageInv, EntryInv, NEW t \in Thread,
           SetStamp(t) \/ ApplyRefresh(t) \/ ApplyReadFails(t)
    PROVE  /\ pc[t] \in Indexed
           /\ \A i \in Instance : DOMAIN cachedDevices'[i] = DOMAIN cachedDevices[i]
           /\ \A i \in Instance : \A n \in DOMAIN cachedDevices[i] :
                 /\ cachedDevices'[i][n].deviceid = cachedDevices[i][n].deviceid
                 /\ i # Home[t] \/ n # entry[t] =>
                       cachedDevices'[i][n] = cachedDevices[i][n]
           /\ LET e == cachedDevices'[Home[t]][entry[t]]
              IN \/ ~e.valid /\ e.cache = Cached(t).cache
                 \/ pc[t] = "write" /\ e.valid /\ e.cache = Named(t) /\ Named(t) \in Content
                 \/ /\ pc[t] = "apply" /\ e.valid /\ e.cache = file[msg[t].dev]
                    /\ file[msg[t].dev] \in Content
<1>1. pc[t] \in Indexed
  BY Assigning
<1>2. Cached(t).cache \in Content \cup {None}
  BY <1>1, CachedType
<1>3. CASE Cache(t, FALSE, Cached(t).cache)
  BY <1>1, <1>2, <1>3, AssignEffect
<1>4. CASE pc[t] = "write" /\ Cache(t, TRUE, Named(t)) /\ Named(t) \in Content
  BY <1>1, <1>4, AssignEffect
<1>5. CASE /\ pc[t] = "apply" /\ Cache(t, TRUE, file[msg[t].dev])
           /\ file[msg[t].dev] \in Content
  BY <1>1, <1>5, AssignEffect
<1>6. QED
  BY <1>3, <1>4, <1>5, Assigning

\* Append leaves the entries that are there in place.
LEMMA CreateEffect ==
    ASSUME TypeOK, NEW t \in Thread, Create(t)
    PROVE  LET i == Home[t]
               n == Len(cachedDevices[i]) + 1
           IN /\ i \in Instance
              /\ cachedDevices[i] \in Seq(CachedDevice)
              /\ n \notin DOMAIN cachedDevices[i]
              /\ DOMAIN cachedDevices'[i] = DOMAIN cachedDevices[i] \cup {n}
              /\ \A k \in DOMAIN cachedDevices[i] :
                    cachedDevices'[i][k] = cachedDevices[i][k]
              /\ cachedDevices'[i][n] =
                    [deviceid |-> msg[t].dev, valid |-> FALSE, cache |-> None]
              /\ \A j \in Instance \ {i} : cachedDevices'[j] = cachedDevices[j]
<1> DEFINE i == Home[t]
           s == cachedDevices[i]
           e == [deviceid |-> msg[t].dev, valid |-> FALSE, cache |-> None]
<1>1. i \in Instance /\ s \in Seq(CachedDevice)
  BY StampAssumption DEF TypeOK
<1>2. cachedDevices' = [cachedDevices EXCEPT ![i] = Append(s, e)]
  BY DEF Create
<1>3. /\ cachedDevices'[i] = Append(s, e)
      /\ \A j \in Instance \ {i} : cachedDevices'[j] = cachedDevices[j]
  BY <1>1, <1>2 DEF TypeOK
<1>4. /\ DOMAIN s = 1 .. Len(s)
      /\ DOMAIN Append(s, e) = 1 .. Len(s) + 1
      /\ \A k \in 1 .. Len(s) : Append(s, e)[k] = s[k]
      /\ Append(s, e)[Len(s) + 1] = e
      /\ Len(s) \in Nat
  BY <1>1
<1> HIDE DEF s, e
<1>5. /\ Len(s) + 1 \notin DOMAIN s
      /\ DOMAIN Append(s, e) = DOMAIN s \cup {Len(s) + 1}
  BY <1>4
<1>6. QED
  BY <1>1, <1>3, <1>4, <1>5 DEF s, e

\* An entry that is there when another is appended stays what it was.
LEMMA CreateKeeps ==
    ASSUME TypeOK, NEW t \in Thread, Create(t),
           NEW i \in Instance, NEW n \in DOMAIN cachedDevices[i]
    PROVE  /\ n \in DOMAIN cachedDevices'[i]
           /\ cachedDevices'[i][n] = cachedDevices[i][n]
<1>1. CASE i = Home[t]
  BY <1>1, CreateEffect
<1>2. CASE i # Home[t]
  <2>1. cachedDevices'[i] = cachedDevices[i]
    BY <1>2, CreateEffect
  <2>2. QED
    BY <2>1
<1>3. QED
  BY <1>1, <1>2

\* Entries never move and never change device while the process runs.
LEMMA SliceGrows ==
    ASSUME TypeOK, MessageInv, EntryInv, NEW t \in Thread, Receive(t) \/ Handle(t),
           NEW i \in Instance, NEW n \in DOMAIN cachedDevices[i]
    PROVE  /\ n \in DOMAIN cachedDevices'[i]
           /\ cachedDevices'[i][n].deviceid = cachedDevices[i][n].deviceid
<1>1. CASE UNCHANGED cachedDevices
  BY <1>1
<1>2. CASE SetStamp(t) \/ ApplyRefresh(t) \/ ApplyReadFails(t)
  BY <1>2, AssigningEffect
<1>3. CASE Create(t)
  BY <1>3, CreateKeeps
<1>4. QED
  BY <1>1, <1>2, <1>3
     DEF Handle, Receive, Lock, Find, Plain, Apply, ApplyCached, ApplyDiscard, ApplyStamp,
         ApplyLastKnownGood, Follow, Upload, Finish

\* A restart makes the goroutines of its instance idle and spares the others.
LEMMA RestartEffect ==
    ASSUME TypeOK, NEW i \in Instance, Restart(i), NEW u \in Thread
    PROVE  /\ Home[u] = i =>
                /\ pc'[u] = "idle" /\ frozen'[u] = None /\ out'[u] = NoFields
                /\ ~steady'[u]
           /\ Home[u] # i =>
                /\ pc'[u] = pc[u] /\ msg'[u] = msg[u] /\ entry'[u] = entry[u]
                /\ frozen'[u] = frozen[u] /\ todo'[u] = todo[u] /\ out'[u] = out[u]
                /\ steady'[u] = steady[u]
                /\ cacheLock'[Home[u]] = cacheLock[Home[u]]
           /\ cacheLock'[i] = None
           /\ cachedDevices'[i] = <<>>
           /\ \A j \in Instance \ {i} : cachedDevices'[j] = cachedDevices[j]
           /\ file' = file
  BY StampAssumption DEF Restart, Reset, TypeOK

-----------------------------------------------------------------------------
(* Each part of the invariant is kept by every step.                         *)
\* The mutex is taken and released by the goroutine that is inside, on every
\* path through stampSetOrApply.
LEMMA LockInvStep == IInv /\ [Next]_vars => LockInv'
<1> SUFFICES ASSUME IInv, [Next]_vars PROVE LockInv'
  OBVIOUS
<1> USE SpecialValuesAssumption, StampAssumption DEF IInv
<1>1. CASE UNCHANGED vars
  BY <1>1 DEF LockInv, vars
<1>2. ASSUME NEW t \in Thread, Receive(t) \/ Handle(t) PROVE LockInv'
  <2>1. CASE Receive(t) \/ Follow(t) \/ Upload(t) \/ Finish(t)
    BY <2>1 DEF Receive, Follow, Upload, Finish, Reset, Goto, TypeOK, LockInv, Inside
  <2>2. CASE Lock(t)
    BY <2>2 DEF Lock, Goto, TypeOK, LockInv, Inside
  <2>3. CASE Find(t) \/ Create(t)
    <3>1. msg[t].kind \in {"plain", "set", "badset", "apply"}
      BY <2>3 DEF Find, Create, MessageInv, Message
    <3>2. QED
      BY <2>3, <3>1 DEF Find, Create, Goto, TypeOK, LockInv, Inside
  <2>4. CASE \/ Plain(t) \/ SetMalformed(t) \/ SetOpenFails(t) \/ SetWrite(t)
             \/ ApplyDiscard(t) \/ ApplyStamp(t) \/ ApplyLastKnownGood(t)
    <3>1. /\ pc[t] \in Inside /\ cacheLock' = [cacheLock EXCEPT ![Home[t]] = None]
          /\ pc'[t] \notin Inside
          /\ \A u \in Thread \ {t} : pc'[u] = pc[u]
      BY <2>4 DEF Plain, SetMalformed, SetOpenFails, SetWrite, ApplyDiscard, ApplyStamp,
                  ApplyLastKnownGood, Goto, Unlock, Inside, TypeOK
    <3>2. QED
      BY <3>1 DEF TypeOK, LockInv
  <2>5. CASE SetOpen(t) \/ ApplyCached(t) \/ ApplyRefresh(t) \/ ApplyReadFails(t)
    <3>1. /\ pc[t] \in Inside /\ cacheLock' = cacheLock
          /\ pc'[t] \in Inside
          /\ \A u \in Thread \ {t} : pc'[u] = pc[u]
      BY <2>5 DEF SetOpen, ApplyCached, ApplyRefresh, ApplyReadFails, Goto, TypeOK, Inside
    <3>2. QED
      BY <3>1 DEF LockInv
  <2>6. QED
    BY <1>2, <2>1, <2>2, <2>3, <2>4, <2>5 DEF Handle, SetStamp, Apply
<1>3. ASSUME NEW i \in Instance, Restart(i) PROVE LockInv'
  BY <1>3, RestartEffect DEF LockInv, Inside
<1>4. QED
  BY <1>1, <1>2, <1>3 DEF Next

\* A goroutine keeps its message from its arrival to its end.
LEMMA MessageInvStep == IInv /\ [Next]_vars => MessageInv'
<1> SUFFICES ASSUME IInv, [Next]_vars PROVE MessageInv'
  OBVIOUS
<1> USE DEF IInv
<1>1. CASE UNCHANGED vars
  BY <1>1 DEF MessageInv, vars
<1>2. ASSUME NEW t \in Thread, Receive(t) \/ Handle(t) PROVE MessageInv'
  <2>1. ASSUME NEW u \in Thread, u # t, pc[u] \notin {"send", "done"}
        PROVE  frozen'[u] = frozen[u]
    BY <1>2, <2>1
       DEF Handle, Receive, Lock, Find, Create, Plain, SetStamp, SetMalformed, SetOpenFails,
           SetOpen, SetWrite, Apply, ApplyCached, ApplyRefresh, ApplyReadFails, ApplyDiscard,
           ApplyStamp, ApplyLastKnownGood, Follow, Upload, Finish, Reset, TypeOK
  <2>2. ASSUME NEW u \in Thread, u # t PROVE MessageInv!(u)'
    BY <1>2, <2>1, <2>2, OthersUnchanged DEF MessageInv
  <2>3. MessageInv!(t)'
    <3>1. CASE Receive(t)
      BY <3>1 DEF Receive, Goto, TypeOK, MessageInv, Message
    <3>2. CASE Find(t) \/ Create(t)
      <4>1. msg[t].kind \in {"plain", "set", "badset", "apply"}
        BY <3>2 DEF Find, Create, MessageInv, Message
      <4>2. QED
        BY <3>2, <4>1 DEF Find, Create, Goto, TypeOK, MessageInv
    <3>3. CASE Lock(t) \/ Plain(t) \/ SetStamp(t)
      BY <3>3 DEF Lock, Plain, SetStamp, SetMalformed, SetOpenFails, SetOpen, SetWrite,
                  Goto, TypeOK, MessageInv
    <3>4. CASE Apply(t)
      BY <3>4 DEF Apply, ApplyCached, ApplyRefresh, ApplyReadFails, ApplyDiscard, ApplyStamp,
                  ApplyLastKnownGood, Goto, TypeOK, MessageInv
    <3>5. CASE Follow(t) \/ Upload(t)
      BY <3>5 DEF Follow, Upload, Goto, TypeOK, MessageInv
    <3>6. CASE Finish(t)
      BY <3>6 DEF Finish, Reset, TypeOK, MessageInv
    <3>7. QED
      BY <1>2, <3>1, <3>2, <3>3, <3>4, <3>5, <3>6 DEF Handle
  <2>4. QED
    BY <2>2, <2>3 DEF MessageInv
<1>3. ASSUME NEW i \in Instance, Restart(i) PROVE MessageInv'
  BY <1>3, RestartEffect DEF MessageInv
<1>4. QED
  BY <1>1, <1>2, <1>3 DEF Next

\* The index of the entry stays right while others append.
LEMMA EntryInvStep == IInv /\ [Next]_vars => EntryInv'
<1> SUFFICES ASSUME IInv, [Next]_vars PROVE EntryInv'
  OBVIOUS
<1> USE DEF IInv
<1>1. CASE UNCHANGED vars
  BY <1>1 DEF EntryInv, Cached, vars
<1>2. ASSUME NEW t \in Thread, Receive(t) \/ Handle(t) PROVE EntryInv'
  <2> SUFFICES ASSUME NEW u \in Thread, pc'[u] \in Indexed
               PROVE  /\ entry'[u] \in DOMAIN cachedDevices'[Home[u]]
                      /\ cachedDevices'[Home[u]][entry'[u]].deviceid = msg'[u].dev
    BY DEF EntryInv, Cached
  <2>1. Home[u] \in Instance
    BY StampAssumption
  <2>2. CASE pc[u] \in Indexed /\ entry'[u] = entry[u] /\ msg'[u] = msg[u]
    BY <1>2, <2>1, <2>2, SliceGrows DEF EntryInv, Cached
  <2>3. CASE u # t
    BY <1>2, <2>2, <2>3, OthersUnchanged
  <2>4. CASE u = t /\ Find(t)
    <3>1. \/ pc'[t] = "create"
          \/ /\ entry'[t] \in DOMAIN cachedDevices[Home[t]]
             /\ cachedDevices[Home[t]][entry'[t]].deviceid = msg[t].dev
      BY <2>1, <2>4 DEF Find, Goto, TypeOK
    <3>2. QED
      BY <2>4, <3>1 DEF Find, Indexed
  <2>5. CASE u = t /\ Create(t)
    <3>1. entry'[t] = Len(cachedDevices[Home[t]]) + 1 /\ msg'[t] = msg[t]
      BY <2>5 DEF Create, TypeOK
    <3>2. /\ entry'[t] \in DOMAIN cachedDevices'[Home[t]]
          /\ cachedDevices'[Home[t]][entry'[t]] =
                [deviceid |-> msg[t].dev, valid |-> FALSE, cache |-> None]
      BY <2>5, <3>1, CreateEffect
    <3>3. QED
      BY <2>5, <3>1, <3>2
  <2>6. CASE u = t /\ ~Find(t) /\ ~Create(t)
    <3>1. pc[t] \in Indexed /\ entry'[t] = entry[t] /\ msg'[t] = msg[t]
      BY <1>2, <2>6
         DEF Handle, Receive, Lock, Plain, SetStamp, SetMalformed, SetOpenFails, SetOpen,
             SetWrite, Apply, ApplyCached, ApplyRefresh, ApplyReadFails, ApplyDiscard,
             ApplyStamp, ApplyLastKnownGood, Follow, Upload, Finish, Reset, Goto, TypeOK,
             Indexed
    <3>2. QED
      BY <2>2, <2>6, <3>1
  <2>7. QED
    BY <2>3, <2>4, <2>5, <2>6
<1>3. ASSUME NEW i \in Instance, Restart(i) PROVE EntryInv'
  BY <1>3, RestartEffect, StampAssumption DEF EntryInv, Cached, Indexed
<1>4. QED
  BY <1>1, <1>2, <1>3 DEF Next

\* The actions that leave every cache entry alone.
LEMMA CacheKept ==
    ASSUME NEW t \in Thread, Receive(t) \/ Handle(t), ~SetStamp(t), ~ApplyRefresh(t),
           ~ApplyReadFails(t), ~Create(t)
    PROVE  cachedDevices' = cachedDevices /\ file' = file /\ frozen' \in {frozen,
               [u \in Thread |-> IF u \in {t} THEN None ELSE frozen[u]]}
  BY DEF Handle, Receive, Lock, Find, Plain, Apply, ApplyCached, ApplyDiscard, ApplyStamp,
         ApplyLastKnownGood, Follow, Upload, Finish, Reset

\* Under the mutex nobody else appends the entry a goroutine is about to append.
LEMMA CreateInvStep == IInv /\ [Next]_vars => CreateInv'
<1> SUFFICES ASSUME IInv, [Next]_vars PROVE CreateInv'
  OBVIOUS
<1> USE DEF IInv
<1>1. CASE UNCHANGED vars
  BY <1>1 DEF CreateInv, vars
<1>2. ASSUME NEW t \in Thread, Receive(t) \/ Handle(t) PROVE CreateInv'
  <2> SUFFICES ASSUME NEW u \in Thread, pc'[u] = "create",
                      NEW n \in DOMAIN cachedDevices'[Home[u]]
               PROVE  cachedDevices'[Home[u]][n].deviceid # msg'[u].dev
    BY DEF CreateInv
  <2>1. Home[u] \in Instance
    BY StampAssumption
  <2>2. CASE u = t
    <3>1. msg[t].kind # "create"
      BY <1>2, <2>2 DEF MessageInv, Message, Receive, Handle, Find, Create, Goto, TypeOK,
                        Lock, Plain, SetStamp, SetMalformed, SetOpenFails, SetOpen, SetWrite,
                        Apply, ApplyCached, ApplyRefresh, ApplyReadFails, ApplyDiscard,
                        ApplyStamp, ApplyLastKnownGood, Follow, Upload, Finish, Reset
    <3>2. Find(t)
      BY <1>2, <2>2, <3>1
         DEF Receive, Handle, Create, Goto, TypeOK, Lock, Plain, SetStamp,
             SetMalformed, SetOpenFails, SetOpen, SetWrite, Apply, ApplyCached,
             ApplyRefresh, ApplyReadFails, ApplyDiscard, ApplyStamp, ApplyLastKnownGood,
             Follow, Upload, Finish, Reset
    <3>3. {k \in 1 .. Len(cachedDevices[Home[t]]) :
              cachedDevices[Home[t]][k].deviceid = msg[t].dev} = {}
      BY <2>2, <3>1, <3>2 DEF Find, Goto, TypeOK
    <3>4. n \in 1 .. Len(cachedDevices[Home[t]])
      BY <2>1, <2>2, <3>2 DEF Find, TypeOK
    <3>5. QED
      BY <2>2, <3>2, <3>3, <3>4 DEF Find
  <2>3. CASE u # t
    <3>1. pc[u] = "create" /\ msg'[u] = msg[u] /\ cacheLock[Home[u]] = u
      BY <1>2, <2>3, OthersUnchanged DEF LockInv, Inside
    <3>2. CASE Create(t)
      <4>1. cacheLock[Home[t]] = t
        BY <3>2 DEF Create, LockInv, Inside
      <4>2. Home[t] # Home[u]
        BY <2>3, <3>1, <4>1
      <4>3. cachedDevices'[Home[u]] = cachedDevices[Home[u]]
        BY <2>1, <3>2, <4>2, CreateEffect
      <4>4. QED
        BY <3>1, <4>3 DEF CreateInv
    <3>3. CASE SetStamp(t) \/ ApplyRefresh(t) \/ ApplyReadFails(t)
      <4>1. /\ n \in DOMAIN cachedDevices[Home[u]]
            /\ cachedDevices'[Home[u]][n].deviceid = cachedDevices[Home[u]][n].deviceid
        BY <2>1, <3>3, AssigningEffect
      <4>2. QED
        BY <3>1, <4>1 DEF CreateInv
    <3>4. CASE cachedDevices' = cachedDevices
      BY <3>1, <3>4 DEF CreateInv
    <3>5. QED
      BY <1>2, <3>2, <3>3, <3>4, CacheKept
  <2>4. QED
    BY <2>2, <2>3
<1>3. ASSUME NEW i \in Instance, Restart(i) PROVE CreateInv'
  BY <1>3, RestartEffect, StampAssumption DEF CreateInv
<1>4. QED
  BY <1>1, <1>2, <1>3 DEF Next

\* So appending never duplicates a device.
LEMMA OneEntryStep == IInv /\ [Next]_vars => OneEntryPerDevice'
<1> SUFFICES ASSUME IInv, [Next]_vars PROVE OneEntryPerDevice'
  OBVIOUS
<1> USE DEF IInv
<1>1. CASE UNCHANGED vars
  BY <1>1 DEF OneEntryPerDevice, vars
<1>2. ASSUME NEW t \in Thread, Receive(t) \/ Handle(t) PROVE OneEntryPerDevice'
  <2>1. CASE Create(t)
    <3> SUFFICES ASSUME NEW i \in Instance,
                        NEW m \in DOMAIN cachedDevices'[i], NEW n \in DOMAIN cachedDevices'[i],
                        cachedDevices'[i][m].deviceid = cachedDevices'[i][n].deviceid
                 PROVE  m = n
      BY DEF OneEntryPerDevice
    <3>1. CASE i = Home[t]
      <4>1. \A k \in DOMAIN cachedDevices[i] : cachedDevices[i][k].deviceid # msg[t].dev
        BY <2>1, <3>1 DEF Create, CreateInv
      <4>2. \A k \in DOMAIN cachedDevices[i] :
               cachedDevices'[i][k].deviceid = cachedDevices[i][k].deviceid
        BY <2>1, <3>1, CreateEffect
      <4>3. \A k \in DOMAIN cachedDevices'[i] :
               \/ k \in DOMAIN cachedDevices[i]
               \/ /\ k = Len(cachedDevices[i]) + 1
                  /\ cachedDevices'[i][k].deviceid = msg[t].dev
        <5>1. LET k == Len(cachedDevices[i]) + 1
              IN /\ DOMAIN cachedDevices'[i] = DOMAIN cachedDevices[i] \cup {k}
                 /\ cachedDevices'[i][k] =
                       [deviceid |-> msg[t].dev, valid |-> FALSE, cache |-> None]
          BY <2>1, <3>1, CreateEffect
        <5>2. QED
          BY <5>1
      <4>4. QED
        <5>1. CASE m \in DOMAIN cachedDevices[i] /\ n \in DOMAIN cachedDevices[i]
          BY <4>2, <5>1 DEF OneEntryPerDevice
        <5>2. CASE m \in DOMAIN cachedDevices[i] /\ n \notin DOMAIN cachedDevices[i]
          BY <4>1, <4>2, <4>3, <5>2
        <5>3. CASE m \notin DOMAIN cachedDevices[i] /\ n \in DOMAIN cachedDevices[i]
          BY <4>1, <4>2, <4>3, <5>3
        <5>4. CASE m \notin DOMAIN cachedDevices[i] /\ n \notin DOMAIN cachedDevices[i]
          BY <4>3, <5>4
        <5>5. QED
          BY <5>1, <5>2, <5>3, <5>4
    <3>2. CASE i # Home[t]
      <4>1. cachedDevices'[i] = cachedDevices[i]
        BY <2>1, <3>2, CreateEffect
      <4>2. QED
        BY <4>1 DEF OneEntryPerDevice
    <3>3. QED
      BY <3>1, <3>2
  <2>2. CASE SetStamp(t) \/ ApplyRefresh(t) \/ ApplyReadFails(t)
    BY <2>2, AssigningEffect DEF OneEntryPerDevice
  <2>3. CASE cachedDevices' = cachedDevices
    BY <2>3 DEF OneEntryPerDevice
  <2>4. QED
    BY <1>2, <2>1, <2>2, <2>3, CacheKept
<1>3. ASSUME NEW i \in Instance, Restart(i) PROVE OneEntryPerDevice'
  BY <1>3 DEF Restart, OneEntryPerDevice, TypeOK
<1>4. QED
  BY <1>1, <1>2, <1>3 DEF Next

\* What is put into a cell or a file is a stamp of that device.
LEMMA CellInvStep == IInv /\ [Next]_vars => CellInv'
<1> SUFFICES ASSUME IInv, [Next]_vars PROVE CellInv'
  OBVIOUS
<1> USE DEF IInv
<1>1. CASE UNCHANGED vars
  BY <1>1 DEF CellInv, vars
<1>2. ASSUME NEW t \in Thread, Receive(t) \/ Handle(t) PROVE CellInv'
  <2>1. ASSUME NEW d \in Device, file'[d] \in Content PROVE file'[d].dev = d
    <3>1. CASE SetOpen(t)
      BY <2>1, <3>1, SpecialValuesAssumption DEF SetOpen, CellInv, TypeOK
    <3>2. CASE SetWrite(t)
      <4>1. file'[d] \in {Named(t), Unreadable, file[d]} /\ (file'[d] # file[d] => d = msg[t].dev)
        BY <3>2 DEF SetWrite, TypeOK
      <4>2. QED
        BY <2>1, <4>1, SpecialValuesAssumption DEF CellInv, Named
    <3>3. CASE file' = file
      BY <2>1, <3>3 DEF CellInv
    <3>4. QED
      BY <1>2, <3>1, <3>2, <3>3, CacheKept
         DEF SetStamp, SetMalformed, SetOpenFails, ApplyRefresh, ApplyReadFails, Create
  <2>2. ASSUME NEW i \in Instance, NEW n \in DOMAIN cachedDevices'[i]
        PROVE  LET e == cachedDevices'[i][n]
               IN /\ e.valid => e.cache \in Content
                  /\ e.cache \in Content => e.cache.dev = e.deviceid
    <3>1. CASE Create(t)
      <4>1. CASE n \in DOMAIN cachedDevices[i]
        <5>1. cachedDevices'[i][n] = cachedDevices[i][n]
          BY <3>1, <4>1, CreateEffect
        <5>2. QED
          BY <4>1, <5>1 DEF CellInv
      <4>2. CASE n \notin DOMAIN cachedDevices[i]
        <5>1. i = Home[t] /\ n = Len(cachedDevices[Home[t]]) + 1
          <6>1. i # Home[t] => cachedDevices'[i] = cachedDevices[i]
            BY <3>1, CreateEffect
          <6>2. LET k == Len(cachedDevices[Home[t]]) + 1
                IN DOMAIN cachedDevices'[Home[t]] = DOMAIN cachedDevices[Home[t]] \cup {k}
            BY <3>1, CreateEffect
          <6>3. QED
            BY <2>2, <4>2, <6>1, <6>2
        <5>2. cachedDevices'[i][n] =
                 [deviceid |-> msg[t].dev, valid |-> FALSE, cache |-> None]
          BY <3>1, <5>1, CreateEffect
        <5>3. QED
          BY <5>2, SpecialValuesAssumption
      <4>3. QED
        BY <4>1, <4>2
    <3>2. CASE SetStamp(t) \/ ApplyRefresh(t) \/ ApplyReadFails(t)
      <4>1. n \in DOMAIN cachedDevices[i]
        BY <2>2, <3>2, AssigningEffect
      <4>2. CASE i # Home[t] \/ n # entry[t]
        BY <3>2, <4>1, <4>2, AssigningEffect DEF CellInv
      <4>3. CASE i = Home[t] /\ n = entry[t]
        <5>1. cachedDevices'[i][n].deviceid = msg[t].dev /\ Cached(t).deviceid = msg[t].dev
          BY <3>2, <4>1, <4>3, AssigningEffect, CachedType DEF Cached
        <5>2. \/ ~cachedDevices'[i][n].valid /\ cachedDevices'[i][n].cache = Cached(t).cache
              \/ cachedDevices'[i][n].cache = Named(t) /\ Named(t) \in Content
              \/ /\ cachedDevices'[i][n].cache = file[msg[t].dev]
                 /\ file[msg[t].dev] \in Content /\ pc[t] = "apply"
          BY <3>2, <4>3, AssigningEffect
        <5>3. CASE ~cachedDevices'[i][n].valid /\ cachedDevices'[i][n].cache = Cached(t).cache
          BY <4>1, <4>3, <5>1, <5>3 DEF CellInv, Cached
        <5>4. CASE cachedDevices'[i][n].cache = Named(t) /\ Named(t) \in Content
          BY <5>1, <5>4 DEF Named
        <5>5. CASE /\ cachedDevices'[i][n].cache = file[msg[t].dev]
                   /\ file[msg[t].dev] \in Content /\ pc[t] = "apply"
          BY <5>1, <5>5, NamedType DEF CellInv
        <5>6. QED
          BY <5>2, <5>3, <5>4, <5>5
      <4>4. QED
        BY <4>2, <4>3
    <3>3. CASE cachedDevices' = cachedDevices
      BY <2>2, <3>3 DEF CellInv
    <3>4. QED
      BY <1>2, <3>1, <3>2, <3>3, CacheKept
  <2>3. QED
    BY <2>1, <2>2 DEF CellInv
<1>3. ASSUME NEW i \in Instance, Restart(i) PROVE CellInv'
  BY <1>3 DEF Restart, CellInv, TypeOK
<1>4. QED
  BY <1>1, <1>2, <1>3 DEF Next

\* What the assignment of one goroutine leaves for another to point at.
LEMMA CellOfOther ==
    ASSUME TypeOK, MessageInv, EntryInv, PointerInv, NEW t \in Thread,
           Receive(t) \/ Handle(t), NEW u \in Thread, pc[u] = "send"
    PROVE  cachedDevices'[Home[u]][entry[u]].cache \in Content
<1>1. /\ Home[u] \in Instance /\ entry[u] \in DOMAIN cachedDevices[Home[u]]
      /\ cachedDevices[Home[u]][entry[u]].cache \in Content
  BY StampAssumption DEF EntryInv, Indexed, PointerInv, Cached
<1>2. CASE SetStamp(t) \/ ApplyRefresh(t) \/ ApplyReadFails(t)
  <2>1. CASE Home[u] # Home[t] \/ entry[u] # entry[t]
    BY <1>1, <1>2, <2>1, AssigningEffect
  <2>2. CASE Home[u] = Home[t] /\ entry[u] = entry[t]
    BY <1>1, <1>2, <2>2, AssigningEffect DEF Cached
  <2>3. QED
    BY <2>1, <2>2
<1>3. CASE Create(t)
  <2>1. cachedDevices'[Home[u]][entry[u]] = cachedDevices[Home[u]][entry[u]]
    BY <1>1, <1>3, CreateKeeps
  <2>2. QED
    BY <1>1, <2>1
<1>4. CASE cachedDevices' = cachedDevices
  BY <1>1, <1>4
<1>5. QED
  BY <1>2, <1>3, <1>4, CacheKept

\* What a pointer, or a copy, is taken from belongs to the message's device.
LEMMA CellDevice ==
    ASSUME TypeOK, EntryInv, CellInv, NEW t \in Thread, pc[t] \in Indexed,
           Cached(t).cache \in Content
    PROVE  Cached(t).cache.dev = msg[t].dev
  BY CachedType, StampAssumption DEF CellInv, Cached

\* What a stamped message points to stays a stamp of its own device, whether the
\* cell is overwritten in place or left behind by append.
LEMMA PointerInvStep == IInv /\ [Next]_vars => PointerInv'
<1> SUFFICES ASSUME IInv, [Next]_vars PROVE PointerInv'
  OBVIOUS
<1> USE DEF IInv
<1>1. CASE UNCHANGED vars
  BY <1>1 DEF PointerInv, Cached, vars
<1>2. ASSUME NEW t \in Thread, Receive(t) \/ Handle(t) PROVE PointerInv'
  <2> SUFFICES ASSUME NEW u \in Thread
               PROVE  /\ pc'[u] = "send" => cachedDevices'[Home[u]][entry'[u]].cache \in Content
                      /\ frozen'[u] \in Content => frozen'[u].dev = msg'[u].dev
    BY DEF PointerInv, Cached
  <2>1. ASSUME pc'[u] = "send"
        PROVE  cachedDevices'[Home[u]][entry'[u]].cache \in Content
    <3>1. CASE pc[u] = "send" /\ entry'[u] = entry[u]
      BY <1>2, <3>1, CellOfOther
    <3>2. CASE u = t /\ pc[u] # "send"
      <4>1. msg[t].kind # "send" \/ (~Find(t) /\ ~Create(t))
        BY DEF MessageInv, Message, Find, Create
      <4>2. ApplyStamp(t) \/ ApplyLastKnownGood(t)
        BY <1>2, <2>1, <3>2, <4>1
           DEF Handle, Receive, Lock, Find, Create, Plain, SetStamp, SetMalformed,
               SetOpenFails, SetOpen, SetWrite, Apply, ApplyCached, ApplyRefresh,
               ApplyReadFails, ApplyDiscard, Follow, Upload, Finish, Reset, Goto, TypeOK
      <4>3. entry' = entry /\ cachedDevices' = cachedDevices /\ Cached(t).valid
            /\ pc[t] = "stamp"
        BY <4>2 DEF ApplyStamp, ApplyLastKnownGood, Hit
      <4>4. QED
        BY <3>2, <4>3, CachedType, StampAssumption DEF CellInv, Cached, Indexed
    <3>3. CASE u = t /\ pc[u] = "send"
      BY <1>2, <2>1, <3>1, <3>3
         DEF Handle, Receive, Lock, Find, Create, Plain, SetStamp, SetMalformed,
             SetOpenFails, SetOpen, SetWrite, Apply, ApplyCached, ApplyRefresh,
             ApplyReadFails, ApplyDiscard, ApplyStamp, ApplyLastKnownGood, Follow, Upload,
             Finish
    <3>4. QED
      BY <1>2, <2>1, <3>1, <3>2, <3>3, OthersUnchanged
  <2>2. ASSUME frozen'[u] \in Content
        PROVE  frozen'[u].dev = msg'[u].dev
    <3>1. CASE Create(t)
      <4>1. msg' = msg
        BY <3>1 DEF Create
      <4>2. frozen'[u] = frozen[u] \/ (pc[u] = "send" /\ frozen'[u] = Cached(u).cache)
        BY <3>1 DEF Create
      <4>3. QED
        BY <2>2, <4>1, <4>2, CellDevice DEF PointerInv, Indexed
    <3>2. CASE Receive(t)
      BY <2>2, <3>2, SpecialValuesAssumption DEF Receive, PointerInv, MessageInv, TypeOK
    <3>3. CASE Finish(t)
      BY <2>2, <3>3, SpecialValuesAssumption DEF Finish, Reset, PointerInv, TypeOK
    <3>4. CASE frozen' = frozen /\ msg' = msg
      BY <2>2, <3>4 DEF PointerInv
    <3>5. QED
      BY <1>2, <3>1, <3>2, <3>3, <3>4
         DEF Handle, Lock, Find, Plain, SetStamp, SetMalformed, SetOpenFails, SetOpen,
             SetWrite, Apply, ApplyCached, ApplyRefresh, ApplyReadFails, ApplyDiscard,
             ApplyStamp, ApplyLastKnownGood, Follow, Upload
  <2>3. QED
    BY <2>1, <2>2
<1>3. ASSUME NEW i \in Instance, Restart(i) PROVE PointerInv'
  BY <1>3, RestartEffect, StampAssumption, SpecialValuesAssumption DEF PointerInv, Cached
<1>4. QED
  BY <1>1, <1>2, <1>3 DEF Next

\* The fields of an uploaded record.
LEMMA UploadedFields ==
    \A r \in Uploaded : DOMAIN r = {"loc", "date", "time", "alt", "motion", "test"}
  BY DEF Uploaded

\* So no field of another device is uploaded.
LEMMA OwnDeviceStep == IInv /\ [Next]_vars => OwnDeviceOnly'
<1> SUFFICES ASSUME IInv, [Next]_vars PROVE OwnDeviceOnly'
  OBVIOUS
<1> USE DEF IInv
<1>1. CASE UNCHANGED vars
  BY <1>1 DEF OwnDeviceOnly, vars
<1>2. ASSUME NEW t \in Thread, Receive(t) \/ Handle(t) PROVE OwnDeviceOnly'
  <2>1. CASE Receive(t)
    <3>1. out' = out /\ out[t] = NoFields /\ \A u \in Thread \ {t} : msg'[u] = msg[u]
      BY <2>1 DEF Receive, MessageInv, TypeOK
    <3>2. \A f \in DOMAIN NoFields : NoFields[f] \notin Content
      BY SpecialValuesAssumption DEF NoFields
    <3>3. QED
      BY <3>1, <3>2 DEF OwnDeviceOnly
  <2>2. CASE ApplyStamp(t) \/ ApplyLastKnownGood(t)
    <3>1. Cached(t).valid /\ pc[t] = "stamp" /\ msg' = msg
      BY <2>2 DEF ApplyStamp, ApplyLastKnownGood, Hit
    <3>2. Cached(t).cache \in Content /\ Cached(t).cache.dev = msg[t].dev
      BY <3>1, CachedType, CellDevice, StampAssumption DEF CellInv, Cached, Indexed
    <3>3. CopiedLocation(t) \in Content => CopiedLocation(t).dev = msg[t].dev
      BY <3>2, SpecialValuesAssumption DEF CopiedLocation
    <3>4. \A u \in Thread : DOMAIN out'[u] = DOMAIN out[u]
      BY TypeOKStep, UploadedFields DEF TypeOK
    <3>5. \A u \in Thread : \A f \in DOMAIN out[u] :
             \/ out'[u][f] = out[u][f]
             \/ out'[u][f] = Now
             \/ u = t /\ out'[u][f] = CopiedLocation(t)
      BY <2>2 DEF ApplyStamp, ApplyLastKnownGood, TypeOK, Uploaded
    <3>6. QED
      BY <3>1, <3>3, <3>4, <3>5, SpecialValuesAssumption DEF OwnDeviceOnly
  <2>3. CASE Follow(t)
    <3>1. PICK f \in todo[t] : out' = [out EXCEPT ![t][f] = PointsTo(t)]
      BY <2>3 DEF Follow
    <3>2. PointsTo(t).dev = msg[t].dev
      BY <2>3, CellDevice DEF Follow, PointsTo, PointerInv, TypeOK, Indexed
    <3>3. msg' = msg
      BY <2>3 DEF Follow
    <3>4. \A u \in Thread : DOMAIN out'[u] = DOMAIN out[u]
      BY TypeOKStep, UploadedFields DEF TypeOK
    <3>5. \A u \in Thread : \A g \in DOMAIN out[u] :
             out'[u][g] = out[u][g] \/ (u = t /\ out'[u][g] = PointsTo(t))
      BY <3>1 DEF TypeOK, Uploaded
    <3>6. QED
      BY <3>2, <3>3, <3>4, <3>5 DEF OwnDeviceOnly
  <2>4. CASE Finish(t)
    BY <2>4, SpecialValuesAssumption DEF Finish, Reset, OwnDeviceOnly, NoFields, TypeOK
  <2>5. CASE out' = out /\ msg' = msg
    BY <2>5 DEF OwnDeviceOnly
  <2>6. QED
    BY <1>2, <2>1, <2>2, <2>3, <2>4, <2>5
       DEF Handle, Lock, Find, Create, Plain, SetStamp, SetMalformed, SetOpenFails, SetOpen,
           SetWrite, Apply, ApplyCached, ApplyRefresh, ApplyReadFails, ApplyDiscard, Upload
<1>3. ASSUME NEW i \in Instance, Restart(i) PROVE OwnDeviceOnly'
  BY <1>3, RestartEffect, SpecialValuesAssumption DEF OwnDeviceOnly, NoFields
<1>4. QED
  BY <1>1, <1>2, <1>3 DEF Next

-----------------------------------------------------------------------------
\* The invariant holds of a server that has just started.
LEMMA InitIInv == Init => IInv
<1> SUFFICES ASSUME Init PROVE IInv
  OBVIOUS
<1> USE StampAssumption, SpecialValuesAssumption DEF Init
<1>1. TypeOK
  BY DEF TypeOK, Label, NoFields, Uploaded
<1>2. LockInv /\ EntryInv /\ CreateInv /\ CellInv /\ OneEntryPerDevice
  BY DEF LockInv, EntryInv, CreateInv, CellInv, OneEntryPerDevice, Inside, Indexed
<1>3. MessageInv /\ PointerInv /\ OwnDeviceOnly
  BY DEF MessageInv, PointerInv, OwnDeviceOnly, NoFields
<1>4. QED
  BY <1>1, <1>2, <1>3 DEF IInv

\* The invariant is inductive.
LEMMA StepIInv == IInv /\ [Next]_vars => IInv'
  BY TypeOKStep, LockInvStep, MessageInvStep, EntryInvStep, CreateInvStep, CellInvStep,
     PointerInvStep, OneEntryStep, OwnDeviceStep
     DEF IInv

\* The invariant holds of every behaviour of the stamping code.
THEOREM InductiveInvariant == Spec => []IInv
  BY InitIInv, StepIInv, PTL DEF Spec

\* Every variable keeps its type, for any number of instances and goroutines.
THEOREM TypeCorrect == Spec => []TypeOK
  BY InductiveInvariant, PTL DEF IInv

\* The slice of cache entries never holds two entries of one device.
THEOREM NoDuplicateEntries == Spec => []OneEntryPerDevice
  BY InductiveInvariant, PTL DEF IInv

\* A goroutine holds the mutex of its instance exactly from Lock to the return: no return
\* path leaves it locked, and no step in between is without it.
THEOREM MutexIsReleased == Spec => []LockInv
  BY InductiveInvariant, PTL DEF IInv

\* No message is uploaded with another device's place, time or mode.
THEOREM NoForeignFields == Spec => []OwnDeviceOnly
  BY InductiveInvariant, PTL DEF IInv

-----------------------------------------------------------------------------
(* A settled stamp is used.  While a message is steady the file keeps its    *)
(* stamp and nobody is writing one, so whatever enters its cell is that      *)
(* stamp again.                                                              *)
ExpectedLocation(t) ==
    IF msg[t].located THEN Own ELSE IF msg[t].stamp \in Located THEN Named(t) ELSE None

SteadyInv ==
    \A t \in Thread : steady[t] =>
        /\ file[msg[t].dev] = Named(t)
        /\ \A u \in Thread : pc[u] = "write" => msg[u].dev # msg[t].dev
        /\ pc[t] = "stamp" => Hit(t)
        /\ pc[t] = "send" =>
              /\ Cached(t).cache = Named(t)
              /\ frozen[t] \in {None, Named(t)}
              /\ out[t].loc = ExpectedLocation(t)
              /\ msg[t].offset =>
                    /\ "date" \in todo[t] \/ out[t].date = Named(t)
                    /\ "time" \in todo[t] \/ out[t].time = Named(t)
        /\ pc[t] # "discarded"
        /\ pc[t] = "done" =>
              /\ out[t].loc = ExpectedLocation(t)
              /\ msg[t].offset => out[t].date = Named(t) /\ out[t].time = Named(t)

\* The file of a steady message's device, and who may write it, after a step.
LEMMA SteadyFile ==
    ASSUME IInv, SteadyInv, NEW t \in Thread, Handle(t), NEW u \in Thread,
           steady[u], steady'[u]
    PROVE  /\ file'[msg[u].dev] = file[msg[u].dev]
           /\ \A w \in Thread : pc'[w] = "write" => msg'[w].dev # msg[u].dev
<1> USE DEF IInv
<1>1. msg[u] \in Message /\ msg[u].dev \in Device
  BY DEF MessageInv, Message
<1>2. CASE SetOpen(t)
  <2>1. msg[u].dev # msg[t].dev /\ msg' = msg /\ pc' = [pc EXCEPT ![t] = "write"]
        /\ file' = [file EXCEPT ![msg[t].dev] = Unreadable]
    BY <1>2 DEF SetOpen, Goto, TypeOK
  <2>2. QED
    BY <1>1, <2>1 DEF SteadyInv, TypeOK
<1>3. CASE SetWrite(t)
  <2>1. /\ msg[u].dev # msg[t].dev /\ msg' = msg /\ pc' = [pc EXCEPT ![t] = "done"]
        /\ \E r : file' = [file EXCEPT ![msg[t].dev] = r]
    BY <1>3 DEF SetWrite, Goto, SteadyInv
  <2>2. QED
    BY <1>1, <2>1 DEF SteadyInv, TypeOK
<1>4. CASE ~SetOpen(t) /\ ~SetWrite(t)
  <2>1. file' = file
    BY <1>4, CacheKept
       DEF Handle, SetStamp, SetMalformed, SetOpenFails, ApplyRefresh, ApplyReadFails, Create
  <2>2. ASSUME Find(t) \/ Create(t) PROVE msg[t].kind # "write"
    BY <2>2 DEF Find, Create, MessageInv, Message
  <2>3. pc'[t] # "write"
    BY <1>4, <2>2
       DEF Handle, Lock, Find, Create, Plain, SetStamp, SetMalformed, SetOpenFails, Apply,
           ApplyCached, ApplyRefresh, ApplyReadFails, ApplyDiscard, ApplyStamp,
           ApplyLastKnownGood, Follow, Upload, Finish, Reset, Goto, TypeOK
  <2>4. QED
    BY <2>1, <2>3, OthersUnchanged DEF SteadyInv
<1>5. QED
  BY <1>2, <1>3, <1>4

\* The cell a steady message has been stamped from, or is about to be.
LEMMA SteadyCell ==
    ASSUME IInv, SteadyInv, NEW t \in Thread, Handle(t), NEW u \in Thread,
           steady[u], pc[u] \in {"stamp", "send"}, Cached(u).cache = Named(u)
    PROVE  /\ cachedDevices'[Home[u]][entry[u]].cache = Named(u)
           /\ pc[u] = "stamp" =>
                 cachedDevices'[Home[u]][entry[u]].valid = Cached(u).valid
<1> USE DEF IInv
<1>1. /\ Home[u] \in Instance /\ entry[u] \in DOMAIN cachedDevices[Home[u]]
      /\ Cached(u).deviceid = msg[u].dev
  BY StampAssumption, CachedType DEF Indexed
<1>2. CASE SetStamp(t) \/ ApplyRefresh(t) \/ ApplyReadFails(t)
  <2>0. pc[t] \in Inside /\ pc[t] # "stamp"
    BY <1>2 DEF SetStamp, SetMalformed, SetOpenFails, SetOpen, SetWrite, ApplyRefresh,
                ApplyReadFails, Inside
  <2>1. CASE Home[u] # Home[t] \/ entry[u] # entry[t]
    BY <1>1, <1>2, <2>1, AssigningEffect DEF Cached
  <2>2. CASE Home[u] = Home[t] /\ entry[u] = entry[t]
    <3>1. Cached(t) = Cached(u) /\ msg[t].dev = msg[u].dev
      BY <1>1, <1>2, <2>2, AssigningEffect, CachedType DEF Cached
    <3>2. pc[u] # "stamp"
      BY <2>0, <2>2 DEF LockInv, Inside
    <3>3. pc[t] # "write" /\ file[msg[t].dev] = Named(u)
      BY <3>1 DEF SteadyInv
    <3>4. QED
      BY <1>2, <2>2, <3>1, <3>2, <3>3, AssigningEffect
  <2>3. QED
    BY <2>1, <2>2
<1>3. CASE Create(t)
  BY <1>1, <1>3, CreateKeeps DEF Cached
<1>4. CASE cachedDevices' = cachedDevices
  BY <1>4 DEF Cached
<1>5. QED
  BY <1>2, <1>3, <1>4, CacheKept

\* A goroutine that is not the one stepping.
LEMMA SteadyOther ==
    ASSUME IInv, SteadyInv, NEW t \in Thread, Receive(t) \/ Handle(t),
           NEW u \in Thread \ {t}, steady'[u]
    PROVE  SteadyInv!(u)'
<1> USE DEF IInv
<1>1. /\ steady[u] /\ pc'[u] = pc[u] /\ msg'[u] = msg[u] /\ entry'[u] = entry[u]
      /\ todo'[u] = todo[u] /\ out'[u] = out[u]
  BY OthersUnchanged
<1>2. CASE Receive(t)
  BY <1>1, <1>2
     DEF Receive, Goto, SteadyInv, Hit, Cached, Named, ExpectedLocation, TypeOK
<1>3. CASE Handle(t)
  <2>1. /\ file'[msg[u].dev] = Named(u)
        /\ \A w \in Thread : pc'[w] = "write" => msg'[w].dev # msg[u].dev
    BY <1>1, <1>3, SteadyFile DEF SteadyInv
  <2>2. pc[u] = "stamp" => Hit(u)'
    <3>1. ASSUME pc[u] = "stamp"
          PROVE  /\ cachedDevices'[Home[u]][entry[u]].cache = Named(u)
                 /\ cachedDevices'[Home[u]][entry[u]].valid
      <4>1. Cached(u).valid /\ Cached(u).cache = Named(u)
        BY <1>1, <3>1 DEF SteadyInv, Hit
      <4>2. QED
        BY <1>1, <1>3, <3>1, <4>1, SteadyCell
    <3>2. QED
      BY <1>1, <3>1 DEF Hit, Cached, Named
  <2>3. pc[u] = "send" => Cached(u)'.cache = Named(u)
    BY <1>1, <1>3, SteadyCell DEF SteadyInv, Cached
  <2>4. pc[u] = "send" => frozen'[u] \in {None, Named(u)}
    <3>1. CASE Create(t)
      BY <1>1, <3>1 DEF Create, SteadyInv, TypeOK
    <3>2. CASE Finish(t)
      BY <1>1, <3>2 DEF Finish, Reset, SteadyInv, TypeOK
    <3>3. CASE frozen' = frozen
      BY <1>1, <3>3 DEF SteadyInv
    <3>4. QED
      BY <1>3, <3>1, <3>2, <3>3
         DEF Handle, Lock, Find, Plain, SetStamp, SetMalformed, SetOpenFails, SetOpen,
             SetWrite, Apply, ApplyCached, ApplyRefresh, ApplyReadFails, ApplyDiscard,
             ApplyStamp, ApplyLastKnownGood, Follow, Upload
  <2>5. Named(u)' = Named(u) /\ ExpectedLocation(u)' = ExpectedLocation(u)
    BY <1>1 DEF Named, ExpectedLocation
  <2>6. QED
    BY <1>1, <2>1, <2>2, <2>3, <2>4, <2>5 DEF SteadyInv
<1>4. QED
  BY <1>2, <1>3

\* The goroutine that steps.
LEMMA SteadySelf ==
    ASSUME IInv, SteadyInv, NEW t \in Thread, Receive(t) \/ Handle(t), steady'[t]
    PROVE  SteadyInv!(t)'
<1> USE DEF IInv
<1>1. CASE Receive(t)
  BY <1>1 DEF Receive, Goto, SteadyInv, Writing, Named, TypeOK
<1>2. ASSUME Handle(t) PROVE steady[t] /\ msg[t].kind = "apply" /\ msg'[t] = msg[t]
  <2>1. steady[t] /\ ~Finish(t)
    BY <1>2
       DEF Handle, Lock, Find, Create, Plain, SetStamp, SetMalformed, SetOpenFails, SetOpen,
           SetWrite, Apply, ApplyCached, ApplyRefresh, ApplyReadFails, ApplyDiscard,
           ApplyStamp, ApplyLastKnownGood, Follow, Upload, Finish, Reset, TypeOK
  <2>2. msg' = msg
    BY <1>2, <2>1
       DEF Handle, Lock, Find, Create, Plain, SetStamp, SetMalformed, SetOpenFails, SetOpen,
           SetWrite, Apply, ApplyCached, ApplyRefresh, ApplyReadFails, ApplyDiscard,
           ApplyStamp, ApplyLastKnownGood, Follow, Upload
  <2>3. QED
    BY <2>1, <2>2 DEF MessageInv
<1>3. ASSUME Handle(t)
      PROVE  /\ file'[msg'[t].dev] = Named(t)'
             /\ \A u \in Thread : pc'[u] = "write" => msg'[u].dev # msg'[t].dev
  BY <1>2, <1>3, SteadyFile DEF SteadyInv, Named
<1>4. CASE Lock(t) \/ Find(t) \/ Create(t) \/ Plain(t)
  <2>1. pc'[t] \in {"find", "create", "apply"}
    BY <1>2, <1>4 DEF Handle, Lock, Find, Create, Plain, Goto, MessageInv, TypeOK
  <2>2. QED
    BY <1>3, <1>4, <2>1 DEF Handle, SteadyInv
<1>5. CASE SetStamp(t)
  BY <1>2, <1>5
     DEF Handle, SetStamp, SetMalformed, SetOpenFails, SetOpen, SetWrite, MessageInv
<1>6. CASE ApplyCached(t)
  <2>1. Hit(t)' /\ pc'[t] = "stamp"
    BY <1>6 DEF ApplyCached, Hit, Cached, Named, Goto, TypeOK
  <2>2. QED
    BY <1>3, <1>6, <2>1 DEF Handle, Apply, SteadyInv
<1>7. CASE ApplyRefresh(t)
  <2>1. pc[t] = "apply" /\ entry' = entry /\ msg' = msg /\ pc'[t] = "stamp"
    BY <1>7 DEF ApplyRefresh, Goto, TypeOK
  <2>2. file[msg[t].dev] = Named(t) /\ Named(t) \in Content
    BY <1>2, <1>7, <2>1, NamedType DEF Handle, Apply, SteadyInv
  <2>3. Cache(t, TRUE, Named(t))
    BY <1>7, <2>2, SpecialValuesAssumption DEF ApplyRefresh
  <2>4. Hit(t)'
    BY <2>1, <2>2, <2>3, AssignEffect DEF Hit, Cached, Named, Indexed
  <2>5. QED
    BY <1>3, <1>7, <2>1, <2>4 DEF Handle, Apply, SteadyInv
<1>8. CASE ApplyReadFails(t)
  BY <1>8 DEF ApplyReadFails, TypeOK
<1>9. CASE ApplyDiscard(t) \/ ApplyLastKnownGood(t)
  BY <1>2, <1>9 DEF Handle, Apply, ApplyDiscard, ApplyLastKnownGood, SteadyInv, Hit
<1>10. CASE ApplyStamp(t)
  <2>1. /\ Cached(t).cache = Named(t) /\ Cached(t)' = Cached(t) /\ Named(t)' = Named(t)
        /\ ExpectedLocation(t)' = ExpectedLocation(t) /\ frozen' = frozen
        /\ pc[t] = "stamp" /\ pc'[t] = "send" /\ msg' = msg
    BY <1>10 DEF ApplyStamp, Hit, Cached, Named, ExpectedLocation, Goto, TypeOK
  <2>2. out'[t].loc = ExpectedLocation(t)
    <3>1. CopiedLocation(t) = ExpectedLocation(t)
      BY <2>1 DEF CopiedLocation, ExpectedLocation, Named
    <3>2. QED
      BY <1>10, <3>1 DEF ApplyStamp, TypeOK, Uploaded
  <2>3. msg[t].offset => {"date", "time"} \subseteq todo'[t]
    BY <1>10 DEF ApplyStamp, StampPointers, TypeOK
  <2>4. frozen[t] = None
    BY <2>1 DEF MessageInv
  <2>5. QED
    BY <1>3, <1>10, <2>1, <2>2, <2>3, <2>4 DEF Handle, Apply, SteadyInv
<1>11. CASE Follow(t)
  <2>1. PICK f \in todo[t] : /\ out' = [out EXCEPT ![t][f] = PointsTo(t)]
                             /\ todo' = [todo EXCEPT ![t] = @ \ {f}]
    BY <1>11 DEF Follow
  <2>2. /\ Cached(t)' = Cached(t) /\ Named(t)' = Named(t) /\ frozen' = frozen
        /\ ExpectedLocation(t)' = ExpectedLocation(t)
        /\ pc[t] = "send" /\ pc'[t] = "send" /\ msg' = msg
    BY <1>11 DEF Follow, Cached, Named, ExpectedLocation
  <2>3. PointsTo(t) = Named(t)
    BY <1>2, <1>11, <2>2 DEF Handle, PointsTo, SteadyInv
  <2>4. f \in {"date", "time", "alt", "motion", "test"}
    BY FieldNames DEF TypeOK
  <2>5. /\ out'[t].loc = out[t].loc
        /\ out'[t].date = IF f = "date" THEN Named(t) ELSE out[t].date
        /\ out'[t].time = IF f = "time" THEN Named(t) ELSE out[t].time
        /\ todo'[t] = todo[t] \ {f}
    <3>1. out[t] \in Uploaded
      BY DEF TypeOK
    <3>2. out'[t] = [out[t] EXCEPT ![f] = Named(t)]
      BY <2>1, <2>3 DEF TypeOK
    <3>3. QED
      BY <2>1, <2>4, <3>1, <3>2 DEF Uploaded, TypeOK
  <2>6. QED
    BY <1>2, <1>3, <1>11, <2>2, <2>5 DEF Handle, SteadyInv
<1>12. CASE Upload(t)
  <2>1. /\ Named(t)' = Named(t) /\ ExpectedLocation(t)' = ExpectedLocation(t)
        /\ pc[t] = "send" /\ pc'[t] = "done" /\ out' = out /\ todo[t] = {} /\ msg' = msg
    BY <1>12 DEF Upload, Named, ExpectedLocation, Goto, TypeOK
  <2>2. QED
    BY <1>2, <1>3, <1>12, <2>1 DEF Handle, SteadyInv
<1>13. CASE Finish(t)
  BY <1>13 DEF Finish, Reset
<1>14. QED
  BY <1>1, <1>4, <1>5, <1>6, <1>7, <1>8, <1>9, <1>10, <1>11, <1>12, <1>13 DEF Handle, Apply

\* A restart of one instance leaves the steady messages of the others alone.
LEMMA SteadyRestart ==
    ASSUME IInv, SteadyInv, NEW i \in Instance, Restart(i), NEW t \in Thread, steady'[t]
    PROVE  SteadyInv!(t)'
<1> USE DEF IInv
<1>1. Home[t] # i /\ steady[t] /\ Home[t] \in Instance
  BY RestartEffect, StampAssumption
<1>2. /\ pc'[t] = pc[t] /\ msg'[t] = msg[t] /\ entry'[t] = entry[t] /\ out'[t] = out[t]
      /\ frozen'[t] = frozen[t] /\ todo'[t] = todo[t] /\ file' = file
      /\ cachedDevices'[Home[t]] = cachedDevices[Home[t]]
  BY <1>1, RestartEffect
<1>3. \A u \in Thread : pc'[u] = "write" => pc[u] = "write" /\ msg'[u] = msg[u]
  BY RestartEffect
<1>4. /\ Cached(t)' = Cached(t) /\ Named(t)' = Named(t) /\ Hit(t)' = Hit(t)
      /\ ExpectedLocation(t)' = ExpectedLocation(t)
  BY <1>2 DEF Cached, Named, Hit, ExpectedLocation
<1>5. QED
  BY <1>1, <1>2, <1>3, <1>4 DEF SteadyInv

\* Every step keeps what is known of steady messages.
LEMMA SteadyStep == IInv /\ SteadyInv /\ [Next]_vars => SteadyInv'
<1> SUFFICES ASSUME IInv, SteadyInv, [Next]_vars PROVE SteadyInv'
  OBVIOUS
<1>1. CASE UNCHANGED vars
  BY <1>1 DEF SteadyInv, Hit, Cached, Named, ExpectedLocation, vars
<1>2. ASSUME NEW t \in Thread, Receive(t) \/ Handle(t) PROVE SteadyInv'
  BY <1>2, SteadySelf, SteadyOther DEF SteadyInv
<1>3. ASSUME NEW i \in Instance, Restart(i) PROVE SteadyInv'
  BY <1>3, SteadyRestart DEF SteadyInv
<1>4. QED
  BY <1>1, <1>2, <1>3 DEF Next

\* A stamp that is in the file when a message naming it arrives, and that no
\* stamper or failing read disturbs, is the one the message is uploaded with,
\* on any instance, whatever is in the caches and whoever else is running.
THEOREM SteadyStampIsUsed == Spec => []SteadyStampUsed
<1>1. Init => SteadyInv
  BY DEF Init, SteadyInv
<1>2. SteadyInv => SteadyStampUsed
  BY DEF SteadyInv, SteadyStampUsed, ExpectedLocation
<1>3. QED
  BY <1>1, <1>2, SteadyStep, InductiveInvariant, PTL DEF Spec

-----------------------------------------------------------------------------
(* A place and a time that belong together.  The place is copied under the   *)
(* mutex; a place that is not the named stamp's comes with the server's      *)
(* clock, and no pointer to a date is left that could replace it.            *)
PlaceInv ==
    \A t \in Thread :
        /\ pc[t] \notin {"send", "done"} => out[t].loc = None
        /\ out[t].loc \in Content /\ out[t].loc # Named(t) =>
              out[t].date = Now /\ "date" \notin todo[t]

\* The goroutine that steps.
LEMMA PlaceSelf ==
    ASSUME IInv, PlaceInv, NEW t \in Thread, Receive(t) \/ Handle(t)
    PROVE  PlaceInv!(t)'
<1> USE DEF IInv
<1>0. out[t] \in Uploaded /\ None \notin Content /\ Own \notin Content
  BY SpecialValuesAssumption DEF TypeOK
<1>1. CASE Receive(t)
  BY <1>0, <1>1 DEF Receive, Goto, PlaceInv, TypeOK
<1>2. CASE Lock(t) \/ Find(t) \/ Create(t) \/ Plain(t) \/ SetStamp(t)
  <2>1. out' = out /\ pc[t] \notin {"send", "done"}
    BY <1>2 DEF Lock, Find, Create, Plain, SetStamp, SetMalformed, SetOpenFails, SetOpen,
                SetWrite
  <2>2. QED
    BY <1>0, <2>1 DEF PlaceInv
<1>3. CASE ApplyCached(t) \/ ApplyRefresh(t) \/ ApplyReadFails(t) \/ ApplyDiscard(t)
  <2>1. out' = out /\ pc[t] \notin {"send", "done"}
    BY <1>3 DEF ApplyCached, ApplyRefresh, ApplyReadFails, ApplyDiscard
  <2>2. QED
    BY <1>0, <2>1 DEF PlaceInv
<1>4. CASE ApplyStamp(t)
  <2>1. CopiedLocation(t) \in {Own, Named(t), None}
    BY <1>4 DEF ApplyStamp, Hit, CopiedLocation
  <2>2. out'[t].loc = CopiedLocation(t) /\ msg' = msg /\ pc'[t] = "send"
    BY <1>0, <1>4 DEF ApplyStamp, Goto, TypeOK, Uploaded
  <2>3. QED
    BY <1>0, <2>1, <2>2 DEF Named
<1>5. CASE ApplyLastKnownGood(t)
  <2>1. "date" \notin LastKnownGoodPointers(t)
    BY DEF LastKnownGoodPointers, AltitudePointer
  <2>2. /\ out'[t].date = Now /\ todo'[t] = LastKnownGoodPointers(t) /\ pc'[t] = "send"
    BY <1>0, <1>5 DEF ApplyLastKnownGood, Goto, TypeOK, Uploaded
  <2>3. QED
    BY <2>1, <2>2
<1>6. CASE Follow(t)
  <2>1. PICK f \in todo[t] : /\ out' = [out EXCEPT ![t][f] = PointsTo(t)]
                             /\ todo' = [todo EXCEPT ![t] = @ \ {f}]
    BY <1>6 DEF Follow
  <2>2. f \in {"date", "time", "alt", "motion", "test"}
    BY FieldNames DEF TypeOK
  <2>3. /\ out'[t].loc = out[t].loc
        /\ f # "date" => out'[t].date = out[t].date
        /\ todo'[t] = todo[t] \ {f}
    <3>1. out'[t] = [out[t] EXCEPT ![f] = PointsTo(t)]
      BY <2>1 DEF TypeOK
    <3>2. QED
      BY <1>0, <2>1, <2>2, <3>1 DEF Uploaded, TypeOK
  <2>4. msg' = msg /\ pc' = pc /\ pc[t] = "send"
    BY <1>6 DEF Follow
  <2>5. QED
    BY <2>1, <2>3, <2>4 DEF PlaceInv, Named
<1>7. CASE Upload(t)
  BY <1>7 DEF Upload, Goto, PlaceInv, Named, TypeOK
<1>8. CASE Finish(t)
  BY <1>0, <1>8 DEF Finish, Reset, NoFields
<1>9. QED
  BY <1>1, <1>2, <1>3, <1>4, <1>5, <1>6, <1>7, <1>8 DEF Handle, Apply

\* Every step keeps places and times together.
LEMMA PlaceStep == IInv /\ PlaceInv /\ [Next]_vars => PlaceInv'
<1> SUFFICES ASSUME IInv, PlaceInv, [Next]_vars PROVE PlaceInv'
  OBVIOUS
<1>1. CASE UNCHANGED vars
  BY <1>1 DEF PlaceInv, Named, vars
<1>2. ASSUME NEW t \in Thread, Receive(t) \/ Handle(t) PROVE PlaceInv'
  <2>1. ASSUME NEW u \in Thread, u # t PROVE PlaceInv!(u)'
    <3>1. pc'[u] = pc[u] /\ msg'[u] = msg[u] /\ todo'[u] = todo[u] /\ out'[u] = out[u]
      BY <1>2, <2>1, OthersUnchanged DEF IInv
    <3>2. QED
      BY <3>1 DEF PlaceInv, Named
  <2>2. QED
    BY <1>2, <2>1, PlaceSelf DEF PlaceInv
<1>3. ASSUME NEW i \in Instance, Restart(i) PROVE PlaceInv'
  <2>1. ASSUME NEW t \in Thread PROVE PlaceInv!(t)'
    <3>1. None \notin Content
      BY SpecialValuesAssumption
    <3>2. CASE Home[t] = i
      BY <1>3, <3>1, <3>2 DEF Restart, Reset, NoFields
    <3>3. CASE Home[t] # i
      BY <1>3, <3>3 DEF Restart, Reset, PlaceInv, Named
    <3>4. QED
      BY <3>2, <3>3
  <2>2. QED
    BY <2>1 DEF PlaceInv
<1>4. QED
  BY <1>1, <1>2, <1>3 DEF Next

\* A message dated by its stamp carries that stamp's location: the entry may be
\* overwritten as soon as the mutex is released, and still no place of one stamp
\* is uploaded with the time of another or of the message itself.
THEOREM PlaceBelongsToTime == Spec => []StampedLocation
<1>1. Init => PlaceInv
  BY SpecialValuesAssumption DEF Init, PlaceInv, NoFields
<1>2. PlaceInv => StampedLocation
  BY DEF PlaceInv, StampedLocation
<1>3. QED
  BY <1>1, <1>2, PlaceStep, InductiveInvariant, PTL DEF Spec

=============================================================================
