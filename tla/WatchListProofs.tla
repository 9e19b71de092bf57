-------------------------- MODULE WatchListProofs --------------------------
(***************************************************************************)
(* Proofs about WatchList: that the lists keep their order of things, and  *)
(* warn of a silence once and rightly, however many sweeps and goroutines  *)
(* are at work on them, as long as no two of them write the same entry at  *)
(* one moment, and none reads or writes a list that another sorts.         *)
(***************************************************************************)
EXTENDS WatchList, FiniteSetTheorems, TLAPS

\* What has been in contact, and is watched.
Known == {k \in kind.key : contact[k] # Never}

Tracking(p) == pc[p] \in {"look", "update", "seen", "append"}

TypeInv ==
    /\ TypeOK
    /\ \A i \in DOMAIN list : list[i].key \in Known
    /\ \A p \in Process :
          /\ todo[p] \subseteq Known
          /\ Tracking(p) => key[p] \in Known
          /\ pc[p] \in {"update", "seen", "warn"} => idx[p] \in DOMAIN list
          /\ pc[p] \in {"look", "sweep"} => idx[p] # 0

\* What a process knows about the entry that it tracks.
Knows(p) ==
    /\ Tracking(p) => when[p] >= contact[key[p]]
    /\ pc[p] = "look" =>
          \A i \in 1 .. idx[p] - 1 : i \in DOMAIN list /\ list[i].key # key[p]
    /\ pc[p] \in {"update", "seen"} => list[idx[p]].key = key[p]
    /\ pc[p] = "append" => Hits(key[p]) = {}

Unique == \A i, j \in DOMAIN list : list[i].key = list[j].key => i = j
NotTooRecent == \A i \in DOMAIN list : list[i].seen >= contact[list[i].key]

TrackInv ==
    ~clashed => Unique /\ NotTooRecent /\ \A p \in Process : Knows(p)

\* While one sorts, no other has found a place in the list, or is looking for one.
SortInv ==
    ~clashed =>
        \A p \in Process : pc[p] = "sort" =>
            \A q \in Process \ {p} : /\ pc[q] \notin {"update", "seen", "warn", "sort"}
                                     /\ pc[q] = "look" => idx[q] = 1

\* The entry of k is up to date.
UpToDate(k) == \E i \in Hits(k) : list[i].seen <= contact[k]

\* What a sweep knows: what it has been through was up to date then, and is now unless
\* there was a contact since; and it warns of an entry that has expired.
Sweeps(p) ==
    /\ pc[p] \in {"sweep", "warn"} => todo[p] = {}
    /\ pc[p] = "warn" => Expired(list[idx[p]])
    /\ Tracking(p) => key[p] \in contacted[p] \/ when[p] = contact[key[p]]
    /\ pc[p] # "idle" =>
          \A k \in Known \ (todo[p] \cup contacted[p]) :
              UpToDate(k) \/ (Tracking(p) /\ k = key[p])

\* A silence that has been warned of lasts, and its entry cannot expire again.
Silence(k) ==
    warnings[k] # 0 =>
        /\ warnings[k] = 1
        /\ contact[k] > kind.limit
        /\ \A i \in Hits(k) : list[i].notifiedAsUnseen \/ ~list[i].everRecentlySeen

WarnInv ==
    ~clashed /\ kind.fileBacked =>
        /\ \A p \in kind.sweeper : Sweeps(p)
        /\ \A k \in Key : Silence(k)

-----------------------------------------------------------------------------
(* Lists.                                                                   *)
\* What is known of the parameters of a list.
LEMMA KindFacts ==
    ASSUME kind \in List
    PROVE  /\ kind.fileBacked \in BOOLEAN
           /\ MaxLimit \in Nat /\ kind.limit \in 1 .. MaxLimit
           /\ kind.key \subseteq Key
           /\ kind.sweeper \subseteq Process /\ kind.goroutine \subseteq Process
           /\ kind.sweeper \cap kind.goroutine = {}
  BY WatchListAssumption

\* Writing an entry.
LEMMA WriteEntry ==
    ASSUME NEW s \in Seq(Entry), NEW i \in DOMAIN s, NEW e \in Entry
    PROVE  /\ [s EXCEPT ![i] = e] \in Seq(Entry)
           /\ DOMAIN [s EXCEPT ![i] = e] = DOMAIN s
           /\ [s EXCEPT ![i] = e][i] = e
           /\ \A j \in DOMAIN s \ {i} : [s EXCEPT ![i] = e][j] = s[j]
  OBVIOUS

\* Changing or moving every entry.
LEMMA MapEntries ==
    ASSUME NEW s \in Seq(Entry), NEW f \in [DOMAIN s -> Entry]
    PROVE  f \in Seq(Entry) /\ DOMAIN f = DOMAIN s
<1>1. DOMAIN s = 1 .. Len(s) /\ Len(s) \in Nat
  OBVIOUS
<1>2. QED
  BY <1>1

\* Adding an entry.
LEMMA AddEntry ==
    ASSUME NEW s \in Seq(Entry), NEW e \in Entry
    PROVE  /\ Append(s, e) \in Seq(Entry)
           /\ DOMAIN Append(s, e) = DOMAIN s \cup {Len(s) + 1}
           /\ Len(s) + 1 \notin DOMAIN s
           /\ Append(s, e)[Len(s) + 1] = e
           /\ \A j \in DOMAIN s : Append(s, e)[j] = s[j]
  OBVIOUS

\* A tick keeps the order of ages, and those beyond a limit there.
LEMMA OlderFacts ==
    /\ \A a \in Age : Older(a) \in Age
    /\ \A a \in Age \cup {Never} : /\ Older(a) \in Age \cup {Never}
                                   /\ Older(a) = Never <=> a = Never
    /\ \A a \in Age, b \in Age \cup {Never} : a >= b => Older(a) >= Older(b)
    /\ \A a \in Age, n \in 0 .. MaxLimit : a > n => Older(a) > n
  BY WatchListAssumption DEF Age, Never, Older

\* An exchange is a permutation of the entries.
LEMMA SwapEffect ==
    ASSUME list \in Seq(Entry), NEW p, Swap(p)
    PROVE  \E f \in [DOMAIN list -> DOMAIN list] :
              /\ \A i, j \in DOMAIN list : f[i] = f[j] => i = j
              /\ \A j \in DOMAIN list : \E i \in DOMAIN list : f[i] = j
              /\ list' = [i \in DOMAIN list |-> list[f[i]]]
              /\ list' \in Seq(Entry) /\ DOMAIN list' = DOMAIN list
<1>1. PICK i, j \in DOMAIN list :
              i < j /\ list' = [list EXCEPT ![i] = list[j], ![j] = list[i]]
  BY DEF Swap
<1>2. DOMAIN list \subseteq Nat /\ i # j
  BY <1>1
<1> DEFINE D == DOMAIN list
           f == [d \in D |-> IF d = i THEN j ELSE IF d = j THEN i ELSE d]
<1>3. f \in [D -> D]
  OBVIOUS
<1>4. /\ \A c, d \in D : f[c] = f[d] => c = d
      /\ \A d \in D : f[f[d]] = d
  BY <1>2
<1>5. list' = [d \in D |-> list[f[d]]]
  BY <1>1, <1>2
<1>6. list' \in [D -> Entry]
  <2>1. \A d \in D : list[d] \in Entry
    OBVIOUS
  <2>2. \A d \in D : f[d] \in D
    BY <1>3
  <2> HIDE DEF f
  <2>3. QED
    BY <1>5, <2>1, <2>2
<1>7. list' \in Seq(Entry) /\ DOMAIN list' = D
  BY <1>6, MapEntries
<1>8. \A d \in D : \E c \in D : f[c] = d
  BY <1>3, <1>4
<1> HIDE DEF f
<1>9. QED
  BY <1>3, <1>4, <1>5, <1>7, <1>8

\* A step of Update leaves the keys and times, and clears the marks of a silence
\* only if the time is recent.
LEMMA UpdateEffect ==
    ASSUME TypeInv, NEW p \in Process, Update(p)
    PROVE  /\ idx[p] \in DOMAIN list /\ list' \in Seq(Entry) /\ DOMAIN list' = DOMAIN list
           /\ \A i \in DOMAIN list :
                 /\ list'[i].key = list[i].key /\ list'[i].seen = list[i].seen
                 /\ list'[i] = list[i] \/ (i = idx[p] /\ when[p] < kind.limit)
<1>1. list \in Seq(Entry) /\ idx[p] \in DOMAIN list
  BY DEF TypeInv, TypeOK, Update
<1>2. CASE when[p] < kind.limit
  <2> DEFINE e == [list[idx[p]] EXCEPT !.everRecentlySeen = TRUE, !.notifiedAsUnseen = FALSE]
  <2>1. list' = [list EXCEPT ![idx[p]] = e]
    BY <1>2 DEF Update
  <2>2. list[idx[p]] \in Entry
    BY <1>1
  <2>3. e \in Entry /\ e.key = list[idx[p]].key /\ e.seen = list[idx[p]].seen
    BY <2>2 DEF Entry
  <2> HIDE DEF e
  <2>4. QED
    BY <1>1, <1>2, <2>1, <2>3, WriteEntry
<1>3. CASE ~(when[p] < kind.limit)
  BY <1>1, <1>3 DEF Update
<1>4. QED
  BY <1>2, <1>3

\* A step of Seen may make the entry more recent, and nothing else.
LEMMA SeenEffect ==
    ASSUME TypeInv, NEW p \in Process, Seen(p)
    PROVE  /\ idx[p] \in DOMAIN list /\ list' \in Seq(Entry) /\ DOMAIN list' = DOMAIN list
           /\ \A i \in DOMAIN list :
                 /\ list'[i].key = list[i].key
                 /\ list'[i].everRecentlySeen = list[i].everRecentlySeen
                 /\ list'[i].notifiedAsUnseen = list[i].notifiedAsUnseen
                 /\ i # idx[p] => list'[i] = list[i]
           /\ LET old == list[idx[p]].seen
              IN list'[idx[p]].seen = IF when[p] < old THEN when[p] ELSE old
<1> DEFINE n == IF when[p] < list[idx[p]].seen THEN when[p] ELSE list[idx[p]].seen
           e == [list[idx[p]] EXCEPT !.seen = n]
<1>1. list \in Seq(Entry) /\ idx[p] \in DOMAIN list /\ when[p] \in Age
  BY DEF TypeInv, TypeOK, Seen
<1>2. list' = [list EXCEPT ![idx[p]] = e]
  BY DEF Seen
<1>3. list[idx[p]] \in Entry
  BY <1>1
<1>4. n \in Age
  BY <1>1, <1>3 DEF Entry
<1>5. /\ e \in Entry /\ e.key = list[idx[p]].key /\ e.seen = n
      /\ e.everRecentlySeen = list[idx[p]].everRecentlySeen
      /\ e.notifiedAsUnseen = list[idx[p]].notifiedAsUnseen
  BY <1>3, <1>4 DEF Entry
<1>6. /\ list' \in Seq(Entry) /\ DOMAIN list' = DOMAIN list
      /\ list'[idx[p]] = e
      /\ \A i \in DOMAIN list \ {idx[p]} : list'[i] = list[i]
  <2> HIDE DEF e
  <2>1. QED
    BY <1>1, <1>2, <1>5, WriteEntry
<1> HIDE DEF e
<1>7. \A i \in DOMAIN list :
         /\ list'[i].key = list[i].key
         /\ list'[i].everRecentlySeen = list[i].everRecentlySeen
         /\ list'[i].notifiedAsUnseen = list[i].notifiedAsUnseen
         /\ i # idx[p] => list'[i] = list[i]
  BY <1>5, <1>6
<1>8. QED
  BY <1>1, <1>5, <1>6, <1>7

\* A step of Add adds the entry of the key.
LEMMA AddEffect ==
    ASSUME TypeInv, NEW p \in Process, Add(p)
    PROVE  LET n == Len(list) + 1
           IN /\ list' \in Seq(Entry)
              /\ DOMAIN list' = DOMAIN list \cup {n} /\ n \notin DOMAIN list
              /\ \A i \in DOMAIN list : list'[i] = list[i]
              /\ list'[n].key = key[p] /\ list'[n].seen = when[p]
              /\ list'[n].everRecentlySeen => when[p] < kind.limit
<1> DEFINE e == [key |-> key[p], seen |-> when[p],
                 everRecentlySeen |-> when[p] < kind.limit, notifiedAsUnseen |-> FALSE]
<1>1. /\ list \in Seq(Entry) /\ key[p] \in Key /\ when[p] \in Age
      /\ list' = Append(list, e)
  BY DEF TypeInv, TypeOK, Add
<1>2. e \in Entry /\ e.key = key[p] /\ e.seen = when[p]
  <2>1. (when[p] < kind.limit) \in BOOLEAN
    OBVIOUS
  <2>2. QED
    BY <1>1, <2>1 DEF Entry
<1>3. e.everRecentlySeen => when[p] < kind.limit
  OBVIOUS
<1> HIDE DEF e
<1>4. QED
  BY <1>1, <1>2, <1>3, AddEntry

\* A step of Warn marks the entry.
LEMMA WarnEffect ==
    ASSUME TypeInv, NEW p \in Process, Warn(p)
    PROVE  /\ idx[p] \in DOMAIN list /\ list' \in Seq(Entry) /\ DOMAIN list' = DOMAIN list
           /\ \A i \in DOMAIN list :
                 /\ list'[i].key = list[i].key /\ list'[i].seen = list[i].seen
                 /\ i # idx[p] => list'[i] = list[i]
           /\ list'[idx[p]].notifiedAsUnseen
<1> DEFINE e == [list[idx[p]] EXCEPT !.notifiedAsUnseen = TRUE]
<1>1. list \in Seq(Entry) /\ idx[p] \in DOMAIN list /\ list' = [list EXCEPT ![idx[p]] = e]
  BY DEF TypeInv, TypeOK, Warn
<1>2. list[idx[p]] \in Entry
  BY <1>1
<1>3. /\ e \in Entry /\ e.key = list[idx[p]].key /\ e.seen = list[idx[p]].seen
      /\ e.notifiedAsUnseen
  BY <1>2 DEF Entry
<1> HIDE DEF e
<1>4. QED
  BY <1>1, <1>3, WriteEntry

\* A tick ages every entry and every contact.
LEMMA TickEffect ==
    ASSUME TypeInv, Tick
    PROVE  /\ list' \in Seq(Entry) /\ DOMAIN list' = DOMAIN list
           /\ \A i \in DOMAIN list :
                 /\ list'[i].key = list[i].key /\ list'[i].seen = Older(list[i].seen)
                 /\ list'[i].everRecentlySeen = list[i].everRecentlySeen
                 /\ list'[i].notifiedAsUnseen = list[i].notifiedAsUnseen
           /\ contact' \in [Key -> Age \cup {Never}]
           /\ \A k \in Key : contact'[k] = Older(contact[k])
<1>1. list \in Seq(Entry) /\ contact \in [Key -> Age \cup {Never}]
  BY DEF TypeInv, TypeOK
<1>2. \A i \in DOMAIN list : list[i] \in Entry
  BY <1>1
<1>3. list' = [i \in DOMAIN list |-> [list[i] EXCEPT !.seen = Older(@)]]
  BY DEF Tick
<1>4. \A i \in DOMAIN list : [list[i] EXCEPT !.seen = Older(@)] \in Entry
  BY <1>2, OlderFacts DEF Entry
<1>5. list' \in Seq(Entry) /\ DOMAIN list' = DOMAIN list
  BY <1>1, <1>3, <1>4, MapEntries
<1>6. \A i \in DOMAIN list :
         /\ list'[i].key = list[i].key /\ list'[i].seen = Older(list[i].seen)
         /\ list'[i].everRecentlySeen = list[i].everRecentlySeen
         /\ list'[i].notifiedAsUnseen = list[i].notifiedAsUnseen
  BY <1>2, <1>3 DEF Entry
<1>7. contact' \in [Key -> Age \cup {Never}] /\ \A k \in Key : contact'[k] = Older(contact[k])
  BY <1>1, OlderFacts DEF Tick
<1>8. QED
  BY <1>5, <1>6, <1>7

-----------------------------------------------------------------------------
(* Types.                                                                   *)
\* A step that leaves contacts and the list alone keeps what is known of them.
LEMMA SameKnown ==
    ASSUME TypeInv, UNCHANGED <<kind, contact, list>>
    PROVE  Known' = Known /\ \A i \in DOMAIN list' : list'[i].key \in Known'
  BY DEF TypeInv, Known

\* A contact makes known what it is with, and nothing unknown.
LEMMA HeardEffect ==
    ASSUME TypeInv, NEW k \in kind.key, Heard(k), UNCHANGED kind
    PROVE  /\ contact' \in [Key -> Age \cup {Never}]
           /\ contact'[k] = 0
           /\ \A h \in Key \ {k} : contact'[h] = contact[h]
           /\ Known' = Known \cup {k}
<1>1. k \in Key /\ contact \in [Key -> Age \cup {Never}] /\ kind.key \subseteq Key
  BY KindFacts DEF TypeInv, TypeOK
<1>2. contact' = [contact EXCEPT ![k] = 0]
  BY DEF Heard
<1>3. 0 \in Age /\ 0 # Never
  BY WatchListAssumption DEF Age, Never
<1>4. QED
  BY <1>1, <1>2, <1>3 DEF Known

\* The types of the history after a contact.
LEMMA HeardTypes ==
    ASSUME TypeInv, NEW k \in kind.key, Heard(k)
    PROVE  /\ warnings' \in [Key -> 0 .. 2] /\ warnings'[k] = 0
           /\ \A h \in Key \ {k} : warnings'[h] = warnings[h]
           /\ contacted' \in [Process -> SUBSET Key]
           /\ forgotten' \subseteq Key
  BY KindFacts DEF TypeInv, TypeOK, Heard

\* What is known stays known, and the list keeps to it.
LEMMA TypeInvStep == TypeInv /\ [Next]_vars => TypeInv'
<1> SUFFICES ASSUME TypeInv, [Next]_vars PROVE TypeInv'
  OBVIOUS
<1>0. /\ kind.fileBacked \in BOOLEAN /\ MaxLimit \in Nat /\ kind.limit \in 1 .. MaxLimit
      /\ kind.key \subseteq Key /\ kind.sweeper \subseteq Process
      /\ kind.goroutine \subseteq Process /\ kind.sweeper \cap kind.goroutine = {}
  BY KindFacts DEF TypeInv, TypeOK
<1> DEFINE PerProcess ==
      \A p \in Process :
          /\ todo[p] \subseteq Known
          /\ Tracking(p) => key[p] \in Known
          /\ pc[p] \in {"update", "seen", "warn"} => idx[p] \in DOMAIN list
          /\ pc[p] \in {"look", "sweep"} => idx[p] # 0
<1>a. TypeOK /\ PerProcess /\ \A i \in DOMAIN list : list[i].key \in Known
  BY DEF TypeInv
<1>b. ASSUME TypeOK', PerProcess', \A i \in DOMAIN list' : list'[i].key \in Known'
      PROVE  TypeInv'
  BY <1>b DEF TypeInv
<1>c. AnyKey \in Key /\ 0 \in Age
  BY WatchListAssumption DEF AnyKey, Age
<1>1. CASE UNCHANGED vars
  BY <1>a, <1>b, <1>1 DEF vars, history, TypeOK, Known, Tracking
<1>2. CASE Tick
  <2>1. /\ list' \in Seq(Entry) /\ DOMAIN list' = DOMAIN list
        /\ contact' \in [Key -> Age \cup {Never}]
        /\ \A i \in DOMAIN list : list'[i].key = list[i].key
        /\ \A k \in Key : contact'[k] = Older(contact[k])
    BY <1>2, TickEffect
  <2>2. TypeOK'
    BY <1>a, <1>2, <2>1 DEF Tick, TypeOK, history
  <2>3. Known' = Known
    <3>1. \A k \in Key : contact'[k] # Never <=> contact[k] # Never
      <4>1. \A a \in Age \cup {Never} : Older(a) = Never <=> a = Never
        BY OlderFacts
      <4>2. \A k \in Key : contact[k] \in Age \cup {Never}
        BY <1>a DEF TypeOK
      <4>3. ASSUME NEW k \in Key PROVE contact'[k] = Never <=> contact[k] = Never
        <5>1. contact'[k] = Older(contact[k])
          BY <2>1
        <5>2. QED
          BY <4>1, <4>2, <5>1
      <4>4. QED
        BY <4>3
    <3>2. QED
      BY <1>0, <1>2, <3>1 DEF Known, Tick
  <2>4. PerProcess'
    BY <1>a, <1>2, <2>1, <2>3 DEF Tick, Tracking
  <2>5. QED
    BY <1>a, <1>b, <2>1, <2>2, <2>3, <2>4
<1>3. CASE Restart
  <2>1. TypeOK'
    BY <1>a, <1>c, <1>3 DEF Restart, TypeOK
  <2>2. PerProcess'
    BY <1>3 DEF Restart, Tracking
  <2>3. \A i \in DOMAIN list' : list'[i].key \in Known'
    BY <1>3 DEF Restart
  <2>4. QED
    BY <1>b, <2>1, <2>2, <2>3
<1>4. ASSUME NEW k \in kind.key, Contact(k) PROVE TypeInv'
  <2>1. Heard(k) /\ UNCHANGED <<kind, clashed, list, pc, todo, key, when, idx, swept, told>>
    BY <1>4 DEF Contact
  <2>2. contact' \in [Key -> Age \cup {Never}] /\ Known' = Known \cup {k}
    BY <2>1, HeardEffect
  <2>3. /\ warnings' \in [Key -> 0 .. 2] /\ contacted' \in [Process -> SUBSET Key]
        /\ forgotten' \subseteq Key
    BY <2>1, HeardTypes
  <2>4. TypeOK'
    BY <1>a, <2>1, <2>2, <2>3 DEF TypeOK
  <2>5. PerProcess' /\ \A i \in DOMAIN list' : list'[i].key \in Known'
    BY <1>a, <2>1, <2>2 DEF Tracking
  <2>6. QED
    BY <1>b, <2>4, <2>5
<1>5. ASSUME NEW p \in Process, NEW k \in kind.key, Receive(p, k) PROVE TypeInv'
  <2>1. /\ Heard(k) /\ UNCHANGED <<kind, clashed, list, key, when, idx, swept, told>>
        /\ pc' = [pc EXCEPT ![p] = "search"] /\ todo' = [todo EXCEPT ![p] = {k}]
    BY <1>5 DEF Receive, Goto
  <2>2. contact' \in [Key -> Age \cup {Never}] /\ Known' = Known \cup {k}
    BY <2>1, HeardEffect
  <2>3. /\ warnings' \in [Key -> 0 .. 2] /\ contacted' \in [Process -> SUBSET Key]
        /\ forgotten' \subseteq Key
    BY <2>1, HeardTypes
  <2>4. TypeOK'
    BY <1>0, <1>a, <2>1, <2>2, <2>3 DEF TypeOK
  <2>5. PerProcess' /\ \A i \in DOMAIN list' : list'[i].key \in Known'
    BY <1>a, <2>1, <2>2 DEF Tracking, TypeOK
  <2>6. QED
    BY <1>b, <2>4, <2>5
<1>6. ASSUME NEW p \in Process, Start(p) PROVE TypeInv'
  <2>1. Known' = Known /\ \A i \in DOMAIN list' : list'[i].key \in Known'
    BY <1>6, SameKnown DEF Start
  <2>2. todo' = [todo EXCEPT ![p] = {k \in kind.key : kind.fileBacked /\ contact[k] # Never}]
        /\ {k \in kind.key : kind.fileBacked /\ contact[k] # Never} \subseteq Known
    BY <1>6 DEF Start, Known
  <2>3. TypeOK'
    BY <1>0, <1>a, <1>6 DEF Start, TypeOK, Goto, history
  <2>4. PerProcess'
    BY <1>a, <1>6, <2>1, <2>2 DEF Start, Tracking, Goto, TypeOK
  <2>5. QED
    BY <1>b, <2>1, <2>3, <2>4
<1>7. ASSUME NEW p \in Process, Search(p) PROVE TypeInv'
  <2>1. Known' = Known /\ \A i \in DOMAIN list' : list'[i].key \in Known'
    BY <1>7, SameKnown DEF Search
  <2>2. PICK k \in todo[p] :
          /\ todo' = [todo EXCEPT ![p] = @ \ {k}]
          /\ key' = [key EXCEPT ![p] = k]
          /\ when' = [when EXCEPT ![p] = contact[k]]
    BY <1>7 DEF Search
  <2>3. k \in Known /\ k \in Key /\ contact[k] \in Age
    BY <1>0, <1>a, <2>2 DEF Known, TypeOK
  <2>4. /\ UNCHANGED <<kind, clashed, contact, list, swept, history>>
        /\ idx' = [idx EXCEPT ![p] = 1] /\ pc' = [pc EXCEPT ![p] = "look"]
    BY <1>7 DEF Search, Goto
  <2>5. TypeOK'
    BY <1>a, <2>2, <2>3, <2>4 DEF TypeOK, history
  <2>6. PerProcess'
    BY <1>a, <2>1, <2>2, <2>3, <2>4 DEF Tracking, TypeOK
  <2>7. QED
    BY <1>b, <2>1, <2>5, <2>6
<1>16. ASSUME NEW p \in Process, Look(p) PROVE TypeInv'
  <2>1. /\ pc[p] = "look" /\ clashed' \in BOOLEAN
        /\ UNCHANGED <<kind, contact, list, todo, key, when, swept, history>>
    BY <1>a, <1>16 DEF Look, Reads, TypeOK
  <2>2. Known' = Known /\ \A i \in DOMAIN list' : list'[i].key \in Known'
    BY <2>1, SameKnown
  <2>3. \/ /\ pc' \in {[pc EXCEPT ![p] = "append"], [pc EXCEPT ![p] = "update"]}
           /\ idx' = idx
           /\ pc'[p] = "update" => idx[p] <= Len(list)
        \/ pc' = pc /\ idx' = [idx EXCEPT ![p] = @ + 1]
    BY <1>a, <1>16 DEF Look, Goto, TypeOK
  <2>4. TypeOK'
    <3>1. /\ pc' \in [Process -> {"idle", "search", "look", "update", "seen", "append",
                               "sweep", "warn", "sort"}]
          /\ idx' \in [Process -> Nat]
      <4>1. CASE pc' = pc /\ idx' = [idx EXCEPT ![p] = @ + 1]
        <5>1. idx[p] + 1 \in Nat
          BY <1>a DEF TypeOK
        <5>2. QED
          BY <1>a, <4>1, <5>1 DEF TypeOK
      <4>2. CASE /\ pc' \in {[pc EXCEPT ![p] = "append"], [pc EXCEPT ![p] = "update"]}
                 /\ idx' = idx
        BY <1>a, <4>2 DEF TypeOK
      <4>3. QED
        BY <2>3, <4>1, <4>2
    <3>2. QED
      BY <1>a, <2>1, <3>1 DEF TypeOK, history
  <2>5. pc'[p] = "update" => idx'[p] \in DOMAIN list
    BY <1>a, <2>1, <2>3 DEF TypeOK
  <2>6. PerProcess'
    BY <1>a, <2>1, <2>2, <2>3, <2>5 DEF Tracking, TypeOK
  <2>7. QED
    BY <1>b, <2>2, <2>4, <2>6
<1>17. ASSUME NEW p \in Process, LoseAppend(p) PROVE TypeInv'
  <2>1. Known' = Known /\ \A i \in DOMAIN list' : list'[i].key \in Known'
    BY <1>17, SameKnown DEF LoseAppend
  <2>2. TypeOK'
    BY <1>a, <1>c, <1>17 DEF LoseAppend, TypeOK, Goto, Leave, history
  <2>3. PerProcess'
    BY <1>a, <1>17, <2>1 DEF LoseAppend, Tracking, Goto, Leave, TypeOK
  <2>4. QED
    BY <1>b, <2>1, <2>2, <2>3
<1>w. ASSUME NEW p \in Process, NEW k, Writes(p, k) PROVE clashed' \in BOOLEAN
  BY <1>w DEF Writes
<1>8. ASSUME NEW p \in Process, Update(p) PROVE TypeInv'
  <2>1. /\ idx[p] \in DOMAIN list /\ list' \in Seq(Entry) /\ DOMAIN list' = DOMAIN list
        /\ \A i \in DOMAIN list : list'[i].key = list[i].key
    BY <1>8, UpdateEffect
  <2>2. Known' = Known
    BY <1>8 DEF Update, Known
  <2>3. told' \subseteq told /\ clashed' \in BOOLEAN
    BY <1>8, <1>w DEF Update
  <2>4. TypeOK'
    BY <1>a, <1>8, <2>1, <2>3 DEF Update, TypeOK, Goto
  <2>5. PerProcess'
    BY <1>a, <1>8, <2>1, <2>2 DEF Update, Tracking, Goto, TypeOK
  <2>6. QED
    BY <1>a, <1>b, <2>1, <2>2, <2>4, <2>5
<1>9. ASSUME NEW p \in Process, Seen(p) PROVE TypeInv'
  <2>1. /\ idx[p] \in DOMAIN list /\ list' \in Seq(Entry) /\ DOMAIN list' = DOMAIN list
        /\ \A i \in DOMAIN list : list'[i].key = list[i].key
    BY <1>9, SeenEffect
  <2>2. Known' = Known
    BY <1>9 DEF Seen, Known
  <2>3. clashed' \in BOOLEAN
    BY <1>9, <1>w DEF Seen
  <2>4. TypeOK'
    BY <1>a, <1>c, <1>9, <2>1, <2>3 DEF Seen, TypeOK, Goto, Leave, history
  <2>5. PerProcess'
    BY <1>a, <1>9, <2>1, <2>2 DEF Seen, Tracking, Goto, Leave, TypeOK
  <2>6. QED
    BY <1>a, <1>b, <2>1, <2>2, <2>4, <2>5
<1>10. ASSUME NEW p \in Process, Add(p) PROVE TypeInv'
  <2> DEFINE n == Len(list) + 1
  <2>1. /\ list' \in Seq(Entry)
        /\ DOMAIN list' = DOMAIN list \cup {n}
        /\ \A i \in DOMAIN list : list'[i] = list[i]
        /\ list'[n].key = key[p]
    BY <1>10, AddEffect
  <2> HIDE DEF n
  <2>2. Known' = Known /\ key[p] \in Known
    BY <1>a, <1>10 DEF Add, Known, Tracking
  <2>3. clashed' \in BOOLEAN
    BY <1>10, <1>w DEF Add
  <2>4. TypeOK'
    BY <1>a, <1>c, <1>10, <2>1, <2>3 DEF Add, TypeOK, Goto, Leave, history
  <2>5. PerProcess'
    BY <1>a, <1>10, <2>1, <2>2 DEF Add, Tracking, Goto, Leave, TypeOK
  <2>6. QED
    BY <1>a, <1>b, <2>1, <2>2, <2>4, <2>5
<1>11. ASSUME NEW p \in Process, Tracked(p) PROVE TypeInv'
  <2>1. Known' = Known /\ \A i \in DOMAIN list' : list'[i].key \in Known'
    BY <1>11, SameKnown DEF Tracked
  <2>2. TypeOK'
    <3>1. /\ pc' \in [Process -> {"idle", "search", "look", "update", "seen", "append",
                               "sweep", "warn", "sort"}]
          /\ idx' \in [Process -> Nat]
      <4>1. CASE p \in kind.goroutine
        BY <1>a, <1>11, <4>1 DEF Tracked, TypeOK, Goto
      <4>2. CASE p \notin kind.goroutine
        <5>1. pc' = [pc EXCEPT ![p] = "sweep"] /\ idx' = [idx EXCEPT ![p] = 1]
          BY <1>11, <4>2 DEF Tracked, Goto
        <5>2. QED
          BY <1>a, <5>1 DEF TypeOK
      <4>3. QED
        BY <4>1, <4>2
    <3>2. QED
      BY <1>a, <1>11, <3>1 DEF Tracked, TypeOK, history
  <2>3. PerProcess'
    BY <1>a, <1>11, <2>1 DEF Tracked, Tracking, Goto, TypeOK
  <2>4. QED
    BY <1>b, <2>1, <2>2, <2>3
<1>12. ASSUME NEW p \in Process, Check(p) PROVE TypeInv'
  <2>1. Known' = Known /\ \A i \in DOMAIN list' : list'[i].key \in Known'
    BY <1>12, SameKnown DEF Check
  <2>2. TypeOK'
    <3>1. /\ pc' \in [Process -> {"idle", "search", "look", "update", "seen", "append",
                               "sweep", "warn", "sort"}]
          /\ idx' \in [Process -> Nat]
      <4>1. CASE Expired(list[idx[p]])
        BY <1>a, <1>12, <4>1 DEF Check, TypeOK, Goto
      <4>2. CASE ~Expired(list[idx[p]])
        <5>1. pc' = pc /\ idx' = [idx EXCEPT ![p] = @ + 1]
          BY <1>12, <4>2 DEF Check
        <5>2. idx[p] + 1 \in Nat
          BY <1>a DEF TypeOK
        <5>3. QED
          BY <1>a, <5>1, <5>2 DEF TypeOK
      <4>3. QED
        BY <4>1, <4>2
    <3>2. clashed' \in BOOLEAN
      BY <1>a, <1>12 DEF Check, Reads, TypeOK
    <3>3. QED
      BY <1>a, <1>12, <3>1, <3>2 DEF Check, TypeOK, history
  <2>3. idx[p] \in DOMAIN list
    BY <1>a, <1>12 DEF Check, TypeOK
  <2>4. PerProcess'
    BY <1>a, <1>12, <2>1, <2>3 DEF Check, Tracking, Goto, TypeOK
  <2>5. QED
    BY <1>b, <2>1, <2>2, <2>4
<1>13. ASSUME NEW p \in Process, Warn(p) PROVE TypeInv'
  <2>1. /\ idx[p] \in DOMAIN list /\ list' \in Seq(Entry) /\ DOMAIN list' = DOMAIN list
        /\ \A i \in DOMAIN list : list'[i].key = list[i].key
    BY <1>13, WarnEffect
  <2>2. Known' = Known /\ list[idx[p]].key \in Key
    BY <1>0, <1>a, <1>13, <2>1 DEF Warn, Known
  <2>3. clashed' \in BOOLEAN
    BY <1>13, <1>w DEF Warn
  <2>4. warnings' \in [Key -> 0 .. 2] /\ told' \subseteq Key
    <3> DEFINE k == list[idx[p]].key
    <3>1. SendWarning(p, k) /\ k \in Key
      BY <1>13, <2>2 DEF Warn
    <3> HIDE DEF k
    <3>2. CASE ~kind.fileBacked
      BY <1>a, <3>1, <3>2 DEF SendWarning, TypeOK
    <3>3. CASE kind.fileBacked
      <4>1. warnings[k] \in 0 .. 2
        BY <1>a, <3>1 DEF TypeOK
      <4>2. /\ warnings' \in {warnings, [warnings EXCEPT ![k] = warnings[k] + 1]}
            /\ warnings[k] = 2 => warnings' = [warnings EXCEPT ![k] = warnings[k]]
            /\ told' = told \cup {k}
        BY <1>a, <3>1, <3>3 DEF SendWarning, TypeOK
      <4>3. CASE warnings[k] = 2
        BY <1>a, <3>1, <4>2, <4>3 DEF TypeOK
      <4>4. CASE warnings[k] # 2
        <5>1. warnings[k] + 1 \in 0 .. 2
          BY <4>1, <4>4
        <5>2. [warnings EXCEPT ![k] = warnings[k] + 1] \in [Key -> 0 .. 2]
          BY <1>a, <5>1 DEF TypeOK
        <5>3. warnings' \in [Key -> 0 .. 2]
          BY <1>a, <4>2, <5>2 DEF TypeOK
        <5>4. QED
          BY <1>a, <3>1, <4>2, <5>3 DEF TypeOK
      <4>5. QED
        BY <4>3, <4>4
    <3>4. QED
      BY <3>2, <3>3
  <2>5. TypeOK'
    BY <1>a, <1>13, <2>1, <2>3, <2>4 DEF Warn, TypeOK, Goto
  <2>6. PerProcess'
    BY <1>a, <1>13, <2>1, <2>2 DEF Warn, Tracking, Goto, TypeOK
  <2>7. QED
    BY <1>a, <1>b, <2>1, <2>2, <2>5, <2>6
<1>14. ASSUME NEW p \in Process, Finish(p) \/ StartSort(p) \/ EndSort(p) PROVE TypeInv'
  <2>1. Known' = Known /\ \A i \in DOMAIN list' : list'[i].key \in Known'
    BY <1>14, SameKnown DEF Finish, StartSort, EndSort
  <2>2. /\ pc' \in {[pc EXCEPT ![p] = "idle"], [pc EXCEPT ![p] = "sort"]}
        /\ todo' = todo
        /\ \/ Leave(p)
           \/ UNCHANGED <<key, when, idx>>
    BY <1>14 DEF Finish, StartSort, EndSort, Goto
  <2>3. /\ clashed' \in BOOLEAN /\ swept' \in BOOLEAN
        /\ contacted' \in [Process -> SUBSET Key]
        /\ UNCHANGED <<kind, contact, list, warnings, told, forgotten>>
    BY <1>a, <1>14 DEF Finish, StartSort, EndSort, Moves, history, TypeOK
  <2>4. TypeOK'
    <3>1. key' \in [Process -> Key] /\ when' \in [Process -> Age] /\ idx' \in [Process -> Nat]
      <4>1. CASE Leave(p)
        BY <1>a, <1>c, <4>1 DEF TypeOK, Leave
      <4>2. CASE UNCHANGED <<key, when, idx>>
        BY <1>a, <4>2 DEF TypeOK
      <4>3. QED
        BY <2>2, <4>1, <4>2
    <3>2. pc' \in [Process -> {"idle", "search", "look", "update", "seen", "append",
                               "sweep", "warn", "sort"}]
      BY <1>a, <2>2 DEF TypeOK
    <3>3. QED
      BY <1>a, <2>2, <2>3, <3>1, <3>2 DEF TypeOK
  <2>5. PerProcess'
    BY <1>a, <2>1, <2>2, <2>3 DEF Tracking, Leave, TypeOK
  <2>6. QED
    BY <1>b, <2>1, <2>4, <2>5
<1>18. ASSUME NEW p \in Process, Swap(p) PROVE TypeInv'
  <2>1. PICK f \in [DOMAIN list -> DOMAIN list] :
            /\ list' = [i \in DOMAIN list |-> list[f[i]]]
            /\ list' \in Seq(Entry) /\ DOMAIN list' = DOMAIN list
    BY <1>a, <1>18, SwapEffect DEF TypeOK
  <2>2. UNCHANGED <<kind, clashed, contact, pc, todo, key, when, idx, swept, history>>
    BY <1>18 DEF Swap
  <2>3. Known' = Known /\ \A i \in DOMAIN list' : list'[i].key \in Known'
    BY <1>a, <2>1, <2>2 DEF Known
  <2>4. TypeOK'
    BY <1>a, <2>1, <2>2 DEF TypeOK, history
  <2>5. PerProcess'
    BY <1>a, <2>1, <2>2, <2>3 DEF Tracking
  <2>6. QED
    BY <1>b, <2>3, <2>4, <2>5
<1>15. QED
  <2>1. ASSUME NEW p \in Process, Track(p) PROVE TypeInv'
    BY <1>7, <1>8, <1>9, <1>10, <1>11, <1>16, <1>17, <2>1 DEF Track
  <2>2. ASSUME NEW p \in Process, Sweep(p) PROVE TypeInv'
    BY <1>6, <1>12, <1>13, <1>14, <1>18, <2>1, <2>2 DEF Sweep, Sort
  <2>3. QED
    BY <1>0, <1>1, <1>2, <1>3, <1>4, <1>5, <2>1, <2>2 DEF Next

\* The types hold initially.
LEMMA TypeInvInit == Init => TypeInv
<1> SUFFICES ASSUME Init PROVE TypeInv
  OBVIOUS
<1>1. AnyKey \in Key /\ 0 \in Age /\ Never \in Age \cup {Never}
  BY WatchListAssumption DEF AnyKey, Age
<1>2. /\ list \in Seq(Entry) /\ key \in [Process -> Key] /\ when \in [Process -> Age]
      /\ contact \in [Key -> Age \cup {Never}] /\ idx \in [Process -> Nat]
      /\ warnings \in [Key -> 0 .. 2]
  BY <1>1 DEF Init
<1>3. TypeOK
  BY <1>2 DEF Init, TypeOK
<1>4. QED
  BY <1>3 DEF Init, TypeInv, Tracking

\* Every variable keeps its type, for any lists, keys, processes and limits, also
\* after a clash.
THEOREM TypeCorrect == Spec => []TypeOK
<1>1. TypeInv => TypeOK
  BY DEF TypeInv
<1>2. QED
  BY <1>1, TypeInvInit, TypeInvStep, PTL DEF Spec

-----------------------------------------------------------------------------
(* What holds of the list until two processes clash.                        *)
\* A step that meets no other reads and writes a list that nobody else sorts, writes
\* nobody else's entry, and starts to sort only when nobody holds or seeks a place.
LEMMA NoClash ==
    ASSUME TypeInv, NEW p \in Process, ~clashed'
    PROVE  /\ Reads(p) => ~clashed /\ Sorting \ {p} = {}
           /\ \A k : Writes(p, k) =>
                 ~clashed /\ Sorting \ {p} = {} /\ \A q \in Holding \ {p} : About(q) # k
           /\ Moves(p) => ~clashed /\ Placing \ {p} = {}
  BY DEF Reads, Writes, Moves

\* Every step keeps those who sort alone.
LEMMA SortInvStep == TypeInv /\ SortInv /\ [Next]_vars => SortInv'
<1> DEFINE Alone ==
      \A p \in Process : pc[p] = "sort" =>
          \A q \in Process \ {p} : /\ pc[q] \notin {"update", "seen", "warn", "sort"}
                                   /\ pc[q] = "look" => idx[q] = 1
<1> SUFFICES ASSUME TypeInv, SortInv, [Next]_vars, ~clashed' PROVE Alone'
  BY DEF SortInv
<1>0. kind.sweeper \subseteq Process /\ kind.goroutine \subseteq Process
  BY KindFacts DEF TypeInv, TypeOK
<1>a. ASSUME ~clashed PROVE Alone
  BY <1>a DEF SortInv
<1>t. pc \in [Process -> {"idle", "search", "look", "update", "seen", "append", "sweep",
                         "warn", "sort"}] /\ idx \in [Process -> Nat]
  BY DEF TypeInv, TypeOK
<1>1. CASE UNCHANGED vars
  BY <1>a, <1>1 DEF vars
<1>2. CASE Tick \/ Restart
  BY <1>2 DEF Tick, Idle, Restart
<1>3. ASSUME NEW k \in kind.key, Contact(k) PROVE Alone'
  BY <1>a, <1>3 DEF Contact
<1>4. ASSUME NEW p \in Process, ~clashed,
             \A q \in Process \ {p} : pc'[q] = pc[q] /\ idx'[q] = idx[q],
             pc'[p] = "sort" => (pc[p] = "sort" \/ Placing \ {p} = {}),
             \/ Sorting \ {p} = {}
             \/ /\ pc'[p] \notin {"update", "seen", "warn"}
                /\ (pc'[p] = "look" => idx'[p] = 1)
      PROVE  Alone'
  <2>1. ASSUME NEW s \in Process, NEW q \in Process \ {s}, pc'[s] = "sort"
        PROVE  pc'[q] \notin {"update", "seen", "warn", "sort"} /\ (pc'[q] = "look" => idx'[q] = 1)
    <3>1. CASE s = p
      BY <1>a, <1>4, <2>1, <3>1 DEF Placing
    <3>2. CASE s # p /\ q # p
      BY <1>a, <1>4, <2>1, <3>2
    <3>3. CASE s # p /\ q = p
      <4>1. s \in Sorting \ {p} /\ pc[p] # "sort"
        BY <1>a, <1>4, <2>1, <3>3 DEF Sorting
      <4>2. pc'[p] # "sort"
        BY <1>4, <4>1 DEF Placing, Sorting
      <4>3. QED
        BY <1>4, <3>3, <4>1, <4>2
    <3>4. QED
      BY <3>1, <3>2, <3>3
  <2>2. QED
    BY <2>1
<1> HIDE DEF Alone
<1>5. ASSUME NEW p \in Process, NEW k, Receive(p, k) PROVE Alone'
  BY <1>t, <1>4, <1>5 DEF Receive, Goto
<1>6. ASSUME NEW p \in Process, Start(p) \/ Search(p) \/ LoseAppend(p) \/ Tracked(p)
      PROVE  Alone'
  <2>1. /\ ~clashed
        /\ \E label : pc' = [pc EXCEPT ![p] = label]
        /\ \E i : idx' = [idx EXCEPT ![p] = i]
    BY <1>6, <1>t DEF Start, Search, LoseAppend, Tracked, Goto
  <2>2. pc'[p] \in {"search", "look", "idle", "sweep"} /\ (pc'[p] = "look" => idx'[p] = 1)
    BY <1>6, <1>t DEF Start, Search, LoseAppend, Tracked, Goto
  <2>3. QED
    BY <1>4, <1>t, <2>1, <2>2
<1>7. ASSUME NEW p \in Process, Look(p) \/ Check(p) PROVE Alone'
  <2>1. /\ Reads(p)
        /\ \E label : pc' = [pc EXCEPT ![p] = label]
        /\ \E i : idx' = [idx EXCEPT ![p] = i]
        /\ pc'[p] # "sort"
    BY <1>7, <1>t DEF Look, Check, Goto
  <2>2. ~clashed /\ Sorting \ {p} = {}
    BY <2>1, NoClash
  <2>3. QED
    BY <1>4, <1>t, <2>1, <2>2
<1>8. ASSUME NEW p \in Process, Update(p) \/ Seen(p) \/ Add(p) \/ Warn(p) PROVE Alone'
  <2>1. /\ \E k : Writes(p, k)
        /\ \E label : pc' = [pc EXCEPT ![p] = label]
        /\ \E i : idx' = [idx EXCEPT ![p] = i]
        /\ pc'[p] # "sort"
    BY <1>8, <1>t DEF Update, Seen, Add, Warn, Goto, Leave
  <2>2. ~clashed /\ Sorting \ {p} = {}
    BY <2>1, NoClash
  <2>3. QED
    BY <1>4, <1>t, <2>1, <2>2
<1>9. ASSUME NEW p \in Process, Finish(p) \/ EndSort(p) \/ Swap(p) PROVE Alone'
  <2>1. /\ ~clashed
        /\ \E label : pc' = [pc EXCEPT ![p] = label]
        /\ \E i : idx' = [idx EXCEPT ![p] = i]
        /\ \/ pc'[p] = "idle"
           \/ pc'[p] = pc[p] /\ pc[p] = "sort"
    BY <1>9, <1>t DEF Finish, EndSort, Swap, Goto, Leave
  <2>2. QED
    BY <1>4, <1>t, <2>1
<1>10. ASSUME NEW p \in Process, StartSort(p) PROVE Alone'
  <2>1. /\ Moves(p)
        /\ pc' = [pc EXCEPT ![p] = "sort"]
        /\ \E i : idx' = [idx EXCEPT ![p] = i]
    BY <1>10, <1>t DEF StartSort, Goto, Leave
  <2>2. ~clashed /\ Placing \ {p} = {}
    BY <2>1, NoClash
  <2>3. QED
    BY <1>4, <1>t, <2>1, <2>2
<1>11. QED
  <2>1. ASSUME NEW p \in Process, Track(p) PROVE Alone'
    BY <1>6, <1>7, <1>8, <2>1 DEF Track
  <2>2. ASSUME NEW p \in Process, Sweep(p) PROVE Alone'
    BY <1>6, <1>7, <1>8, <1>9, <1>10, <2>1, <2>2 DEF Sweep, Sort
  <2>3. QED
    BY <1>0, <1>1, <1>2, <1>3, <1>5, <2>1, <2>2 DEF Next

\* Nobody sorts in the beginning.
LEMMA SortInvInit == Init => SortInv
  BY DEF Init, SortInv

\* What a process knows keeps to be so while the process itself takes no step, no entry changes its
\* key or is added with that key, and no time passes.
LEMMA KnowsKept ==
    ASSUME TypeInv, TypeInv', NEW q \in Process, Knows(q),
           pc'[q] = pc[q], key'[q] = key[q], when'[q] = when[q], idx'[q] = idx[q],
           \A k \in Known : contact'[k] <= contact[k],
           DOMAIN list \subseteq DOMAIN list',
           \A i \in DOMAIN list : list'[i].key = list[i].key,
           \A i \in DOMAIN list' \ DOMAIN list : pc[q] = "append" => list'[i].key # key[q]
    PROVE  Knows(q)'
<1>1. /\ pc[q] \in {"update", "seen"} => idx[q] \in DOMAIN list
      /\ Tracking(q) => key[q] \in Known
  BY DEF TypeInv
<1>2. Tracking(q)' => when'[q] >= contact'[key'[q]]
  <2>1. ASSUME Tracking(q) PROVE when[q] >= contact'[key[q]]
    <3>1. /\ key[q] \in Known /\ key[q] \in Key /\ contact'[key[q]] <= contact[key[q]]
          /\ when[q] >= contact[key[q]] /\ when[q] \in Age
      BY <1>1, <2>1 DEF Knows, TypeInv, TypeOK
    <3>2. contact[key[q]] \in Int /\ contact'[key[q]] \in Int /\ when[q] \in Int
      BY <3>1, WatchListAssumption DEF TypeInv, TypeOK, Age, Never
    <3>3. QED
      BY <3>1, <3>2
  <2>2. QED
    BY <2>1 DEF Tracking
<1>3. pc'[q] \in {"update", "seen"} => list'[idx'[q]].key = key'[q]
  BY <1>1 DEF Knows
<1>6. pc'[q] = "look" =>
          \A i \in 1 .. idx'[q] - 1 : i \in DOMAIN list' /\ list'[i].key # key'[q]
  BY DEF Knows
<1>4. pc'[q] = "append" => Hits(key[q])' = {}
  BY DEF Knows, Hits
<1>5. QED
  BY <1>2, <1>3, <1>4, <1>6 DEF Knows

\* Every step keeps the entries apart and never more recent than their contacts.
LEMMA TrackInvStep == TypeInv /\ SortInv /\ TrackInv /\ [Next]_vars => TrackInv'
<1> SUFFICES ASSUME TypeInv, TypeInv', SortInv, TrackInv, [Next]_vars, ~clashed'
             PROVE  Unique' /\ NotTooRecent' /\ \A p \in Process : Knows(p)'
  BY TypeInvStep DEF TrackInv
<1>0. /\ MaxLimit \in Nat /\ kind.limit \in 1 .. MaxLimit
      /\ kind.key \subseteq Key /\ kind.sweeper \subseteq Process
      /\ kind.goroutine \subseteq Process /\ kind.sweeper \cap kind.goroutine = {}
  BY KindFacts DEF TypeInv, TypeOK
<1>a. ASSUME ~clashed PROVE Unique /\ NotTooRecent /\ \A p \in Process : Knows(p)
  BY <1>a DEF TrackInv
<1>t. /\ \A i \in DOMAIN list : list[i].seen \in Age /\ list[i].key \in Known
      /\ \A k \in Known : contact[k] \in Age /\ k \in Key
      /\ \A a \in Age : a \in Int
      /\ \A p \in Process : when[p] \in Age
  <2>1. \A i \in DOMAIN list : list[i] \in Entry /\ list[i].key \in Known
    BY DEF TypeInv, TypeOK
  <2>2. \A k \in Known : contact[k] \in Age /\ k \in Key
    BY <1>0 DEF TypeInv, TypeOK, Known
  <2>3. \A a \in Age : a \in Int
    BY <1>0 DEF Age
  <2>4. \A p \in Process : when[p] \in Age
    BY DEF TypeInv, TypeOK
  <2>5. QED
    BY <2>1, <2>2, <2>3, <2>4 DEF Entry
<1>1. CASE UNCHANGED vars
  BY <1>a, <1>1 DEF vars, history, Unique, NotTooRecent, Knows, Tracking, Hits
<1>2. CASE Tick
  <2>1. /\ DOMAIN list' = DOMAIN list
        /\ \A i \in DOMAIN list :
              list'[i].key = list[i].key /\ list'[i].seen = Older(list[i].seen)
        /\ \A k \in Key : contact'[k] = Older(contact[k])
    BY <1>2, TickEffect
  <2>2. ~clashed
    BY <1>2 DEF Tick
  <2>3. Unique'
    BY <1>a, <2>1, <2>2 DEF Unique
  <2>4. ASSUME NEW i \in DOMAIN list PROVE list'[i].seen >= contact'[list'[i].key]
    <3>1. /\ list[i].seen \in Age /\ list[i].key \in Key /\ contact[list[i].key] \in Age
          /\ list[i].seen >= contact[list[i].key]
      BY <1>a, <1>t, <2>2 DEF NotTooRecent
    <3>2. Older(list[i].seen) >= Older(contact[list[i].key])
      BY <3>1, OlderFacts
    <3>3. QED
      BY <2>1, <3>1, <3>2
  <2>5. NotTooRecent'
    BY <2>1, <2>4 DEF NotTooRecent
  <2>6. \A p \in Process : Knows(p)'
    BY <1>2 DEF Tick, Idle, Knows, Tracking
  <2>7. QED
    BY <2>3, <2>5, <2>6
<1>3. CASE Restart
  BY <1>3 DEF Restart, Unique, NotTooRecent, Knows, Tracking
<1>h. ASSUME NEW k \in kind.key, Heard(k), UNCHANGED <<kind, clashed, list, key, when, idx>>,
             \A p \in Process : pc'[p] = pc[p] \/ (pc[p] = "idle" /\ pc'[p] = "search")
      PROVE  Unique' /\ NotTooRecent' /\ \A p \in Process : Knows(p)'
  <2>1. /\ contact'[k] = 0
        /\ \A h \in Key \ {k} : contact'[h] = contact[h]
    BY <1>h, HeardEffect
  <2>2. \A h \in Known : contact'[h] <= contact[h]
    <3>1. \A h \in Known : contact[h] \in Nat
      BY <1>0, <1>t DEF Age
    <3>2. QED
      BY <1>t, <2>1, <3>1
  <2>3. ASSUME NEW i \in DOMAIN list PROVE list[i].seen >= contact'[list[i].key]
    <3>1. /\ list[i].seen \in Nat /\ list[i].key \in Key
          /\ list[i].seen >= contact[list[i].key]
      BY <1>0, <1>a, <1>h, <1>t DEF NotTooRecent, Age
    <3>2. QED
      BY <2>1, <3>1
  <2>4. ASSUME NEW p \in Process PROVE Knows(p)'
    <3>1. CASE pc'[p] = pc[p]
      BY <1>a, <1>h, <2>2, <3>1, KnowsKept
    <3>2. CASE pc'[p] = "search"
      BY <3>2 DEF Knows, Tracking
    <3>3. QED
      BY <1>h, <3>1, <3>2
  <2>5. QED
    BY <1>a, <1>h, <2>3, <2>4 DEF Unique, NotTooRecent
<1>4. ASSUME NEW k \in kind.key, Contact(k)
      PROVE  Unique' /\ NotTooRecent' /\ \A p \in Process : Knows(p)'
  BY <1>4, <1>h DEF Contact
<1>5. ASSUME NEW p \in Process, NEW k \in kind.key, Receive(p, k)
      PROVE  Unique' /\ NotTooRecent' /\ \A q \in Process : Knows(q)'
  <2>1. \A q \in Process : pc'[q] = pc[q] \/ (pc[q] = "idle" /\ pc'[q] = "search")
    BY <1>5 DEF Receive, Goto, TypeInv, TypeOK
  <2>2. QED
    BY <1>5, <1>h, <2>1 DEF Receive
\* What is left of the list's properties when neither it nor the contacts change.
<1>s. ASSUME NEW p \in Process, UNCHANGED <<kind, contact, list>>, ~clashed, Knows(p)',
             \A q \in Process \ {p} : pc'[q] = pc[q] /\ key'[q] = key[q]
                                         /\ when'[q] = when[q] /\ idx'[q] = idx[q]
      PROVE  Unique' /\ NotTooRecent' /\ \A q \in Process : Knows(q)'
  <2>1. \A q \in Process \ {p} : Knows(q)'
    BY <1>a, <1>s DEF Knows, Tracking, Hits
  <2>2. Unique' /\ NotTooRecent'
    BY <1>a, <1>s DEF Unique, NotTooRecent
  <2>3. QED
    BY <1>s, <2>1, <2>2
<1>6. ASSUME NEW p \in Process, Start(p) \/ Tracked(p) \/ Check(p) \/ Finish(p)
                                    \/ StartSort(p) \/ EndSort(p)
      PROVE  Unique' /\ NotTooRecent' /\ \A q \in Process : Knows(q)'
  <2>1. /\ \E label : pc' = [pc EXCEPT ![p] = label]
        /\ pc'[p] \in {"search", "idle", "sweep", "warn", "sort"}
    BY <1>6 DEF Start, Tracked, Check, Finish, StartSort, EndSort, Goto, TypeInv, TypeOK
  <2>2. /\ UNCHANGED <<kind, contact, list>>
        /\ \A q \in Process \ {p} : key'[q] = key[q] /\ when'[q] = when[q] /\ idx'[q] = idx[q]
    BY <1>6 DEF Start, Tracked, Check, Finish, StartSort, EndSort, Leave, TypeInv, TypeOK
  <2>3. ~clashed
    BY <1>6, NoClash DEF Start, Tracked, Check, Finish, StartSort, EndSort
  <2>4. Knows(p)'
    BY <2>1 DEF Knows, Tracking
  <2>5. QED
    BY <1>s, <2>1, <2>2, <2>3, <2>4 DEF TypeInv, TypeOK
<1>7. ASSUME NEW p \in Process, Search(p)
      PROVE  Unique' /\ NotTooRecent' /\ \A q \in Process : Knows(q)'
  <2>1. PICK k \in todo[p] :
          /\ key' = [key EXCEPT ![p] = k]
          /\ when' = [when EXCEPT ![p] = contact[k]]
    BY <1>7 DEF Search
  <2>2. /\ UNCHANGED <<kind, clashed, contact, list>>
        /\ pc' = [pc EXCEPT ![p] = "look"] /\ idx' = [idx EXCEPT ![p] = 1]
    BY <1>7 DEF Search, Goto
  <2>3. k \in Known
    BY DEF TypeInv
  <2>4. Knows(p)'
    <3>1. key'[p] = k /\ when'[p] = contact[k] /\ pc'[p] = "look" /\ idx'[p] = 1
      BY <2>1, <2>2 DEF TypeInv, TypeOK
    <3>2. when'[p] >= contact'[key'[p]]
      BY <1>t, <2>2, <2>3, <3>1
    <3>3. 1 .. idx'[p] - 1 = {}
      BY <3>1
    <3>4. QED
      BY <3>1, <3>2, <3>3 DEF Knows
  <2>5. \A q \in Process \ {p} : pc'[q] = pc[q] /\ key'[q] = key[q]
                                    /\ when'[q] = when[q] /\ idx'[q] = idx[q]
    BY <2>1, <2>2 DEF TypeInv, TypeOK
  <2>6. QED
    BY <1>s, <2>2, <2>4, <2>5
<1>14. ASSUME NEW p \in Process, Look(p)
       PROVE  Unique' /\ NotTooRecent' /\ \A q \in Process : Knows(q)'
  <2>1. /\ UNCHANGED <<kind, contact, list, key, when>> /\ pc[p] = "look" /\ ~clashed
        /\ \/ /\ idx[p] > Len(list) /\ idx' = idx
              /\ pc' = [pc EXCEPT ![p] = "append"]
           \/ /\ idx[p] <= Len(list) /\ list[idx[p]].key = key[p] /\ idx' = idx
              /\ pc' = [pc EXCEPT ![p] = "update"]
           \/ /\ idx[p] <= Len(list) /\ list[idx[p]].key # key[p] /\ pc' = pc
              /\ idx' = [idx EXCEPT ![p] = @ + 1]
    BY <1>14, NoClash DEF Look, Goto
  <2>2. /\ Knows(p) /\ idx[p] \in Nat \ {0} /\ Len(list) \in Nat
        /\ DOMAIN list = 1 .. Len(list)
        /\ idx \in [Process -> Nat]
        /\ \A l : [pc EXCEPT ![p] = l][p] = l
    <3>1. list \in Seq(Entry) /\ idx \in [Process -> Nat] /\ p \in DOMAIN pc
      BY DEF TypeInv, TypeOK
    <3>2. idx[p] # 0
      BY <2>1 DEF TypeInv
    <3>3. QED
      BY <1>a, <2>1, <3>1, <3>2
  <2>3. when'[p] >= contact'[key'[p]]
    BY <2>1, <2>2 DEF Knows, Tracking
  <2>4. Knows(p)'
    <3>1. CASE idx[p] > Len(list) /\ idx' = idx /\ pc' = [pc EXCEPT ![p] = "append"]
      <4>1. \A i \in DOMAIN list : list[i].key # key[p]
        BY <2>1, <2>2, <3>1 DEF Knows
      <4>2. QED
        BY <2>1, <2>2, <2>3, <3>1, <4>1 DEF Knows, Hits
    <3>2. CASE /\ list[idx[p]].key = key[p] /\ idx' = idx
               /\ pc' = [pc EXCEPT ![p] = "update"]
      BY <2>1, <2>2, <2>3, <3>2 DEF Knows
    <3>3. CASE /\ idx[p] <= Len(list) /\ list[idx[p]].key # key[p] /\ pc' = pc
               /\ idx' = [idx EXCEPT ![p] = @ + 1]
      <4>1. idx'[p] = idx[p] + 1
        BY <2>2, <3>3
      <4>2. \A i \in 1 .. idx'[p] - 1 : i \in DOMAIN list /\ list[i].key # key[p]
        BY <2>1, <2>2, <3>3, <4>1 DEF Knows
      <4>3. QED
        BY <2>1, <2>3, <3>3, <4>2 DEF Knows
    <3>4. QED
      BY <2>1, <3>1, <3>2, <3>3
  <2>5. \A q \in Process \ {p} : pc'[q] = pc[q] /\ idx'[q] = idx[q]
    BY <2>1 DEF TypeInv, TypeOK
  <2>6. QED
    BY <1>s, <2>1, <2>4, <2>5
<1>15. ASSUME NEW p \in Process, LoseAppend(p) PROVE FALSE
  BY <1>15 DEF LoseAppend
\* Entries are written: their keys stay, and the entry that is written does not get
\* more recent than its contact.
<1>e. ASSUME NEW p \in Process, ~clashed, UNCHANGED <<kind, contact>>, DOMAIN list' = DOMAIN list,
             \A i \in DOMAIN list :
                 /\ list'[i].key = list[i].key
                 /\ list'[i].seen = list[i].seen \/ list'[i].seen >= contact[list[i].key],
             \A q \in Process \ {p} : pc'[q] = pc[q] /\ key'[q] = key[q]
                                         /\ when'[q] = when[q] /\ idx'[q] = idx[q],
             Knows(p)'
      PROVE  Unique' /\ NotTooRecent' /\ \A q \in Process : Knows(q)'
  <2>1. Unique'
    BY <1>a, <1>e DEF Unique
  <2>2. NotTooRecent'
    BY <1>a, <1>e DEF NotTooRecent
  <2>3. ASSUME NEW q \in Process \ {p} PROVE Knows(q)'
    <3>1. \A k \in Known : contact'[k] <= contact[k]
      BY <1>t, <1>e
    <3>2. QED
      BY <1>a, <1>e, <3>1, KnowsKept
  <2>4. QED
    BY <1>e, <2>1, <2>2, <2>3
<1>8. ASSUME NEW p \in Process, Update(p)
      PROVE  Unique' /\ NotTooRecent' /\ \A q \in Process : Knows(q)'
  <2>1. /\ idx[p] \in DOMAIN list /\ DOMAIN list' = DOMAIN list
        /\ \A i \in DOMAIN list : list'[i].key = list[i].key /\ list'[i].seen = list[i].seen
    BY <1>8, UpdateEffect
  <2>2. /\ pc[p] = "update" /\ pc' = [pc EXCEPT ![p] = "seen"]
        /\ UNCHANGED <<kind, contact, key, when, idx>> /\ ~clashed
    BY <1>8, NoClash DEF Update, Goto
  <2>3. Knows(p)'
    BY <1>a, <2>1, <2>2 DEF Knows, Tracking, TypeInv, TypeOK
  <2>4. QED
    BY <1>e, <2>1, <2>2, <2>3 DEF TypeInv, TypeOK
<1>9. ASSUME NEW p \in Process, Seen(p)
      PROVE  Unique' /\ NotTooRecent' /\ \A q \in Process : Knows(q)'
  <2>1. /\ idx[p] \in DOMAIN list /\ DOMAIN list' = DOMAIN list
        /\ \A i \in DOMAIN list :
              list'[i].key = list[i].key /\ (i # idx[p] => list'[i] = list[i])
        /\ list'[idx[p]].seen \in {when[p], list[idx[p]].seen}
    BY <1>9, SeenEffect
  <2>2. /\ pc[p] = "seen" /\ pc' = [pc EXCEPT ![p] = "search"]
        /\ UNCHANGED <<kind, contact>> /\ Leave(p) /\ ~clashed
    BY <1>9, NoClash DEF Seen, Goto
  <2>3. Knows(p)'
    BY <2>2 DEF Knows, Tracking, TypeInv, TypeOK
  <2>4. when[p] >= contact[list[idx[p]].key]
    BY <1>a, <2>2 DEF Knows, Tracking
  <2>5. \A i \in DOMAIN list :
           list'[i].seen = list[i].seen \/ list'[i].seen >= contact[list[i].key]
    BY <2>1, <2>4
  <2>6. \A q \in Process \ {p} : pc'[q] = pc[q] /\ key'[q] = key[q]
                                    /\ when'[q] = when[q] /\ idx'[q] = idx[q]
    BY <2>2 DEF Leave, TypeInv, TypeOK
  <2>7. QED
    BY <1>e, <2>1, <2>2, <2>3, <2>5, <2>6
<1>10. ASSUME NEW p \in Process, Add(p)
       PROVE  Unique' /\ NotTooRecent' /\ \A q \in Process : Knows(q)'
  <2> DEFINE n == Len(list) + 1
  <2>1. /\ DOMAIN list' = DOMAIN list \cup {n} /\ n \notin DOMAIN list
        /\ \A i \in DOMAIN list : list'[i] = list[i]
        /\ list'[n].key = key[p] /\ list'[n].seen = when[p]
    BY <1>10, AddEffect
  <2> HIDE DEF n
  <2>2. /\ pc[p] = "append" /\ pc' = [pc EXCEPT ![p] = "search"]
        /\ UNCHANGED <<kind, contact>> /\ Leave(p) /\ Writes(p, key[p])
    BY <1>10 DEF Add, Goto
  <2>3. ~clashed /\ \A q \in Holding \ {p} : About(q) # key[p]
    BY <2>2, NoClash
  <2>4. Hits(key[p]) = {} /\ when[p] >= contact[key[p]]
    BY <1>a, <2>2, <2>3 DEF Knows, Tracking
  <2>5. Unique'
    BY <1>a, <2>1, <2>3, <2>4 DEF Unique, Hits
  <2>6. NotTooRecent'
    BY <1>a, <2>1, <2>2, <2>3, <2>4 DEF NotTooRecent
  <2>7. ASSUME NEW q \in Process \ {p} PROVE Knows(q)'
    <3>1. pc'[q] = pc[q] /\ key'[q] = key[q] /\ when'[q] = when[q] /\ idx'[q] = idx[q]
      BY <2>2 DEF Leave, TypeInv, TypeOK
    <3>2. pc[q] = "append" => key[q] # key[p]
      BY <2>3 DEF Holding, About
    <3>3. \A k \in Known : contact'[k] <= contact[k]
      BY <1>t, <2>2
    <3>4. \A i \in DOMAIN list' \ DOMAIN list : pc[q] = "append" => list'[i].key # key[q]
      BY <2>1, <3>2
    <3>5. QED
      BY <1>a, <2>1, <2>3, <3>1, <3>3, <3>4, KnowsKept
  <2>8. Knows(p)'
    BY <2>2 DEF Knows, Tracking, TypeInv, TypeOK
  <2>9. QED
    BY <2>5, <2>6, <2>7, <2>8
<1>11. ASSUME NEW p \in Process, Warn(p)
       PROVE  Unique' /\ NotTooRecent' /\ \A q \in Process : Knows(q)'
  <2>1. /\ DOMAIN list' = DOMAIN list
        /\ \A i \in DOMAIN list : list'[i].key = list[i].key /\ list'[i].seen = list[i].seen
    BY <1>11, WarnEffect
  <2>2. /\ pc' = [pc EXCEPT ![p] = "sweep"] /\ idx' = [idx EXCEPT ![p] = @ + 1]
        /\ UNCHANGED <<kind, contact, key, when>> /\ ~clashed
    BY <1>11, NoClash DEF Warn, Goto
  <2>3. Knows(p)'
    BY <2>2 DEF Knows, Tracking, TypeInv, TypeOK
  <2>4. \A q \in Process \ {p} : pc'[q] = pc[q] /\ idx'[q] = idx[q]
    BY <2>2 DEF TypeInv, TypeOK
  <2>5. QED
    BY <1>e, <2>1, <2>2, <2>3, <2>4
<1>12. ASSUME NEW p \in Process, Swap(p)
       PROVE  Unique' /\ NotTooRecent' /\ \A q \in Process : Knows(q)'
  <2>1. /\ pc[p] = "sort" /\ ~clashed
        /\ UNCHANGED <<kind, contact, pc, key, when, idx>>
    BY <1>12 DEF Swap
  <2>2. PICK f \in [DOMAIN list -> DOMAIN list] :
            /\ \A i, j \in DOMAIN list : f[i] = f[j] => i = j
            /\ list' = [i \in DOMAIN list |-> list[f[i]]]
            /\ DOMAIN list' = DOMAIN list
    BY <1>12, SwapEffect DEF TypeInv, TypeOK
  <2>3. Unique' /\ NotTooRecent'
    BY <1>a, <2>1, <2>2 DEF Unique, NotTooRecent
  <2>4. ASSUME NEW q \in Process PROVE Knows(q)'
    <3>1. Knows(q) /\ pc[q] \notin {"update", "seen"} /\ (pc[q] = "look" => idx[q] = 1)
      BY <1>a, <2>1 DEF SortInv
    <3>2. pc[q] = "append" => Hits(key[q])' = {}
      BY <2>1, <2>2, <3>1 DEF Knows, Hits
    <3>3. pc'[q] = "look" => 1 .. idx'[q] - 1 = {}
      BY <2>1, <3>1
    <3>4. Tracking(q)' => when'[q] >= contact'[key'[q]]
      BY <2>1, <3>1 DEF Knows, Tracking
    <3>5. QED
      BY <2>1, <3>1, <3>2, <3>3, <3>4 DEF Knows
  <2>5. QED
    BY <2>3, <2>4
<1>13. QED
  <2> DEFINE Goal == Unique' /\ NotTooRecent' /\ \A p \in Process : Knows(p)'
  <2>1. ASSUME NEW p \in Process, Track(p) PROVE Goal
    BY <1>6, <1>7, <1>8, <1>9, <1>10, <1>14, <1>15, <2>1 DEF Track
  <2>2. ASSUME NEW p \in Process, Sweep(p) PROVE Goal
    BY <1>6, <1>11, <1>12, <2>1, <2>2 DEF Sweep, Sort
  <2>3. QED
    BY <1>0, <1>1, <1>2, <1>3, <1>4, <1>5, <2>1, <2>2 DEF Next

\* Nothing is tracked in the beginning.
LEMMA TrackInvInit == Init => TrackInv
  BY DEF Init, TrackInv, Unique, NotTooRecent, Knows, Tracking

\* A list never has two entries of one key, until two processes clash.
THEOREM EntriesAreUnique == Spec => []NoDuplicates
<1>1. TrackInv => NoDuplicates
  BY DEF TrackInv, Unique, NoDuplicates
<1>2. QED
  BY <1>1, TypeInvInit, TypeInvStep, SortInvInit, SortInvStep, TrackInvInit, TrackInvStep, PTL DEF Spec

\* No entry is more recent than the last contact with its device, gateway or server,
\* until two processes clash.
THEOREM EntriesAreTrue == Spec => []NeverTooRecent
<1>1. TrackInv => NeverTooRecent
  BY DEF TrackInv, NotTooRecent, NeverTooRecent
<1>2. QED
  BY <1>1, TypeInvInit, TypeInvStep, SortInvInit, SortInvStep, TrackInvInit, TrackInvStep, PTL DEF Spec

-----------------------------------------------------------------------------
(* Warnings of gateways and servers.                                        *)
\* What a sweep knows keeps to be so while another process writes other entries, or
\* makes them more recent, and there is no contact.
LEMMA SweepsKept ==
    ASSUME TypeInv, NEW q \in Process, Sweeps(q), UNCHANGED <<kind, contact>>,
           pc'[q] = pc[q], todo'[q] = todo[q], key'[q] = key[q], when'[q] = when[q],
           idx'[q] = idx[q], contacted'[q] = contacted[q],
           pc[q] = "warn" => list'[idx[q]] = list[idx[q]],
           \A k \in Known : UpToDate(k) => UpToDate(k)'
    PROVE  Sweeps(q)'
<1>1. Known' = Known /\ (Tracking(q)' <=> Tracking(q))
  BY DEF Known, Tracking
<1>2. pc'[q] = "warn" => Expired(list[idx[q]])'
  BY DEF Sweeps, Expired
<1>3. Tracking(q)' => key'[q] \in contacted'[q] \/ when'[q] = contact'[key'[q]]
  BY <1>1 DEF Sweeps
<1>4. ASSUME pc'[q] # "idle", NEW k \in Known' \ (todo'[q] \cup contacted'[q])
      PROVE  UpToDate(k)' \/ (Tracking(q)' /\ k = key'[q])
  BY <1>1, <1>4 DEF Sweeps
<1>5. QED
  BY <1>2, <1>3, <1>4 DEF Sweeps

\* An entry stays up to date that is only made more recent.
LEMMA UpToDateKept ==
    ASSUME TypeInv, TypeInv', UNCHANGED contact, NEW k, UpToDate(k),
           DOMAIN list \subseteq DOMAIN list',
           \A i \in DOMAIN list : list'[i].key = list[i].key /\ list'[i].seen <= list[i].seen
    PROVE  UpToDate(k)'
<1>1. PICK i \in DOMAIN list : list[i].key = k /\ list[i].seen <= contact[k]
  BY DEF UpToDate, Hits
<1>2. list[i] \in Entry /\ list'[i] \in Entry /\ k \in Known
  BY <1>1 DEF TypeInv, TypeOK
<1>3. list[i].seen \in Int /\ list'[i].seen \in Int
  BY <1>2, WatchListAssumption DEF Entry, Age
<1>4. k \in Key /\ contact[k] \in Int
  <2>1. k \in Key /\ contact[k] \in Age \cup {Never}
    BY <1>2, KindFacts DEF TypeInv, TypeOK, Known
  <2>2. QED
    BY <2>1, WatchListAssumption DEF Age, Never
<1>5. list'[i].key = k /\ list'[i].seen <= contact'[k]
  BY <1>1, <1>3, <1>4
<1>6. QED
  BY <1>5 DEF UpToDate, Hits

\* A silence stays warned of while its key is not heard of and its entries keep their
\* marks.
LEMMA SilenceKept ==
    ASSUME NEW k \in Key, Silence(k), UNCHANGED kind,
           warnings'[k] = warnings[k], contact'[k] = contact[k],
           \A i \in Hits(k)' :
              \E j \in Hits(k) :
                 /\ list'[i].notifiedAsUnseen = list[j].notifiedAsUnseen
                 /\ list'[i].everRecentlySeen = list[j].everRecentlySeen
    PROVE  Silence(k)'
  BY DEF Silence

\* What is warned of is silent for longer than the limit and was not warned of, unless
\* it has come back during the sweep.
LEMMA WarnIsTrue ==
    ASSUME TypeInv, TrackInv, WarnInv, ~clashed, kind.fileBacked,
           NEW p \in kind.sweeper, Warn(p)
    PROVE  LET k == list[idx[p]].key
           IN  k \in Key /\ (k \in contacted[p] \/ (contact[k] > kind.limit /\ warnings[k] = 0))
<1> DEFINE k == list[idx[p]].key
<1>1. p \in Process /\ idx[p] \in DOMAIN list /\ pc[p] = "warn"
  BY KindFacts DEF TypeInv, TypeOK, Warn
<1>2. k \in Known /\ k \in Key /\ contact[k] \in Int
  <2>1. k \in Known /\ k \in Key /\ contact[k] \in Age \cup {Never}
    BY <1>1, KindFacts DEF TypeInv, TypeOK, Known
  <2>2. QED
    BY <2>1, WatchListAssumption DEF Age, Never
<1>3. Sweeps(p) /\ Silence(k) /\ Unique
  BY <1>2 DEF WarnInv, TrackInv
<1>4. Expired(list[idx[p]]) /\ todo[p] = {} /\ ~Tracking(p)
  BY <1>1, <1>3 DEF Sweeps, Tracking
<1>5. ASSUME k \notin contacted[p] PROVE contact[k] > kind.limit
  <2>1. UpToDate(k)
    BY <1>1, <1>2, <1>3, <1>4, <1>5 DEF Sweeps
  <2>2. PICK i \in DOMAIN list : list[i].key = k /\ list[i].seen <= contact[k]
    BY <2>1 DEF UpToDate, Hits
  <2>3. i = idx[p]
    BY <1>1, <1>3, <2>2 DEF Unique
  <2>4. list[i].seen \in Int /\ kind.limit \in Int
    <3>1. list[i] \in Entry /\ kind.limit \in Int
      BY <2>2, KindFacts DEF TypeInv, TypeOK
    <3>2. QED
      BY <3>1, WatchListAssumption DEF Entry, Age
  <2>5. list[i].seen > kind.limit /\ list[i].seen <= contact[k]
    BY <1>4, <2>2, <2>3 DEF Expired
  <2>6. QED
    BY <1>2, <2>4, <2>5
<1>6. warnings[k] = 0
  BY <1>1, <1>3, <1>4 DEF Silence, Expired, Hits
<1>7. QED
  BY <1>2, <1>5, <1>6

\* How a warning is counted.
LEMMA WarningCount ==
    ASSUME TypeInv, kind.fileBacked, NEW p \in Process, Warn(p), list[idx[p]].key \in Key
    PROVE  LET k == list[idx[p]].key
           IN  /\ \A h \in Key \ {k} : warnings'[h] = warnings[h]
               /\ k \in contacted[p] => warnings'[k] = warnings[k]
               /\ warnings'[k] \in {warnings[k], warnings[k] + 1}
  BY DEF Warn, SendWarning, TypeInv, TypeOK

\* Every step keeps what the sweeps know, and what is known of silences.
LEMMA WarnInvStep == TypeInv /\ SortInv /\ TrackInv /\ WarnInv /\ [Next]_vars => WarnInv'
<1> SUFFICES ASSUME TypeInv, TypeInv', SortInv, TrackInv, WarnInv, [Next]_vars,
                    ~clashed', kind'.fileBacked
             PROVE  (\A p \in kind'.sweeper : Sweeps(p)') /\ \A k \in Key : Silence(k)'
  BY TypeInvStep DEF WarnInv
<1>0. /\ MaxLimit \in Nat /\ kind.limit \in 1 .. MaxLimit
      /\ kind.key \subseteq Key /\ kind.sweeper \subseteq Process
      /\ kind.goroutine \subseteq Process /\ kind.sweeper \cap kind.goroutine = {}
  BY KindFacts DEF TypeInv, TypeOK
<1>k. kind' = kind /\ kind.fileBacked
  BY DEF Next, vars, Tick, Restart, Contact, Sweep, Start, Track, Search, Look, Update, Seen, Add,
         LoseAppend, Tracked, Check, Warn, Finish, Sort, StartSort, Swap, EndSort, Receive
<1>t. /\ \A i \in DOMAIN list : list[i].seen \in Age /\ list[i].key \in Known
      /\ \A k \in Known : contact[k] \in Age /\ k \in Key
      /\ \A a \in Age : a \in Int
      /\ \A p \in Process : when[p] \in Age
  <2>1. \A i \in DOMAIN list : list[i] \in Entry /\ list[i].key \in Known
    BY DEF TypeInv, TypeOK
  <2>2. \A k \in Known : contact[k] \in Age /\ k \in Key
    BY <1>0 DEF TypeInv, TypeOK, Known
  <2>3. \A a \in Age : a \in Int
    BY <1>0 DEF Age
  <2>4. \A p \in Process : when[p] \in Age
    BY DEF TypeInv, TypeOK
  <2>5. QED
    BY <2>1, <2>2, <2>3, <2>4 DEF Entry
<1>a. ASSUME ~clashed
      PROVE  /\ Unique /\ NotTooRecent /\ \A p \in Process : Knows(p)
             /\ \A p \in kind.sweeper : Sweeps(p)
             /\ \A k \in Key : Silence(k)
  BY <1>a, <1>k DEF TrackInv, WarnInv
<1> DEFINE Goal == (\A p \in kind'.sweeper : Sweeps(p)') /\ \A k \in Key : Silence(k)'
<1>1. CASE UNCHANGED vars
  BY <1>a, <1>1 DEF vars, history, Sweeps, Silence, Tracking, Known, UpToDate, Hits, Expired
<1>2. CASE Tick
  <2>1. /\ DOMAIN list' = DOMAIN list
        /\ \A i \in DOMAIN list :
              /\ list'[i].key = list[i].key
              /\ list'[i].everRecentlySeen = list[i].everRecentlySeen
              /\ list'[i].notifiedAsUnseen = list[i].notifiedAsUnseen
        /\ \A k \in Key : contact'[k] = Older(contact[k])
    BY <1>2, TickEffect
  <2>2. \A p \in kind'.sweeper : Sweeps(p)'
    BY <1>0, <1>k, <1>2 DEF Tick, Idle, Sweeps, Tracking
  <2>3. ~clashed /\ warnings' = warnings
    BY <1>2 DEF Tick, history
  <2>4. ASSUME NEW k \in Key, warnings[k] # 0
        PROVE  contact'[k] > kind'.limit
    <3>1. contact[k] > kind.limit /\ contact[k] \in Age \cup {Never}
      BY <1>a, <2>3, <2>4 DEF Silence, TypeInv, TypeOK
    <3>2. contact[k] \in Age /\ kind.limit \in 0 .. MaxLimit
      BY <1>0, <3>1 DEF Never
    <3>3. QED
      BY <1>k, <2>1, <3>1, <3>2, OlderFacts
  <2>5. \A k \in Key : Silence(k)'
    BY <1>a, <2>1, <2>3, <2>4 DEF Silence, Hits
  <2>6. QED
    BY <2>2, <2>5
<1>3. CASE Restart
  BY <1>0, <1>a, <1>k, <1>3 DEF Restart, Sweeps, Silence, Tracking, Hits
<1>h. ASSUME NEW k \in kind.key, Heard(k),
             UNCHANGED <<kind, clashed, list, key, when, idx>>,
             \A p \in kind.sweeper : pc'[p] = pc[p] /\ todo'[p] = todo[p]
      PROVE  Goal
  <2>1. /\ Known' = Known \cup {k}
        /\ \A h \in Key \ {k} : contact'[h] = contact[h]
    BY <1>h, HeardEffect
  <2>2. warnings'[k] = 0 /\ \A h \in Key \ {k} : warnings'[h] = warnings[h]
    BY <1>h, HeardTypes
  <2>3. ASSUME NEW p \in kind.sweeper PROVE Sweeps(p)'
    <3>1. Sweeps(p) /\ p \in Process
      BY <1>0, <1>a, <1>h
    <3>2. CASE pc[p] = "idle"
      BY <1>h, <3>2 DEF Sweeps, Tracking
    <3>3. CASE pc[p] # "idle"
      <4>1. contacted'[p] = contacted[p] \cup {k}
        BY <1>k, <3>1, <3>3, <1>h DEF Heard
      <4>2. \A h \in Known \ {k} : UpToDate(h) => UpToDate(h)'
        BY <1>h, <1>t, <2>1 DEF UpToDate, Hits
      <4>3. Tracking(p)' <=> Tracking(p)
        BY <1>h DEF Tracking
      <4>4. pc'[p] = "warn" => Expired(list[idx[p]])'
        BY <1>h, <3>1 DEF Sweeps, Expired
      <4>5. ASSUME Tracking(p)' PROVE key'[p] \in contacted'[p] \/ when'[p] = contact'[key'[p]]
        <5>1. key[p] \in Known
          BY <3>1, <4>3, <4>5 DEF TypeInv
        <5>2. QED
          BY <1>h, <1>t, <2>1, <3>1, <4>1, <4>3, <4>5, <5>1 DEF Sweeps
      <4>6. ASSUME NEW h \in Known' \ (todo'[p] \cup contacted'[p])
            PROVE  UpToDate(h)' \/ (Tracking(p)' /\ h = key'[p])
        BY <1>h, <2>1, <3>1, <3>3, <4>1, <4>2, <4>3, <4>6 DEF Sweeps
      <4>7. QED
        BY <1>h, <3>1, <4>4, <4>5, <4>6 DEF Sweeps
    <3>4. QED
      BY <3>2, <3>3
  <2>4. ASSUME NEW h \in Key PROVE Silence(h)'
    <3>1. CASE h = k
      BY <2>2, <3>1 DEF Silence
    <3>2. CASE h # k
      BY <1>a, <1>h, <2>1, <2>2, <3>2, SilenceKept DEF Hits
    <3>3. QED
      BY <3>1, <3>2
  <2>5. QED
    BY <1>k, <2>3, <2>4
<1>4. ASSUME NEW k \in kind.key, Contact(k) PROVE Goal
  BY <1>4, <1>h DEF Contact
<1>5. ASSUME NEW p \in kind.goroutine, NEW k \in kind.key, Receive(p, k) PROVE Goal
  <2>1. \A q \in kind.sweeper : pc'[q] = pc[q] /\ todo'[q] = todo[q]
    BY <1>0, <1>5 DEF Receive, Goto, TypeInv, TypeOK
  <2> HIDE DEF Goal
  <2>2. QED
    BY <1>5, <1>h, <2>1 DEF Receive
\* The sweeps of the other processes, when entries are added or made more recent.
<1>o. ASSUME NEW p \in Process, ~clashed, UNCHANGED <<kind, contact>>,
             DOMAIN list \subseteq DOMAIN list',
             \A i \in DOMAIN list : list'[i].key = list[i].key /\ list'[i].seen <= list[i].seen,
             \A q \in Process \ {p} :
                 /\ pc'[q] = pc[q] /\ todo'[q] = todo[q] /\ key'[q] = key[q]
                 /\ when'[q] = when[q] /\ idx'[q] = idx[q] /\ contacted'[q] = contacted[q]
                 /\ pc[q] = "warn" => list'[idx[q]] = list[idx[q]]
      PROVE  /\ \A q \in kind.sweeper \ {p} : Sweeps(q)'
             /\ \A k \in Known : UpToDate(k) => UpToDate(k)'
  <2>1. \A k \in Known : UpToDate(k) => UpToDate(k)'
    BY <1>o, UpToDateKept
  <2>2. ASSUME NEW q \in kind.sweeper \ {p} PROVE Sweeps(q)'
    <3>1. q \in Process /\ Sweeps(q)
      BY <1>0, <1>a, <1>o
    <3>2. QED
      BY <1>o, <2>1, <3>1, SweepsKept
  <2>3. QED
    BY <2>1, <2>2
\* Steps that do not write the list.
<1>s. ASSUME NEW p \in Process, UNCHANGED <<kind, contact, list, warnings>>, ~clashed,
             \A q \in Process \ {p} : /\ pc'[q] = pc[q] /\ todo'[q] = todo[q] /\ key'[q] = key[q]
                                      /\ when'[q] = when[q] /\ idx'[q] = idx[q]
                                      /\ contacted'[q] = contacted[q],
             p \in kind.sweeper => Sweeps(p)'
      PROVE  Goal
  <2>1. \A i \in DOMAIN list : list'[i].seen <= list[i].seen
    BY <1>s, <1>t
  <2>2. \A q \in kind.sweeper \ {p} : Sweeps(q)'
    BY <1>o, <1>s, <2>1
  <2>3. \A k \in Key : Silence(k)'
    BY <1>a, <1>s DEF Silence, Hits
  <2>4. QED
    BY <1>k, <1>s, <2>2, <2>3
<1>6. ASSUME NEW p \in kind.sweeper, Start(p) PROVE Goal
  <2>1. /\ pc[p] = "idle" /\ pc' = [pc EXCEPT ![p] = "search"] /\ p \in Process
        /\ todo' = [todo EXCEPT ![p] = {k \in kind.key : kind.fileBacked /\ contact[k] # Never}]
        /\ UNCHANGED <<kind, clashed, contact, list, key, when, idx, swept, history>>
    BY <1>0, <1>6 DEF Start, Goto
  <2>2. todo'[p] = Known /\ Known' = Known /\ pc'[p] = "search"
    BY <1>k, <2>1 DEF Known, TypeInv, TypeOK
  <2>3. Sweeps(p)'
    BY <2>2 DEF Sweeps, Tracking
  <2>4. QED
    BY <1>s, <2>1, <2>3 DEF TypeInv, TypeOK, history
<1>7. ASSUME NEW p \in Process, Search(p) PROVE Goal
  <2>1. PICK k \in todo[p] :
          /\ todo' = [todo EXCEPT ![p] = @ \ {k}]
          /\ key' = [key EXCEPT ![p] = k]
          /\ when' = [when EXCEPT ![p] = contact[k]]
          /\ idx' = [idx EXCEPT ![p] = 1] /\ Goto(p, "look")
    BY <1>7 DEF Search
  <2>2. pc[p] = "search" /\ UNCHANGED <<kind, clashed, contact, list, swept, history>>
    BY <1>7 DEF Search
  <2>3. todo'[p] = todo[p] \ {k} /\ key'[p] = k /\ when'[p] = contact[k] /\ pc'[p] = "look"
    BY <2>1 DEF Goto, TypeInv, TypeOK
  <2>4. ASSUME p \in kind.sweeper PROVE Sweeps(p)'
    <3>1. Sweeps(p) /\ Known' = Known /\ \A h : UpToDate(h)' <=> UpToDate(h)
      BY <1>a, <2>2, <2>4 DEF Known, UpToDate, Hits
    <3>2. contacted' = contacted
      BY <2>2 DEF history
    <3>3. QED
      BY <2>2, <2>3, <3>1, <3>2 DEF Sweeps, Tracking
  <2>5. \A q \in Process \ {p} : /\ pc'[q] = pc[q] /\ todo'[q] = todo[q] /\ key'[q] = key[q]
                                 /\ when'[q] = when[q] /\ idx'[q] = idx[q]
    BY <2>1 DEF Goto, TypeInv, TypeOK
  <2>6. UNCHANGED <<warnings, contacted>>
    BY <2>2 DEF history
  <2> HIDE DEF Goal
  <2>7. QED
    BY <1>s, <2>2, <2>4, <2>5, <2>6
<1>16. ASSUME NEW p \in Process, Look(p) PROVE Goal
  <2>1. /\ pc[p] = "look" /\ pc'[p] \in {"look", "append", "update"} /\ ~clashed
        /\ UNCHANGED <<kind, contact, list, todo, key, when, swept, history>>
    BY <1>16, NoClash DEF Look, Goto, TypeInv, TypeOK
  <2>2. \A q \in Process \ {p} : pc'[q] = pc[q] /\ idx'[q] = idx[q]
    BY <1>16 DEF Look, Goto, TypeInv, TypeOK
  <2>3. ASSUME p \in kind.sweeper PROVE Sweeps(p)'
    <3>1. Sweeps(p) /\ Known' = Known /\ \A h : UpToDate(h)' <=> UpToDate(h)
      BY <1>a, <2>1, <2>3 DEF Known, UpToDate, Hits
    <3>2. contacted' = contacted
      BY <2>1 DEF history
    <3>3. QED
      BY <2>1, <3>1, <3>2 DEF Sweeps, Tracking
  <2>4. UNCHANGED <<warnings, contacted>>
    BY <2>1 DEF history
  <2> HIDE DEF Goal
  <2>5. QED
    BY <1>s, <2>1, <2>2, <2>3, <2>4
<1>17. ASSUME NEW p \in Process, LoseAppend(p) PROVE FALSE
  BY <1>17 DEF LoseAppend
<1>8. ASSUME NEW p \in Process, Tracked(p) PROVE Goal
  <2>1. /\ pc[p] = "search" /\ todo[p] = {} /\ pc'[p] \in {"idle", "sweep"}
        /\ UNCHANGED <<kind, clashed, contact, list, todo, key, when, swept, history>>
    BY <1>8 DEF Tracked, Goto, TypeInv, TypeOK
  <2>2. \A q \in Process \ {p} : pc'[q] = pc[q] /\ idx'[q] = idx[q]
    BY <1>8 DEF Tracked, Goto, TypeInv, TypeOK
  <2>3. ASSUME p \in kind.sweeper PROVE Sweeps(p)'
    <3>1. Sweeps(p) /\ Known' = Known /\ \A h : UpToDate(h)' <=> UpToDate(h)
      BY <1>a, <2>1, <2>3 DEF Known, UpToDate, Hits
    <3>2. contacted' = contacted
      BY <2>1 DEF history
    <3>3. QED
      BY <2>1, <3>1, <3>2 DEF Sweeps, Tracking
  <2>4. UNCHANGED <<warnings, contacted>>
    BY <2>1 DEF history
  <2> HIDE DEF Goal
  <2>5. QED
    BY <1>s, <2>1, <2>2, <2>3, <2>4
<1>9. ASSUME NEW p \in Process, Check(p) PROVE Goal
  <2>1. /\ pc[p] = "sweep" /\ ~clashed
        /\ UNCHANGED <<kind, contact, list, todo, key, when, swept, history>>
    BY <1>9, NoClash DEF Check
  <2>2. \/ pc' = [pc EXCEPT ![p] = "warn"] /\ idx' = idx /\ Expired(list[idx[p]])
        \/ pc' = pc /\ idx' = [idx EXCEPT ![p] = @ + 1]
    BY <1>9 DEF Check, Goto
  <2>3. \A q \in Process \ {p} : pc'[q] = pc[q] /\ idx'[q] = idx[q]
    BY <2>2 DEF TypeInv, TypeOK
  <2>4. ASSUME p \in kind.sweeper PROVE Sweeps(p)'
    <3>1. Sweeps(p) /\ Known' = Known /\ \A h : UpToDate(h)' <=> UpToDate(h)
      BY <1>a, <2>1, <2>4 DEF Known, UpToDate, Hits
    <3>2. contacted' = contacted
      BY <2>1 DEF history
    <3>3. /\ pc'[p] \in {"sweep", "warn"}
          /\ pc'[p] = "warn" => Expired(list[idx[p]])'
      BY <2>1, <2>2 DEF Expired, TypeInv, TypeOK
    <3>4. QED
      BY <2>1, <3>1, <3>2, <3>3 DEF Sweeps, Tracking
  <2>5. UNCHANGED <<warnings, contacted>>
    BY <2>1 DEF history
  <2> HIDE DEF Goal
  <2>6. QED
    BY <1>s, <2>1, <2>3, <2>4, <2>5
\* The writes to an entry are not to one that a sweep warns of.
<1>w. ASSUME NEW p \in Process, Writes(p, list[idx[p]].key)
      PROVE  /\ ~clashed
             /\ \A q \in Process \ {p} : pc[q] = "warn" => idx[q] # idx[p]
  BY <1>w, NoClash DEF Holding, About
<1>10. ASSUME NEW p \in Process, Update(p) PROVE Goal
  <2>1. /\ idx[p] \in DOMAIN list /\ DOMAIN list' = DOMAIN list
        /\ \A i \in DOMAIN list :
              /\ list'[i].key = list[i].key /\ list'[i].seen = list[i].seen
              /\ list'[i] = list[i] \/ (i = idx[p] /\ when[p] < kind.limit)
    BY <1>10, UpdateEffect
  <2>2. /\ pc[p] = "update" /\ pc' = [pc EXCEPT ![p] = "seen"]
        /\ UNCHANGED <<kind, contact, todo, key, when, idx, swept, warnings, contacted, forgotten>>
        /\ Writes(p, list[idx[p]].key)
    BY <1>10 DEF Update, Goto
  <2>3. ~clashed /\ \A q \in Process \ {p} : pc[q] = "warn" => list'[idx[q]] = list[idx[q]]
    <3>1. \A q \in Process \ {p} : pc[q] = "warn" => idx[q] \in DOMAIN list
      BY DEF TypeInv
    <3>2. QED
      BY <1>w, <2>1, <2>2, <3>1
  <2>4. /\ \A q \in kind.sweeper \ {p} : Sweeps(q)'
        /\ \A k \in Known : UpToDate(k) => UpToDate(k)'
    <3>1. \A i \in DOMAIN list : list'[i].seen <= list[i].seen
      BY <1>t, <2>1
    <3>2. \A q \in Process \ {p} : pc'[q] = pc[q]
      BY <2>2 DEF TypeInv, TypeOK
    <3>3. QED
      BY <1>o, <2>1, <2>2, <2>3, <3>1, <3>2
  <2>5. ASSUME p \in kind.sweeper PROVE Sweeps(p)'
    <3>1. Sweeps(p) /\ Known' = Known /\ pc'[p] = "seen"
      BY <1>a, <2>2, <2>3, <2>5 DEF Known, TypeInv, TypeOK
    <3>2. QED
      BY <2>2, <2>4, <3>1 DEF Sweeps, Tracking
  <2>6. ASSUME NEW k \in Key PROVE Silence(k)'
    <3>1. CASE \A i \in Hits(k) : list'[i] = list[i]
      <4>1. Hits(k)' = Hits(k)
        BY <2>1 DEF Hits
      <4>2. QED
        BY <1>a, <2>2, <2>3, <3>1, <4>1, SilenceKept
    <3>2. CASE ~\A i \in Hits(k) : list'[i] = list[i]
      <4>1. k = list[idx[p]].key /\ when[p] < kind.limit
        BY <2>1, <3>2 DEF Hits
      <4>2. k = key[p] /\ when[p] >= contact[key[p]] /\ key[p] \in Known
        BY <1>a, <2>2, <2>3, <4>1 DEF Knows, Tracking, TypeInv
      <4>3. contact[k] \in Int /\ when[p] \in Int /\ kind.limit \in Int
        BY <1>0, <1>t, <4>2
      <4>4. ~(contact[k] > kind.limit)
        BY <4>1, <4>2, <4>3
      <4>5. QED
        BY <1>a, <2>2, <2>3, <4>4 DEF Silence
    <3>3. QED
      BY <3>1, <3>2
  <2>7. QED
    BY <1>k, <2>4, <2>5, <2>6
<1>11. ASSUME NEW p \in Process, Seen(p) PROVE Goal
  <2>1. /\ idx[p] \in DOMAIN list /\ DOMAIN list' = DOMAIN list
        /\ \A i \in DOMAIN list :
              /\ list'[i].key = list[i].key
              /\ list'[i].everRecentlySeen = list[i].everRecentlySeen
              /\ list'[i].notifiedAsUnseen = list[i].notifiedAsUnseen
              /\ i # idx[p] => list'[i] = list[i]
        /\ LET old == list[idx[p]].seen
           IN  list'[idx[p]].seen = IF when[p] < old THEN when[p] ELSE old
    BY <1>11, SeenEffect
  <2>2. /\ pc[p] = "seen" /\ pc' = [pc EXCEPT ![p] = "search"] /\ Leave(p)
        /\ UNCHANGED <<kind, contact, todo, swept, warnings, contacted>>
        /\ Writes(p, list[idx[p]].key)
    BY <1>11 DEF Seen, Goto, history
  <2>3. ~clashed /\ \A q \in Process \ {p} : pc[q] = "warn" => list'[idx[q]] = list[idx[q]]
    <3>1. \A q \in Process \ {p} : pc[q] = "warn" => idx[q] \in DOMAIN list
      BY DEF TypeInv
    <3>2. QED
      BY <1>w, <2>1, <2>2, <3>1
  <2>4. /\ list[idx[p]].seen \in Int /\ when[p] \in Int
        /\ list'[idx[p]].seen <= list[idx[p]].seen /\ list'[idx[p]].seen <= when[p]
    <3>1. list[idx[p]].seen \in Int /\ when[p] \in Int
      BY <1>t, <2>1
    <3>2. QED
      BY <2>1, <3>1
  <2>5. /\ \A q \in kind.sweeper \ {p} : Sweeps(q)'
        /\ \A k \in Known : UpToDate(k) => UpToDate(k)'
    <3>1. \A i \in DOMAIN list : list'[i].seen <= list[i].seen
      BY <1>t, <2>1, <2>4
    <3>2. \A q \in Process \ {p} :
             pc'[q] = pc[q] /\ key'[q] = key[q] /\ when'[q] = when[q] /\ idx'[q] = idx[q]
      BY <2>2 DEF Leave, TypeInv, TypeOK
    <3>3. QED
      BY <1>o, <2>1, <2>2, <2>3, <3>1, <3>2
  <2>6. ASSUME p \in kind.sweeper PROVE Sweeps(p)'
    <3>1. Sweeps(p) /\ Known' = Known /\ pc'[p] = "search"
      BY <1>a, <2>2, <2>3, <2>6 DEF Known, TypeInv, TypeOK
    <3>2. list[idx[p]].key = key[p]
      BY <1>a, <2>2, <2>3 DEF Knows
    <3>3. PICK k : k = key[p]
      OBVIOUS
    <3>4. ASSUME k \notin contacted[p] PROVE UpToDate(k)'
      <4>1. when[p] = contact[k]
        BY <2>2, <3>1, <3>3, <3>4 DEF Sweeps, Tracking
      <4>2. list'[idx[p]].seen <= contact'[k] /\ list'[idx[p]].key = k
        BY <2>1, <2>2, <2>4, <3>2, <3>3, <4>1
      <4>3. QED
        BY <2>1, <4>2 DEF UpToDate, Hits
    <3>5. QED
      BY <2>2, <2>5, <3>1, <3>3, <3>4 DEF Sweeps, Tracking
  <2>7. ASSUME NEW k \in Key PROVE Silence(k)'
    BY <1>a, <2>1, <2>2, <2>3, SilenceKept DEF Hits
  <2>8. QED
    BY <1>k, <2>5, <2>6, <2>7
<1>12. ASSUME NEW p \in Process, Add(p) PROVE Goal
  <2> DEFINE n == Len(list) + 1
  <2>1. /\ DOMAIN list' = DOMAIN list \cup {n}
        /\ \A i \in DOMAIN list : list'[i] = list[i]
        /\ list'[n].key = key[p] /\ list'[n].seen = when[p]
        /\ list'[n].everRecentlySeen => when[p] < kind.limit
    BY <1>12, AddEffect
  <2> HIDE DEF n
  <2>2. /\ pc[p] = "append" /\ pc' = [pc EXCEPT ![p] = "search"] /\ Leave(p)
        /\ UNCHANGED <<kind, contact, todo, swept, warnings, contacted>>
        /\ Writes(p, key[p])
    BY <1>12 DEF Add, Goto, history
  <2>3. ~clashed
    BY <2>2, NoClash
  <2>4. \A q \in Process \ {p} : pc[q] = "warn" => list'[idx[q]] = list[idx[q]]
    BY <2>1 DEF TypeInv
  <2>5. /\ \A q \in kind.sweeper \ {p} : Sweeps(q)'
        /\ \A k \in Known : UpToDate(k) => UpToDate(k)'
    <3>1. \A i \in DOMAIN list : list'[i].seen <= list[i].seen
      BY <1>t, <2>1
    <3>2. \A q \in Process \ {p} :
             pc'[q] = pc[q] /\ key'[q] = key[q] /\ when'[q] = when[q] /\ idx'[q] = idx[q]
      BY <2>2 DEF Leave, TypeInv, TypeOK
    <3>3. QED
      BY <1>o, <2>1, <2>2, <2>3, <2>4, <3>1, <3>2
  <2>6. ASSUME p \in kind.sweeper PROVE Sweeps(p)'
    <3>1. Sweeps(p) /\ Known' = Known /\ pc'[p] = "search" /\ key[p] \in Known
      BY <1>a, <2>2, <2>3, <2>6 DEF Known, Tracking, TypeInv, TypeOK
    <3>2. PICK k : k = key[p]
      OBVIOUS
    <3>3. ASSUME k \notin contacted[p] PROVE UpToDate(k)'
      <4>1. when[p] = contact[k]
        BY <2>2, <3>1, <3>2, <3>3 DEF Sweeps, Tracking
      <4>2. list'[n].seen <= contact'[k] /\ list'[n].key = k
        BY <1>t, <2>1, <2>2, <3>1, <3>2, <4>1
      <4>3. QED
        BY <2>1, <4>2 DEF UpToDate, Hits
    <3>4. QED
      BY <2>2, <2>5, <3>1, <3>2, <3>3 DEF Sweeps, Tracking
  <2>7. ASSUME NEW k \in Key PROVE Silence(k)'
    <3>1. CASE k # key[p]
      <4>1. Hits(k)' = Hits(k)
        BY <2>1, <3>1 DEF Hits
      <4>2. \A i \in Hits(k) : list'[i] = list[i]
        BY <2>1 DEF Hits
      <4>3. QED
        BY <1>a, <2>2, <2>3, <4>1, <4>2, SilenceKept
    <3>2. CASE k = key[p]
      <4>1. /\ Hits(k) = {} /\ when[p] >= contact[k] /\ k \in Known
            /\ Silence(k)
        BY <1>a, <2>2, <2>3, <3>2 DEF Knows, Tracking, TypeInv
      <4>2. Hits(k)' = {n}
        BY <2>1, <3>2, <4>1 DEF Hits
      <4>3. ASSUME warnings[k] # 0 PROVE ~list'[n].everRecentlySeen
        <5>1. contact[k] > kind.limit
          BY <4>1, <4>3 DEF Silence
        <5>2. contact[k] \in Int /\ when[p] \in Int /\ kind.limit \in Int
          BY <1>0, <1>t, <4>1
        <5>3. ~(when[p] < kind.limit)
          BY <4>1, <5>1, <5>2
        <5>4. QED
          BY <2>1, <5>3
      <4>4. QED
        BY <2>2, <4>1, <4>2, <4>3 DEF Silence
    <3>3. QED
      BY <3>1, <3>2
  <2>8. QED
    BY <1>k, <2>5, <2>6, <2>7
<1>13. ASSUME NEW p \in kind.sweeper, Warn(p) PROVE Goal
  <2> DEFINE h == list[idx[p]].key
  <2>1. /\ p \in Process /\ idx[p] \in DOMAIN list /\ DOMAIN list' = DOMAIN list
        /\ \A i \in DOMAIN list :
              /\ list'[i].key = list[i].key /\ list'[i].seen = list[i].seen
              /\ i # idx[p] => list'[i] = list[i]
        /\ list'[idx[p]].notifiedAsUnseen
    BY <1>0, <1>13, WarnEffect
  <2>2. /\ pc[p] = "warn" /\ pc' = [pc EXCEPT ![p] = "sweep"]
        /\ idx' = [idx EXCEPT ![p] = @ + 1]
        /\ UNCHANGED <<kind, contact, todo, key, when, contacted>>
        /\ Writes(p, list[idx[p]].key)
    BY <1>13 DEF Warn, Goto
  <2>3. ~clashed /\ \A q \in Process \ {p} : pc[q] = "warn" => list'[idx[q]] = list[idx[q]]
    <3>1. \A q \in Process \ {p} : pc[q] = "warn" => idx[q] \in DOMAIN list
      BY DEF TypeInv
    <3>2. QED
      BY <1>w, <2>1, <2>2, <3>1
  <2>4. /\ \A q \in kind.sweeper \ {p} : Sweeps(q)'
        /\ \A k \in Known : UpToDate(k) => UpToDate(k)'
    <3>1. \A i \in DOMAIN list : list'[i].seen <= list[i].seen
      BY <1>t, <2>1
    <3>2. \A q \in Process \ {p} : pc'[q] = pc[q] /\ idx'[q] = idx[q]
      BY <2>2 DEF TypeInv, TypeOK
    <3>3. QED
      BY <1>o, <2>1, <2>2, <2>3, <3>1, <3>2
  <2>5. Sweeps(p)'
    <3>1. Sweeps(p) /\ Known' = Known /\ pc'[p] = "sweep"
      BY <1>a, <2>1, <2>2, <2>3 DEF Known, TypeInv, TypeOK
    <3>2. QED
      BY <2>2, <2>4, <3>1 DEF Sweeps, Tracking
  <2>6. h \in Key /\ (h \in contacted[p] \/ (contact[h] > kind.limit /\ warnings[h] = 0))
    BY <1>k, <1>13, <2>3, WarnIsTrue
  <2>7. /\ \A k \in Key \ {h} : warnings'[k] = warnings[k]
        /\ h \in contacted[p] => warnings'[h] = warnings[h]
        /\ warnings'[h] \in {warnings[h], warnings[h] + 1}
    BY <1>k, <1>13, <2>1, <2>6, WarningCount
  <2>8. ASSUME NEW k \in Key PROVE Silence(k)'
    <3>1. CASE k # h
      <4>1. Hits(k)' = Hits(k) /\ \A i \in Hits(k) : list'[i] = list[i]
        BY <2>1, <3>1 DEF Hits
      <4>2. QED
        BY <1>a, <2>2, <2>3, <2>7, <3>1, <4>1, SilenceKept
    <3>2. CASE k = h
      <4>1. Hits(k)' = Hits(k) /\ \A i \in Hits(k) : i = idx[p]
        BY <1>a, <2>1, <2>3, <3>2 DEF Hits, Unique
      <4>2. \A i \in Hits(k)' : list'[i].notifiedAsUnseen
        BY <2>1, <4>1
      <4>3. ASSUME warnings'[k] # 0 PROVE warnings'[k] = 1 /\ contact[k] > kind.limit
        <5>1. CASE warnings[k] = 0
          BY <2>6, <2>7, <3>2, <4>3, <5>1
        <5>2. CASE warnings[k] # 0
          BY <1>a, <2>3, <2>6, <2>7, <3>2, <5>2 DEF Silence
        <5>3. QED
          BY <5>1, <5>2
      <4>4. QED
        BY <2>2, <4>2, <4>3 DEF Silence
    <3>3. QED
      BY <3>1, <3>2
  <2>9. QED
    BY <1>k, <2>4, <2>5, <2>8
<1>14. ASSUME NEW p \in kind.sweeper, Finish(p) \/ StartSort(p) \/ EndSort(p) PROVE Goal
  <2>1. /\ p \in Process /\ pc'[p] \in {"idle", "sort"}
        /\ \A q \in Process \ {p} : pc'[q] = pc[q] /\ key'[q] = key[q] /\ when'[q] = when[q]
                                     /\ idx'[q] = idx[q] /\ contacted'[q] = contacted[q]
        /\ UNCHANGED <<kind, contact, list, todo, warnings>> /\ ~clashed
    BY <1>0, <1>14, NoClash
    DEF Finish, StartSort, EndSort, Goto, Leave, history, TypeInv, TypeOK
  <2>2. CASE pc'[p] = "idle"
    <3>1. Sweeps(p)'
      BY <2>2 DEF Sweeps, Tracking
    <3> HIDE DEF Goal
    <3>2. QED
      BY <1>s, <2>1, <3>1
  <2>3. CASE pc'[p] = "sort"
    <3>1. pc[p] = "sweep" /\ contacted' = contacted
      BY <1>14, <2>1, <2>3 DEF Finish, StartSort, EndSort, Goto, history, TypeInv, TypeOK
    <3>2. Sweeps(p) /\ Known' = Known /\ \A h : UpToDate(h)' <=> UpToDate(h)
      BY <1>a, <2>1 DEF Known, UpToDate, Hits
    <3>3. Sweeps(p)'
      BY <2>1, <2>3, <3>1, <3>2 DEF Sweeps, Tracking
    <3> HIDE DEF Goal
    <3>4. QED
      BY <1>s, <2>1, <3>3
  <2>4. QED
    BY <2>1, <2>2, <2>3
<1>18. ASSUME NEW p \in kind.sweeper, Swap(p) PROVE Goal
  <2>1. /\ p \in Process /\ pc[p] = "sort" /\ ~clashed
        /\ UNCHANGED <<kind, contact, pc, todo, key, when, idx, warnings, contacted>>
    BY <1>0, <1>18 DEF Swap, history
  <2>2. PICK f \in [DOMAIN list -> DOMAIN list] :
            /\ \A j \in DOMAIN list : \E i \in DOMAIN list : f[i] = j
            /\ list' = [i \in DOMAIN list |-> list[f[i]]]
            /\ DOMAIN list' = DOMAIN list
    BY <1>18, SwapEffect DEF TypeInv, TypeOK
  <2>3. \A k : UpToDate(k) => UpToDate(k)'
    BY <2>1, <2>2 DEF UpToDate, Hits
  <2>4. ASSUME NEW q \in kind.sweeper PROVE Sweeps(q)'
    <3>1. q \in Process /\ Sweeps(q) /\ pc[q] # "warn"
      BY <1>0, <1>a, <2>1 DEF SortInv
    <3>2. QED
      BY <2>1, <2>3, <3>1, SweepsKept
  <2>5. ASSUME NEW k \in Key PROVE Silence(k)'
    <3>1. \A i \in Hits(k)' : f[i] \in Hits(k) /\ list'[i] = list[f[i]]
      BY <2>2 DEF Hits
    <3>2. QED
      BY <1>a, <2>1, <3>1, SilenceKept
  <2>6. QED
    BY <1>k, <2>4, <2>5
<1>15. QED
  <2> HIDE DEF Goal
  <2>1. ASSUME NEW p \in Process, Track(p) PROVE Goal
    BY <1>7, <1>8, <1>10, <1>11, <1>12, <1>16, <1>17, <2>1 DEF Track
  <2>2. ASSUME NEW p \in kind.sweeper, Sweep(p) PROVE Goal
    <3>1. p \in Process
      BY <1>0
    <3>2. \/ Start(p) \/ Track(p) \/ Check(p) \/ Warn(p) \/ Finish(p)
          \/ StartSort(p) \/ Swap(p) \/ EndSort(p)
      BY <2>2 DEF Sweep, Sort
    <3>3. QED
      BY <1>6, <1>9, <1>13, <1>14, <1>18, <2>1, <3>1, <3>2
  <2>3. ASSUME NEW p \in kind.goroutine, Track(p) \/ \E k \in kind.key : Receive(p, k)
        PROVE  Goal
    <3>1. p \in Process
      BY <1>0
    <3>2. QED
      BY <1>5, <2>1, <2>3, <3>1
  <2>4. Goal
    <3>1. CASE \E k \in kind.key : Contact(k)
      BY <1>4, <3>1
    <3>2. CASE \E p \in kind.sweeper : Sweep(p)
      BY <2>2, <3>2
    <3>3. CASE \E p \in kind.goroutine : Track(p) \/ \E k \in kind.key : Receive(p, k)
      BY <2>3, <3>3
    <3>4. CASE UNCHANGED vars \/ Tick \/ Restart
      BY <1>1, <1>2, <1>3, <3>4 DEF Goal
    <3>5. QED
      BY <3>1, <3>2, <3>3, <3>4 DEF Next
  <2>5. QED
    BY <2>4 DEF Goal

\* No warning has been sent in the beginning.
LEMMA WarnInvInit == Init => WarnInv
  BY KindFacts DEF Init, WarnInv, Sweeps, Silence, Tracking

\* One silence of a gateway or server is warned of once, for any number of them, of
\* sweeps and of restarts, until two processes clash.
THEOREM SilencesAreWarnedOfOnce == Spec => []WarnedOnce
<1>1. ASSUME WarnInv PROVE WarnedOnce
  <2>1. ASSUME kind.fileBacked, ~clashed, NEW k \in Key PROVE warnings[k] = 0 \/ warnings[k] = 1
    BY <1>1, <2>1 DEF WarnInv, Silence
  <2>2. QED
    BY <2>1 DEF WarnedOnce
<1>2. QED
  BY <1>1, TypeInvInit, TypeInvStep, SortInvInit, SortInvStep, TrackInvInit, TrackInvStep, WarnInvInit, WarnInvStep, PTL
  DEF Spec

\* A step counts a warning only of what has been silent for longer than the limit.
LEMMA CountIsTrue ==
    TypeInv /\ TrackInv /\ WarnInv /\ [Next]_vars =>
        (kind.fileBacked /\ ~clashed =>
            \A k \in Key : warnings'[k] > warnings[k] => contact[k] > kind.limit)
<1> SUFFICES ASSUME TypeInv, TrackInv, WarnInv, [Next]_vars, kind.fileBacked, ~clashed,
                    NEW k \in Key, warnings'[k] > warnings[k]
             PROVE  contact[k] > kind.limit
  OBVIOUS
<1>0. warnings[k] \in Nat /\ kind.sweeper \subseteq Process
  <2>1. warnings[k] \in 0 .. 2 /\ kind \in List
    BY DEF TypeInv, TypeOK
  <2>2. QED
    BY <2>1, KindFacts
<1>1. warnings'[k] # warnings[k]
  BY <1>0
<1>2. ASSUME NEW h \in kind.key, Heard(h) PROVE FALSE
  <2>1. warnings'[k] = 0 \/ warnings'[k] = warnings[k]
    BY <1>2, HeardTypes
  <2>2. QED
    BY <1>0, <1>1, <2>1
<1>3. PICK p \in kind.sweeper : Warn(p)
  BY <1>1, <1>2 DEF Next, vars, history, Tick, Restart, Contact, Sweep, Start, Track, Search,
                    Look, Update, Seen, Add, LoseAppend, Tracked, Check, Finish, Sort, StartSort,
                    Swap, EndSort, Receive
<1>4. /\ list[idx[p]].key \in Key
      /\ \/ list[idx[p]].key \in contacted[p]
         \/ contact[list[idx[p]].key] > kind.limit
  BY <1>3, WarnIsTrue
<1>5. /\ \A h \in Key \ {list[idx[p]].key} : warnings'[h] = warnings[h]
      /\ list[idx[p]].key \in contacted[p] =>
            warnings'[list[idx[p]].key] = warnings[list[idx[p]].key]
  BY <1>0, <1>3, <1>4, WarningCount
<1>6. QED
  BY <1>1, <1>4, <1>5

\* Every warning is of a gateway or server that no instance has heard of for longer
\* than the limit, or that came back during the sweep, until two processes clash.
THEOREM NoAlarmIsFalse == Spec => NoFalseAlarm
  BY TypeInvInit, TypeInvStep, SortInvInit, SortInvStep, TrackInvInit, TrackInvStep, WarnInvInit, WarnInvStep,
     CountIsTrue, PTL DEF Spec, NoFalseAlarm

=============================================================================
