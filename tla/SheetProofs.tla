----------------------------- MODULE SheetProofs -----------------------------
(***************************************************************************)
(* What is proved of the cache of the sheet, for any number of goroutines, *)
(* devices and changes of the tracker, and of its use by those that        *)
(* process what arrives by TCP.                                            *)
(***************************************************************************)
EXTENDS Reception, SequenceTheorems, TLAPS

Since(rows, v) == \A i \in DOMAIN rows : rows[i].version >= v

\* The row to be appended is one that was read.
Placed == \A p \in Process : pc[p] = "append" => row[p] \in 1 .. Len(Listed)

\* All that will be appended, by those that are at it, is of version v or later.
Coming(v) ==
    \A q \in Process :
        /\ pc[q] \in {"read", "append"} => version[q] >= v
        /\ pc[q] = "append" => Since(base[q], v)

\* Whether the cache is known to have been emptied since it was last called out of date.
Emptied ==
    \/ ~fRetrieve /\ ~expired /\ Starting = {}
    \/ Filling # {}

Busy ==
    {p \in Process :
        pc[p] \in {"flag", "check", "reset", "retrieve", "clear", "fetch", "read", "append",
                  "search"}}

\* Whether a process may rely on the cache.
Relies(p) ==
    \/ Emptied
    \/ pc[p] = "search" /\ p \notin early
    \/ pc[p] = "check" /\ ~fRetrieve /\ Starting = {}

\* The times that matter are those of the past.
Past == tracker >= marked /\ \A p \in Process : least[p] <= tracker

\* Unless a refill was under way, those under way have begun since.
Marked ==
    ~tainted =>
        /\ Coming(marked)
        /\ Emptied => Since(sheet, marked)

\* The same for the time that each process was given when it asked, except that
\* the cache may have become out of date again.
Given ==
    \A p \in Busy :
        /\ answer[p] = None
        /\ Coming(least[p])
        /\ Relies(p) => Since(sheet, least[p])

SheetInvariant == SheetTypeOK /\ Placed /\ Past /\ Marked /\ Given /\ NeverStale

-----------------------------------------------------------------------------
LEMMA Rows ==
    ASSUME NEW rows \in Seq(Row)
    PROVE  \A i \in DOMAIN rows : rows[i].version \in Version
<1>1. ASSUME NEW i \in DOMAIN rows
      PROVE  rows[i] \in Row
  OBVIOUS
<1>. QED
  BY <1>1 DEF Row

LEMMA SheetRows ==
    ASSUME SheetTypeOK
    PROVE  \A i \in DOMAIN sheet : sheet[i].version \in Version
  BY Rows DEF SheetTypeOK

LEMMA AppendSince ==
    ASSUME NEW rows \in Seq(Row), NEW r \in Row, NEW v \in Int,
           Since(rows, v), r.version >= v
    PROVE  Append(rows, r) \in Seq(Row) /\ Since(Append(rows, r), v)
<1>1. Append(rows, r) \in Seq(Row) /\ Len(Append(rows, r)) = Len(rows) + 1
  OBVIOUS
<1>2. ASSUME NEW i \in DOMAIN Append(rows, r)
      PROVE  Append(rows, r)[i].version >= v
  <2>1. CASE i \in DOMAIN rows
    BY <2>1 DEF Since
  <2>2. CASE i = Len(rows) + 1
    BY <2>2
  <2>. QED
    BY <1>1, <2>1, <2>2
<1>. QED
  BY <1>1, <1>2 DEF Since

LEMMA SheetInvariantInit == SheetInit => SheetInvariant
<1> SUFFICES ASSUME SheetInit
             PROVE  SheetInvariant
  OBVIOUS
<1>1. 0 \in Version /\ 0 \in 0 .. Len(Listed) /\ <<>> \in Seq(Row)
  BY SheetAssumption DEF Version
<1>1a. SheetTypeOK
  BY <1>1 DEF SheetInit, SheetTypeOK
<1>2. Busy = {} /\ Filling = {}
  BY DEF SheetInit, Busy, Filling
<1>3. Marked /\ Given
  BY <1>2 DEF SheetInit, Marked, Given, Coming, Since
<1>. QED
  BY <1>1a, <1>3, SheetAssumption DEF SheetInit, SheetInvariant, Placed, Past, NeverStale

\* One fact per action; DEF lists are kept here so that each step names its action.
LEMMA TypeNext ==
    ASSUME SheetTypeOK, Placed, [SheetNext]_sheetVars
    PROVE  SheetTypeOK' /\ Placed'
<1> USE SheetAssumption DEF SheetTypeOK, Placed
<1>a. 0 \in Version /\ 0 \in 0 .. Len(Listed)
  BY DEF Version
<1>1. CASE UNCHANGED sheetVars
  BY <1>1 DEF sheetVars, cache, local, histories
<1>2. CASE Edit
  BY <1>2 DEF Edit, cache, local, histories, Version
<1>3. CASE Invalidate \/ Expire
  BY <1>3 DEF Invalidate, Expire, OutOfDate, local
<1>4. ASSUME NEW p \in Process, NEW id \in Device, Ask(p, id)
      PROVE  SheetTypeOK' /\ Placed'
  BY <1>4, <1>a DEF Ask, Goto, cache
<1>5. ASSUME NEW p \in Process, LookUp(p)
      PROVE  SheetTypeOK' /\ Placed'
  <2>1. CASE Clear(p)
    <3>1. sheet' \in Seq(Row)
      BY <2>1 DEF Clear
    <3>2. filler' = p /\ filled' = None /\ lost' = FALSE /\ early' \subseteq Process
      BY <2>1 DEF Clear, Cleared
    <3>3. pc' = [pc EXCEPT ![p] = "fetch"]
      BY <2>1 DEF Clear, Cleared, Goto
    <3>. QED
      BY <2>1, <3>1, <3>2, <3>3 DEF Clear, Cleared, local
  <2>1a. CASE SetFlag(p) \/ Check(p)
    BY <2>1a DEF SetFlag, Check, Goto, cache, local, histories
  <2>1b. CASE ResetFlag(p)
    BY <2>1b DEF ResetFlag, Goto, local, histories
  <2>1c. CASE SetRetrieved(p)
    BY <2>1c DEF SetRetrieved, Goto, local, histories
  <2>2. CASE Fetch(p)
    BY <2>2, <1>a DEF Fetch, Goto, cache, histories
  <2>3. CASE Fail(p)
    BY <2>3, <1>a DEF Fail, Leave, Goto, cache
  <2>4. CASE Hang(p)
    BY <2>4 DEF Hang, Goto, cache, local, histories
  <2>5. CASE ReadRow(p)
    BY <2>5 DEF ReadRow, Goto, cache, histories
  <2>6. CASE AppendRow(p)
    <3>1. [device |-> Listed[row[p]], version |-> version[p]] \in Row
      BY <2>6 DEF AppendRow, Row
    <3>2. sheet' \in Seq(Row) /\ base' \in [Process -> Seq(Row)]
      BY <2>6, <3>1 DEF AppendRow
    <3>. QED
      BY <2>6, <3>2 DEF AppendRow, Goto
  <2>7. CASE EndOfFile(p)
    BY <2>7 DEF EndOfFile, Goto, cache, local
  <2>8. CASE Search(p)
    <3>1. \A i \in DOMAIN sheet : sheet[i].version \in Version
      BY SheetRows
    <3>2. answer' \in [Process -> Version \cup {None}]
      BY <2>8, <3>1 DEF Search, Hits
    <3>. QED
      BY <2>8, <3>2, <1>a DEF Search, Leave, Goto, cache, histories
  <2>. QED
    BY <1>5, <2>1, <2>1a, <2>1b, <2>1c, <2>2, <2>3, <2>4, <2>5, <2>6, <2>7, <2>8 DEF LookUp
<1>. QED
  BY <1>1, <1>2, <1>3, <1>4, <1>5 DEF SheetNext

\* What is out of date at one moment, and who has asked, do not change the rows.
LEMMA MarkNext ==
    ASSUME SheetInvariant, Invalidate \/ Expire
    PROVE  SheetInvariant'
<1> USE DEF SheetInvariant
<1>1. SheetTypeOK' /\ Placed'
  BY TypeNext DEF SheetNext
<1>2. tracker' = tracker /\ sheet' = sheet /\ UNCHANGED <<pc, local, least>>
  BY DEF Invalidate, Expire, OutOfDate
<1>3. Filling' = Filling /\ Starting' = Starting /\ Busy' = Busy
  BY <1>2 DEF Filling, Starting, Busy
<1>3a. UNCHANGED <<early, answer>>
  BY DEF Invalidate, Expire, OutOfDate, local
<1>4. marked' = tracker /\ tainted' = (Filling # {}) /\ (fRetrieve' \/ expired')
  BY DEF Invalidate, Expire, OutOfDate
<1>5. Past'
  BY <1>1, <1>2, <1>4 DEF Past, SheetTypeOK, Version
<1>6. Marked'
  <2>1. SUFFICES ASSUME Filling = {}
                 PROVE  Coming(marked') /\ ~Emptied'
    BY <1>2, <1>3, <1>4 DEF Marked, Coming, local
  <2>. QED
    BY <2>1, <1>2, <1>3, <1>4 DEF Coming, Emptied, Filling
<1>7. Emptied' => Emptied
  BY <1>3, <1>4 DEF Emptied
<1>7a. \A p \in Process : Relies(p)' => Relies(p)
  <2>1. fRetrieve => fRetrieve'
    BY DEF Invalidate, Expire
  <2>. QED
    BY <1>2, <1>3, <1>3a, <1>7, <2>1 DEF Relies
<1>8. Given'
  BY <1>2, <1>3, <1>3a, <1>7a DEF Given, Coming, Busy, local
<1>9. NeverStale'
  BY <1>2, <1>3a DEF NeverStale
<1>. QED
  BY <1>1, <1>5, <1>6, <1>8, <1>9

LEMMA AskNext ==
    ASSUME SheetInvariant, NEW p \in Process, NEW id \in Device, Ask(p, id)
    PROVE  SheetInvariant'
<1> USE DEF SheetInvariant
<1>1. SheetTypeOK' /\ Placed'
  BY TypeNext DEF SheetNext
<1>2. /\ UNCHANGED <<tracker, marked, tainted, sheet, version, base, fRetrieve, expired>>
      /\ pc[p] = "idle" /\ pc' = [pc EXCEPT ![p] = IF expired THEN "flag" ELSE "check"]
      /\ least' = [least EXCEPT ![p] = IF tainted THEN 0 ELSE marked]
      /\ answer' = [answer EXCEPT ![p] = None]
      /\ early' = early \ {p}
  BY DEF Ask, Goto, cache
<1>3. Filling' = Filling /\ Starting' = Starting
  BY <1>2 DEF Filling, Starting, SheetTypeOK
<1>4. Emptied' => Emptied
  BY <1>2, <1>3 DEF Emptied
<1>5. /\ \A q \in Process : pc'[q] \in {"read", "append"} => pc'[q] = pc[q]
      /\ \A q \in Process : q # p => /\ pc'[q] = pc[q] /\ least'[q] = least[q]
                                    /\ answer'[q] = answer[q]
      /\ pc'[p] \in {"flag", "check"} /\ (expired => pc'[p] = "flag") /\ answer'[p] = None
  BY <1>2 DEF SheetTypeOK
<1>6. Past'
  BY <1>2 DEF Past, SheetTypeOK, Version
<1>7. Marked'
  BY <1>2, <1>3, <1>4, <1>5 DEF Marked, Coming
<1>8. Coming(least'[p]) /\ (Relies(p)' => Since(sheet, least'[p]))
  <2>1. CASE tainted
    <3>1. least'[p] = 0
      BY <1>2, <2>1 DEF SheetTypeOK
    <3>2. \A q \in Process : Since(base[q], 0)
      BY Rows, SheetRows DEF Since, SheetTypeOK, Version
    <3>3. Since(sheet, 0)
      BY SheetRows DEF Since, Version
    <3>4. \A q \in Process : version[q] >= 0
      BY DEF SheetTypeOK, Version
    <3>. QED
      BY <3>1, <3>2, <3>3, <3>4 DEF Coming
  <2>2. CASE ~tainted
    <3>1. least'[p] = marked
      BY <1>2, <2>2 DEF SheetTypeOK
    <3>2. Coming(marked) /\ (Emptied => Since(sheet, marked))
      BY <2>2 DEF Marked
    <3>3. Relies(p)' => Emptied
      BY <1>2, <1>3, <1>4, <1>5 DEF Relies, Emptied
    <3>. QED
      BY <3>1, <3>2, <3>3
  <2>. QED
    BY <2>1, <2>2
<1>9. Given'
  <2>1. ASSUME NEW q \in Process, q \in Busy'
        PROVE  answer'[q] = None /\ Coming(least'[q]) /\ (Relies(q)' => Since(sheet, least'[q]))
    <3>1. CASE q = p
      BY <1>5, <1>8, <3>1
    <3>2. CASE q # p
      <4>1. q \in Busy /\ least'[q] = least[q] /\ pc'[q] = pc[q] /\ answer'[q] = answer[q]
        BY <1>5, <2>1, <3>2 DEF Busy
      <4>2. Relies(q)' => Relies(q)
        BY <1>2, <1>3, <1>4, <3>2, <4>1 DEF Relies
      <4>. QED
        BY <4>1, <4>2 DEF Given
    <3>. QED
      BY <3>1, <3>2
  <2>2. \A v : Coming(v) => Coming(v)'
    BY <1>2, <1>5 DEF Coming
  <2>3. \A q \in Busy' : q \in Process
    BY DEF Busy
  <2>. QED
    BY <1>2, <2>1, <2>2, <2>3 DEF Given, Coming
<1>10. NeverStale'
  BY <1>2 DEF NeverStale, SheetTypeOK
<1>. QED
  BY <1>1, <1>6, <1>7, <1>9, <1>10

\* The steps before a refill: who skips it has seen a cache that is not being emptied, or
\* is early.
LEMMA StartNext ==
    ASSUME SheetInvariant, NEW p \in Process,
           SetFlag(p) \/ Check(p) \/ ResetFlag(p) \/ SetRetrieved(p)
    PROVE  SheetInvariant'
<1> USE DEF SheetInvariant
<1>1. SheetTypeOK' /\ Placed'
  BY TypeNext DEF SheetNext, LookUp
<1>2. UNCHANGED <<tracker, sheet, marked, tainted, least, version, base, answer>>
  BY DEF SetFlag, Check, ResetFlag, SetRetrieved, cache, local, histories
<1>3. /\ \A q \in Process : q # p => pc'[q] = pc[q]
      /\ pc[p] \in {"flag", "check", "reset", "retrieve"}
      /\ pc'[p] \in {"check", "reset", "search", "retrieve", "clear"}
      /\ early \subseteq early'
  BY DEF SetFlag, Check, ResetFlag, SetRetrieved, Goto, histories, SheetTypeOK
<1>4. Filling' = Filling /\ Busy' = Busy
  BY <1>3 DEF Filling, Busy
<1>5. \A q \in Process : Relies(q)' => Relies(q)
  <2>1. CASE Check(p)
    <3>1. UNCHANGED <<fRetrieve, expired>>
      BY <2>1 DEF Check, cache
    <3>2. Starting' = Starting
      BY <1>3, <2>1 DEF Starting, Check, Goto, SheetTypeOK
    <3>3. Emptied' = Emptied
      BY <1>4, <3>1, <3>2 DEF Emptied
    <3>4. Relies(p)' => Relies(p)
      BY <2>1, <3>1, <3>2, <3>3 DEF Check, Goto, Relies, SheetTypeOK
    <3>. QED
      BY <1>3, <3>1, <3>2, <3>3, <3>4 DEF Relies
  <2>2. CASE ResetFlag(p) \/ SetRetrieved(p)
    <3>1. p \in Starting'
      BY <2>2 DEF ResetFlag, SetRetrieved, Goto, Starting, SheetTypeOK
    <3>2. pc'[p] # "search" /\ early' = early
      BY <2>2 DEF ResetFlag, SetRetrieved, Goto, histories, SheetTypeOK
    <3>. QED
      BY <1>3, <1>4, <3>1, <3>2 DEF Relies, Emptied
  <2>3. CASE SetFlag(p)
    <3>1. /\ fRetrieve' /\ pc'[p] = "check" /\ UNCHANGED <<early, expired>>
      BY <2>3 DEF SetFlag, Goto, histories, SheetTypeOK
    <3>. QED
      BY <1>3, <1>4, <3>1 DEF Relies, Emptied
  <2>. QED
    BY <2>1, <2>2, <2>3
<1>6. Emptied' => Emptied
  <2>1. CASE Check(p)
    <3>1. Starting' = Starting
      BY <1>3, <2>1 DEF Starting, Check, Goto, SheetTypeOK
    <3>. QED
      BY <1>4, <2>1, <3>1 DEF Check, cache, Emptied
  <2>2. CASE ResetFlag(p) \/ SetRetrieved(p)
    <3>1. p \in Starting'
      BY <2>2 DEF ResetFlag, SetRetrieved, Goto, Starting, SheetTypeOK
    <3>. QED
      BY <1>4, <3>1 DEF Emptied
  <2>3. CASE SetFlag(p)
    BY <1>4, <2>3 DEF SetFlag, Emptied
  <2>. QED
    BY <2>1, <2>2, <2>3
<1>7. \A v : Coming(v) => Coming(v)'
  BY <1>2, <1>3 DEF Coming
<1>8. Past' /\ NeverStale'
  BY <1>2, <1>3 DEF Past, NeverStale
<1>9. Marked'
  BY <1>2, <1>6, <1>7 DEF Marked, Coming
<1>10. Given'
  <2>1. \A q \in Busy' : q \in Busy /\ q \in Process
    BY <1>4 DEF Busy
  <2>. QED
    BY <1>2, <1>5, <1>7, <2>1 DEF Given, Coming
<1>. QED
  BY <1>1, <1>8, <1>9, <1>10

\* The steps of a refill: what is read is no older than any time that matters, and
\* what is appended to is the cache as it was after one of these steps.
LEMMA FillNext ==
    ASSUME SheetInvariant, NEW p \in Process,
           Clear(p) \/ Fetch(p) \/ ReadRow(p) \/ AppendRow(p)
    PROVE  SheetInvariant'
<1> USE DEF SheetInvariant
<1>1. SheetTypeOK' /\ Placed'
  BY TypeNext DEF SheetNext, LookUp
<1>2. UNCHANGED <<tracker, marked, tainted, least, answer>>
  BY DEF Clear, Cleared, Fetch, ReadRow, AppendRow, local, histories
<1>3. Past' /\ NeverStale'
  <2>1. \A q \in Process : q \notin early' /\ q \in early => answer[q] = None
    <3>1. CASE Clear(p)
      BY <3>1 DEF Clear, Cleared, Given, Busy
    <3>2. CASE ~Clear(p)
      BY <3>2 DEF Fetch, ReadRow, AppendRow, histories
    <3>. QED
      BY <3>1, <3>2
  <2>. QED
    BY <1>2, <2>1 DEF Past, NeverStale
<1>4. /\ \A q \in Process : q # p => pc'[q] = pc[q]
      /\ Busy' = Busy /\ p \in Busy
  BY DEF Clear, Cleared, Fetch, ReadRow, AppendRow, Goto, Busy, SheetTypeOK
<1>4a. ASSUME ~Clear(p)
       PROVE  /\ UNCHANGED <<fRetrieve, expired, early>>
              /\ Starting' = Starting /\ Filling' = Filling /\ p \in Filling
  <2>1. UNCHANGED <<fRetrieve, expired, early>>
    BY <1>4a DEF Fetch, ReadRow, AppendRow, cache, histories
  <2>2. pc[p] \in {"fetch", "read", "append"} /\ pc'[p] \in {"fetch", "read", "append"}
    BY <1>4a DEF Fetch, ReadRow, AppendRow, Goto, SheetTypeOK
  <2>. QED
    BY <1>4, <2>1, <2>2 DEF Starting, Filling
<1>4b. ASSUME ~Clear(p)
       PROVE  Emptied' = Emptied /\ Emptied
  BY <1>4a, <1>4b DEF Emptied
<1>4c. ASSUME ~Clear(p)
       PROVE  \A b \in Busy : Since(sheet, least[b])
  BY <1>4b, <1>4c DEF Given, Relies
<1>5. CASE Clear(p)
  <2>1. sheet' = <<>> /\ UNCHANGED <<version, base>>
    BY <1>5 DEF Clear, Cleared, local
  <2>2. \A v : Since(sheet', v)
    BY <2>1 DEF Since
  <2>3. pc'[p] = "fetch"
    BY <1>5 DEF Clear, Cleared, Goto, SheetTypeOK
  <2>4. Marked'
    BY <1>2, <1>4, <2>1, <2>2, <2>3 DEF Marked, Coming
  <2>5. Given'
    BY <1>2, <1>4, <2>1, <2>2, <2>3 DEF Given, Coming
  <2>. QED
    BY <1>1, <1>3, <2>4, <2>5
<1>6. CASE Fetch(p)
  <2>1. UNCHANGED <<sheet, fRetrieve, expired, base>>
    BY <1>6 DEF Fetch, cache
  <2>2. pc[p] = "fetch" /\ pc'[p] = "read" /\ version' = [version EXCEPT ![p] = tracker]
    BY <1>6 DEF Fetch, Goto, SheetTypeOK
  <2>3. ~Clear(p)
    BY <2>2 DEF Clear, Cleared
  <2>4. Emptied' = Emptied
    BY <1>4b, <2>3
  <2>5. Marked'
    BY <1>2, <1>4, <2>1, <2>2, <2>3, <2>4 DEF Marked, Coming, Past, SheetTypeOK
  <2>6. \A q \in Process : least[q] <= tracker
    BY DEF Past
  <2>7. Given'
    <3>1. \A b \in Busy : Coming(least[b])'
      BY <1>2, <1>4, <2>1, <2>2, <2>6 DEF Given, Coming, SheetTypeOK, Busy
    <3>2. \A b \in Busy : answer[b] = None /\ Since(sheet, least[b])
      BY <1>4c, <2>3 DEF Given
    <3>. QED
      BY <1>2, <1>4, <2>1, <3>1, <3>2 DEF Given
  <2>. QED
    BY <1>1, <1>3, <2>5, <2>7
<1>7. CASE ReadRow(p)
  <2>1. UNCHANGED <<sheet, fRetrieve, expired, version>>
    BY <1>7 DEF ReadRow, cache
  <2>2. pc[p] = "read" /\ pc'[p] = "append" /\ base' = [base EXCEPT ![p] = sheet]
    BY <1>7 DEF ReadRow, Goto, SheetTypeOK
  <2>3. ~Clear(p)
    BY <2>2 DEF Clear, Cleared
  <2>4. Emptied' /\ Emptied
    BY <1>4b, <2>3
  <2>5. Marked'
    BY <1>2, <1>4, <2>1, <2>2, <2>3, <2>4 DEF Marked, Coming, SheetTypeOK
  <2>6. Given'
    <3>1. \A b \in Busy : answer[b] = None /\ Coming(least[b]) /\ Since(sheet, least[b])
      BY <1>4c, <2>3 DEF Given
    <3>2. \A b \in Busy : Coming(least[b])'
      BY <1>2, <1>4, <2>1, <2>2, <3>1 DEF Coming, SheetTypeOK
    <3>. QED
      BY <1>2, <1>4, <2>1, <3>1, <3>2 DEF Given
  <2>. QED
    BY <1>1, <1>3, <2>5, <2>6
<1>8. CASE AppendRow(p)
  <2> DEFINE r == [device |-> Listed[row[p]], version |-> version[p]]
  <2>1. UNCHANGED <<fRetrieve, expired, version>>
    BY <1>8 DEF AppendRow
  <2>2. /\ pc[p] = "append" /\ pc'[p] = "read"
        /\ sheet' = Append(base[p], r)
        /\ base' = [base EXCEPT ![p] = <<>>]
    BY <1>8 DEF AppendRow, Goto, SheetTypeOK
  <2>4. r \in Row /\ base[p] \in Seq(Row)
    <3>1. row[p] \in 1 .. Len(Listed)
      BY <2>2 DEF Placed
    <3>2. Listed[row[p]] \in Device
      BY <3>1, SheetAssumption
    <3>. QED
      BY <3>2 DEF SheetTypeOK, Row
  <2>5. \A v \in Int : Coming(v) => Since(sheet', v)
    <3>1. SUFFICES ASSUME NEW v \in Int, Coming(v)
                   PROVE  Since(Append(base[p], r), v)
      BY <2>2
    <3>2. Since(base[p], v) /\ r.version >= v
      BY <2>2, <3>1 DEF Coming
    <3>. QED
      BY <2>4, <3>2, AppendSince
  <2>6. marked \in Int /\ \A q \in Process : least[q] \in Int
    BY DEF SheetTypeOK, Version
  <2>7. Marked'
    BY <1>2, <1>4, <2>1, <2>2, <2>5, <2>6 DEF Marked, Coming, SheetTypeOK
  <2>8. Given'
    BY <1>2, <1>4, <2>1, <2>2, <2>5, <2>6 DEF Given, Coming, SheetTypeOK, Busy
  <2>. QED
    BY <1>1, <1>3, <2>7, <2>8
<1>. QED
  BY <1>5, <1>6, <1>7, <1>8

LEMMA EndNext ==
    ASSUME SheetInvariant, NEW p \in Process,
           Fail(p) \/ Hang(p) \/ EndOfFile(p) \/ Search(p)
    PROVE  SheetInvariant'
<1> USE DEF SheetInvariant
<1>1. SheetTypeOK' /\ Placed'
  BY TypeNext DEF SheetNext, LookUp
<1>2. UNCHANGED <<tracker, marked, tainted, cache, base>>
  BY DEF Fail, Leave, Hang, EndOfFile, Search, local, histories
<1>3. /\ \A q \in Process : q # p => /\ pc'[q] = pc[q] /\ least'[q] = least[q]
                                    /\ version'[q] = version[q] /\ answer'[q] = answer[q]
      /\ pc'[p] \in {"idle", "hung", "search"}
      /\ least'[p] \in {0, least[p]}
      /\ pc[p] \in {"fetch", "read", "search"}
      /\ early' = early
  BY DEF Fail, Leave, Hang, EndOfFile, Search, Goto, local, histories, SheetTypeOK
<1>4. Filling' \subseteq Filling /\ Starting' = Starting
  BY <1>3 DEF Filling, Starting
<1>5. Emptied' => Emptied
  BY <1>2, <1>4 DEF Emptied, cache
<1>6. Past'
  <2>1. 0 <= tracker
    BY DEF SheetTypeOK, Version
  <2>2. \A q \in Process : least'[q] <= tracker
    BY <1>3, <2>1 DEF Past
  <2>. QED
    BY <1>2, <2>2 DEF Past
<1>7. Marked'
  BY <1>2, <1>3, <1>4, <1>5 DEF Marked, Coming, cache
<1>8. pc'[p] = "search" => /\ p \in Busy /\ least'[p] = least[p] /\ p \in Filling
                          /\ answer'[p] = answer[p]
  BY DEF Fail, Hang, EndOfFile, Search, Leave, Goto, local, histories, SheetTypeOK, Busy,
     Filling
<1>9. Given'
  <2>1. \A q \in Process : q \in Busy' => q \in Busy /\ least'[q] = least[q]
    BY <1>3, <1>8 DEF Busy
  <2>. QED
    <3>1. \A b \in Busy : Coming(least[b])
      BY DEF Given
    <3>2. \A q \in Process :
            pc'[q] \in {"read", "append"} => pc'[q] = pc[q] /\ version'[q] = version[q]
      BY <1>3
    <3>3. \A b \in Busy' : Coming(least[b])'
      BY <1>2, <2>1, <3>1, <3>2 DEF Coming, Busy
    <3>4. \A b \in Busy' : answer'[b] = None /\ (Relies(b)' => Since(sheet', least'[b]))
      <4>1. \A b \in Busy' : b \in Process /\ answer'[b] = answer[b]
        BY <1>3, <1>8 DEF Busy
      <4>2. \A b \in Process : b # p /\ Relies(b)' => Relies(b)
        BY <1>2, <1>3, <1>4, <1>5 DEF Relies, cache
      <4>3. p \in Busy' => Relies(p)
        BY <1>3, <1>8 DEF Busy, Relies, Emptied
      <4>. QED
        BY <1>2, <2>1, <4>1, <4>2, <4>3 DEF Given, cache
    <3>. QED
      BY <2>1, <3>3, <3>4, <1>2 DEF Given, Coming, Busy
<1>10. NeverStale'
  <2>1. CASE Search(p)
    <3>1. p \in Busy /\ (p \notin early => Since(sheet, least[p]))
      BY <2>1 DEF Search, Busy, Given, Relies
    <3>1a. answer[p] = None
      BY <3>1 DEF Given
    <3>2. answer'[p] \in {answer[p]} \cup {sheet[i].version : i \in DOMAIN sheet}
      BY <2>1 DEF Search, Hits, SheetTypeOK
    <3>3. least' = least
      BY <2>1 DEF Search, histories
    <3>. QED
      BY <1>3, <3>1, <3>1a, <3>2, <3>3 DEF NeverStale, Since
  <2>2. CASE ~Search(p)
    <3>1. answer' = answer
      BY <2>2 DEF Fail, Hang, EndOfFile, local
    <3>2. \A q \in Process : answer[q] # None => answer[q] >= 0
      BY DEF SheetTypeOK, Version
    <3>. QED
      BY <1>3, <3>1, <3>2 DEF NeverStale
  <2>. QED
    BY <2>1, <2>2
<1>. QED
  BY <1>1, <1>6, <1>7, <1>9, <1>10

LEMMA SheetInvariantNext == SheetInvariant /\ [SheetNext]_sheetVars => SheetInvariant'
<1> SUFFICES ASSUME SheetInvariant, [SheetNext]_sheetVars
             PROVE  SheetInvariant'
  OBVIOUS
<1>1. CASE UNCHANGED sheetVars
  BY <1>1 DEF sheetVars, cache, local, histories, SheetInvariant, SheetTypeOK, Placed, Past,
     Marked, Given, NeverStale, Coming, Emptied, Filling, Busy, Relies, Starting
<1>2. CASE Edit
  <2>1. SheetTypeOK' /\ Placed'
    BY TypeNext DEF SheetInvariant
  <2>2. Past'
    BY <1>2 DEF Edit, local, histories, SheetInvariant, Past, SheetTypeOK, Version
  <2>. QED
    BY <1>2, <2>1, <2>2 DEF Edit, cache, local, histories, SheetInvariant, Marked, Given,
       NeverStale, Coming, Emptied, Filling, Busy, Relies, Starting
<1>3. CASE Invalidate \/ Expire
  BY <1>3, MarkNext
<1>4. ASSUME NEW p \in Process, NEW id \in Device, Ask(p, id)
      PROVE  SheetInvariant'
  BY <1>4, AskNext
<1>5. ASSUME NEW p \in Process, LookUp(p)
      PROVE  SheetInvariant'
  BY <1>5, StartNext, FillNext, EndNext DEF LookUp
<1>. QED
  BY <1>1, <1>2, <1>3, <1>4, <1>5 DEF SheetNext

\* The variables of the cache have their types; in particular no row is appended that
\* was not read.
THEOREM SheetTypeCorrect == SheetSpec => []SheetTypeOK
  BY SheetInvariantInit, SheetInvariantNext, PTL DEF SheetSpec, SheetInvariant

\* Nobody who asks after the cache was called out of date is answered with what had
\* been replaced by then, unless a refill was under way at that time, or another had
\* reset the flag and not yet emptied the cache when it was looked at.
THEOREM NoStaleAnswer == SheetSpec => []NeverStale
  BY SheetInvariantInit, SheetInvariantNext, PTL DEF SheetSpec, SheetInvariant

-----------------------------------------------------------------------------
(* What the last process to empty the cache has read is in it.              *)

Has(n, v) == \E i \in DOMAIN sheet : sheet[i] = [device |-> Listed[n], version |-> v]

Partial ==
    filler # None /\ ~lost =>
        /\ pc[filler] \in {"fetch", "hung", "read", "append"}
        /\ pc[filler] = "read" => \A n \in 1 .. row[filler] : Has(n, version[filler])
        /\ pc[filler] = "append" => \A n \in 1 .. row[filler] - 1 : Has(n, version[filler])

FillInvariant == SheetInvariant /\ Partial /\ FilledIsComplete

\* An append that undoes no other one keeps what there is, and adds its row.
LEMMA AppendKeeps ==
    ASSUME SheetInvariant, NEW p \in Process, AppendRow(p), ~lost'
    PROVE  /\ \A n, v : Has(n, v) => Has(n, v)'
           /\ Has(row[p], version[p])'
<1> DEFINE r == [device |-> Listed[row[p]], version |-> version[p]]
<1>1. /\ sheet \in {base[p], <<>>}
      /\ sheet' = Append(base[p], r)
  BY DEF AppendRow
<1>2. base[p] \in Seq(Row)
  BY DEF SheetInvariant, SheetTypeOK
<1>3. /\ DOMAIN sheet' = 1 .. Len(base[p]) + 1
      /\ sheet'[Len(base[p]) + 1] = r
      /\ \A i \in DOMAIN base[p] : i \in DOMAIN sheet' /\ sheet'[i] = base[p][i]
  BY <1>1, <1>2
<1>4. Has(row[p], version[p])'
  <2>1. Len(base[p]) + 1 \in DOMAIN sheet'
    BY <1>2, <1>3
  <2>. QED
    BY <1>3, <2>1 DEF Has, AppendRow
<1>5. ASSUME NEW n, NEW v, Has(n, v)
      PROVE  Has(n, v)'
  <2>1. PICK i \in DOMAIN sheet : sheet[i] = [device |-> Listed[n], version |-> v]
    BY <1>5 DEF Has
  <2>2. sheet = base[p]
    BY <1>1, <2>1
  <2>. QED
    BY <1>3, <2>1, <2>2 DEF Has
<1>. QED
  BY <1>4, <1>5

LEMMA FillInvariantNext == FillInvariant /\ [SheetNext]_sheetVars => FillInvariant'
<1> SUFFICES ASSUME FillInvariant, [SheetNext]_sheetVars
             PROVE  Partial' /\ FilledIsComplete'
  BY SheetInvariantNext DEF FillInvariant
<1> USE DEF FillInvariant
<1>0. SheetTypeOK /\ Placed
  BY DEF SheetInvariant
<1>1. CASE UNCHANGED <<sheet, pc, row, version, filler, filled, lost>>
  BY <1>1 DEF Partial, FilledIsComplete, Has
<1>2. ASSUME NEW p \in Process, NEW id \in Device, Ask(p, id)
      PROVE  Partial' /\ FilledIsComplete'
  BY <1>0, <1>2 DEF Ask, Goto, cache, Partial, FilledIsComplete, Has, SheetTypeOK
<1>3. ASSUME NEW p \in Process, LookUp(p)
      PROVE  Partial' /\ FilledIsComplete'
  <2>1. CASE Clear(p)
    <3>1. /\ filler' = p /\ filled' = None /\ pc' = [pc EXCEPT ![p] = "fetch"]
      BY <2>1 DEF Clear, Cleared, Goto
    <3>. QED
      BY <1>0, <3>1 DEF Partial, FilledIsComplete, SheetTypeOK
  <2>1a. CASE SetFlag(p) \/ Check(p) \/ ResetFlag(p) \/ SetRetrieved(p)
    <3>1. UNCHANGED <<sheet, row, version, filler, filled, lost>>
      BY <2>1a DEF SetFlag, Check, ResetFlag, SetRetrieved, cache, local, histories
    <3>2. /\ \A q \in Process : q # p => pc'[q] = pc[q]
          /\ pc[p] \in {"flag", "check", "reset", "retrieve"}
      BY <1>0, <2>1a DEF SetFlag, Check, ResetFlag, SetRetrieved, Goto, SheetTypeOK
    <3>3. filler # None /\ ~lost => pc'[filler] = pc[filler]
      BY <1>0, <3>2 DEF Partial, SheetTypeOK
    <3>. QED
      BY <3>1, <3>3 DEF Partial, FilledIsComplete, Has
  <2>2. CASE Fetch(p)
    <3>1. /\ UNCHANGED <<sheet, filler, filled, lost>>
          /\ pc[p] = "fetch" /\ pc'[p] = "read" /\ row'[p] = 0
          /\ \A q \in Process : q # p => /\ pc'[q] = pc[q] /\ row'[q] = row[q]
                                        /\ version'[q] = version[q]
      BY <1>0, <2>2 DEF Fetch, Goto, cache, histories, SheetTypeOK
    <3>2. filler # None => filler \in Process
      BY <1>0 DEF SheetTypeOK
    <3>. QED
      BY <3>1, <3>2 DEF Partial, FilledIsComplete, Has
  <2>3. CASE Fail(p)
    <3>1. filler' # None => filler' = filler /\ filler # p
      BY <2>3 DEF Fail
    <3>2. \A q \in Process : q # p => /\ pc'[q] = pc[q] /\ row'[q] = row[q]
                                     /\ version'[q] = version[q]
      BY <1>0, <2>3 DEF Fail, Leave, Goto, SheetTypeOK
    <3>3. UNCHANGED <<sheet, filled, lost>>
      BY <2>3 DEF Fail, cache
    <3>4. FilledIsComplete'
      BY <3>3 DEF FilledIsComplete
    <3>5. CASE filler' = None
      BY <3>4, <3>5 DEF Partial
    <3>6. CASE filler' # None
      <4>1. /\ filler \in Process /\ filler' = filler /\ pc'[filler] = pc[filler]
            /\ row'[filler] = row[filler] /\ version'[filler] = version[filler]
        BY <1>0, <3>1, <3>2, <3>6 DEF SheetTypeOK
      <4>2. Partial'
        BY <3>3, <3>6, <4>1 DEF Partial, Has
      <4>. QED
        BY <3>4, <4>2
    <3>. QED
      BY <3>5, <3>6
  <2>3a. CASE Hang(p)
    BY <1>0, <2>3a DEF Hang, Goto, cache, local, histories, Partial, FilledIsComplete, Has,
       SheetTypeOK
  <2>3b. CASE Search(p)
    <3>1. UNCHANGED <<sheet, filler, filled, lost>> /\ pc[p] = "search"
      BY <2>3b DEF Search, cache, histories
    <3>2. \A q \in Process : q # p => /\ pc'[q] = pc[q] /\ row'[q] = row[q]
                                     /\ version'[q] = version[q]
      BY <1>0, <2>3b DEF Search, Leave, Goto, SheetTypeOK
    <3>3. filler # None /\ ~lost => filler # p /\ filler \in Process
      BY <1>0, <3>1 DEF Partial, SheetTypeOK
    <3>. QED
      BY <3>1, <3>2, <3>3 DEF Partial, FilledIsComplete, Has
  <2>4. CASE ReadRow(p)
    BY <1>0, <2>4 DEF ReadRow, Goto, cache, histories, Partial, FilledIsComplete, Has,
       SheetTypeOK
  <2>5. CASE AppendRow(p)
    <3>1. CASE lost'
      BY <3>1 DEF Partial, FilledIsComplete
    <3>2. CASE ~lost'
      <4>1. /\ ~lost /\ UNCHANGED <<row, version, filler, filled>>
            /\ pc[p] = "append" /\ pc' = [pc EXCEPT ![p] = "read"]
        BY <2>5, <3>2 DEF AppendRow, Goto
      <4>2. /\ \A n, v : Has(n, v) => Has(n, v)'
            /\ Has(row[p], version[p])'
        BY <2>5, <3>2, AppendKeeps
      <4>3. FilledIsComplete'
        BY <4>1, <4>2 DEF FilledIsComplete, Has
      <4>4. row[p] \in 1 .. Len(Listed)
        BY <1>0, <4>1 DEF Placed
      <4>5. Partial'
        BY <1>0, <4>1, <4>2, <4>4 DEF Partial, SheetTypeOK
      <4>. QED
        BY <4>3, <4>5
    <3>. QED
      BY <3>1, <3>2
  <2>6. CASE EndOfFile(p)
    <3>1. row[p] = Len(Listed) /\ pc[p] = "read" /\ UNCHANGED <<sheet, lost, row, version>>
      BY <2>6 DEF EndOfFile, cache, local
    <3>2. CASE filler = p
      <4>1. filled' = version[p] /\ filler' = None
        BY <2>6, <3>2 DEF EndOfFile
      <4>2. ~lost => \A n \in DOMAIN Listed : Has(n, version[p])
        BY <1>0, <3>1, <3>2, SheetAssumption DEF Partial, SheetTypeOK
      <4>. QED
        BY <3>1, <4>1, <4>2 DEF Partial, FilledIsComplete, Has
    <3>3. CASE filler # p
      <4>1. /\ UNCHANGED <<filler, filled>>
            /\ \A q \in Process : q # p => pc'[q] = pc[q]
        BY <1>0, <2>6, <3>3 DEF EndOfFile, Goto, SheetTypeOK
      <4>2. filler # None => filler \in Process
        BY <1>0 DEF SheetTypeOK
      <4>. QED
        BY <3>1, <3>3, <4>1, <4>2 DEF Partial, FilledIsComplete, Has
    <3>. QED
      BY <3>2, <3>3
  <2>. QED
    BY <1>3, <2>1, <2>1a, <2>2, <2>3, <2>3a, <2>3b, <2>4, <2>5, <2>6 DEF LookUp
<1>. QED
  BY <1>1, <1>2, <1>3 DEF SheetNext, Edit, Invalidate, Expire, OutOfDate, sheetVars, cache,
     local, histories

\* The last refill to begin is complete once it has read to the end, however many
\* others overlap it, as long as no two append at one moment.
THEOREM RefillIsComplete == SheetSpec => []FilledIsComplete
<1>1. SheetInit => FillInvariant
  BY SheetInvariantInit DEF SheetInit, FillInvariant, Partial, FilledIsComplete
<1>. QED
  BY <1>1, FillInvariantNext, PTL DEF SheetSpec, FillInvariant

-----------------------------------------------------------------------------
(* Those that process requests use the cache as SheetSpec says.             *)

Taken == next \in [Conn -> Nat] /\ request \in Requests

\* Every step of the reception is one of the cache, or leaves it alone; so what was
\* proved of the cache holds in the whole, too.
THEOREM ReceptionUsesSheet == Spec => SheetSpec
<1>1. Init => SheetInit /\ Taken
  BY DEF Init, Taken
<1>2. Taken /\ [Next]_vars => [SheetNext]_sheetVars /\ Taken'
  <2> SUFFICES ASSUME Taken, [Next]_vars
               PROVE  [SheetNext]_sheetVars /\ Taken'
    OBVIOUS
  <2>1. CASE UNCHANGED vars
    BY <2>1 DEF vars, tcp, Taken
  <2>2. CASE Environment
    BY <2>2 DEF Environment, Connect, Send, tcp, Taken, SheetNext
  <2>3. CASE TCPInboundHandler
    BY <2>3 DEF TCPInboundHandler, Accept, Read, ReadFails, Ignore, RefuseNone, Push, Close,
       Taken
  <2>4. ASSUME NEW c \in Conn, AppReqProcess(c)
        PROVE  SheetNext /\ Taken'
    <3>1. request[c].messages \in Seq(Device)
      BY ReceptionAssumption DEF Request, Taken
    <3>2. request[c].messages[next[c] + 1] \in Device
      BY <2>4, <3>1 DEF AppReqProcess, Taken
    <3>. QED
      BY <2>4, <3>2 DEF AppReqProcess, SheetNext, Taken, Conn
  <2>5. ASSUME NEW c \in Conn, SheetDeviceInfo(c)
        PROVE  SheetNext /\ Taken'
    BY <2>5 DEF SheetDeviceInfo, SheetNext, Conn, tcp, Taken
  <2>. QED
    BY <2>1, <2>2, <2>3, <2>4, <2>5 DEF Next
<1>. QED
  BY <1>1, <1>2, PTL DEF Spec, SheetSpec

-----------------------------------------------------------------------------
(* The safety half of EveryConnectionEnds: no connection gets lost between    *)
(* the backlog and the loop, and what becomes of it is up to its request.     *)

IntakeType ==
    /\ request \in Requests
    /\ state \in [Conn -> {"away", "open", "closed"}]
    /\ sent \in [Conn -> 0 .. Parts]
    /\ backlog \in Seq(Conn)
    /\ loop \in Conn \cup {Nobody}
    /\ got \in 0 .. Parts
    /\ received \subseteq Conn
    /\ next \in [Conn -> Nat]

Waits(c) == \E i \in DOMAIN backlog : backlog[i] = c

\* An open connection is in the backlog, once, or with the loop.
QueueInv ==
    /\ \A c \in Conn : state[c] = "open" <=> c = loop \/ Waits(c)
    /\ \A i \in DOMAIN backlog : backlog[i] # loop
    /\ \A i, j \in DOMAIN backlog : backlog[i] = backlog[j] => i = j

\* No more is read than was sent, and no more sent than the client wants to.
ReadInv ==
    /\ \A c \in Conn : sent[c] <= request[c].stops
    /\ loop # Nobody => got <= sent[loop]

\* A connection that was closed is processed if and only if its request was whole, and
\* of those that are not nothing is taken.
ClosedInv ==
    /\ \A c \in received : state[c] = "closed"
    /\ \A c \in Conn : state[c] = "closed" => (c \in received <=> Whole(c))
    /\ \A c \in Conn : /\ next[c] <= Len(request[c].messages)
                       /\ c \notin received => next[c] = 0

IntakeInv == IntakeType /\ QueueInv /\ ReadInv /\ ClosedInv

LEMMA RequestFacts ==
    ASSUME request \in Requests, NEW c \in Conn
    PROVE  /\ request[c].array \in BOOLEAN /\ request[c].messages \in Seq(Device)
           /\ request[c].stops \in 0 .. Parts /\ Len(request[c].messages) \in Nat
<1>1. request[c] \in Request
  BY ReceptionAssumption
<1>2. QED
  BY <1>1 DEF Request

LEMMA IntakeInit == Init => IntakeInv
<1> SUFFICES ASSUME Init PROVE IntakeInv
  OBVIOUS
<1>1. IntakeType
  BY DEF Init, IntakeType, Parts
<1>2. backlog = <<>> /\ loop = Nobody /\ received = {} /\ DOMAIN backlog = {}
  BY DEF Init
<1>3. \A c \in Conn : state[c] = "away" /\ sent[c] = 0 /\ next[c] = 0 /\ c # Nobody
  BY ReceptionAssumption DEF Init
<1>4. QueueInv
  BY <1>2, <1>3 DEF QueueInv, Waits
<1>5. ReadInv
  BY <1>1, <1>2, <1>3, RequestFacts DEF ReadInv, IntakeType, Parts
<1>6. ClosedInv
  BY <1>1, <1>2, <1>3, RequestFacts DEF ClosedInv, IntakeType
<1>7. QED
  BY <1>1, <1>4, <1>5, <1>6 DEF IntakeInv

\* A client connects.
LEMMA ConnectKeeps ==
    ASSUME IntakeInv, NEW c \in Conn, Connect(c)
    PROVE  IntakeInv'
<1> USE DEF IntakeInv
<1>1. /\ state \in [Conn -> {"away", "open", "closed"}] /\ backlog \in Seq(Conn)
      /\ state' = [state EXCEPT ![c] = "open"] /\ backlog' = Append(backlog, c)
      /\ state[c] = "away"
      /\ UNCHANGED <<request, sent, loop, got, received, next>>
  BY DEF Connect, IntakeType
<1>2. PICK n \in Nat : n = Len(backlog)
  BY <1>1
<1>3. /\ DOMAIN backlog = 1 .. n /\ DOMAIN backlog' = 1 .. n + 1 /\ backlog'[n + 1] = c
      /\ \A i \in 1 .. n : backlog'[i] = backlog[i] /\ i \in 1 .. n + 1
      /\ \A i \in 1 .. n + 1 : i \in 1 .. n \/ i = n + 1
      /\ n + 1 \in 1 .. n + 1
  BY <1>1, <1>2
<1>4. ~Waits(c) /\ c # loop
  BY <1>1 DEF QueueInv
<1>5. \A d \in Conn : Waits(d)' <=> Waits(d) \/ d = c
  BY <1>3 DEF Waits
<1>6. QueueInv'
  <2>1. \A d \in Conn : state'[d] = "open" <=> d = loop' \/ Waits(d)'
    BY <1>1, <1>5 DEF QueueInv
  <2>2. \A i \in DOMAIN backlog' : backlog'[i] # loop'
    BY <1>1, <1>3, <1>4 DEF QueueInv
  <2>3. \A i, j \in DOMAIN backlog' : backlog'[i] = backlog'[j] => i = j
    BY <1>3, <1>4 DEF QueueInv, Waits
  <2>4. QED
    BY <2>1, <2>2, <2>3 DEF QueueInv
<1>7. IntakeType'
  BY <1>1 DEF IntakeType
<1>8. ReadInv'
  BY <1>1 DEF ReadInv
<1>9. ClosedInv'
  BY <1>1 DEF ClosedInv, Whole, IntakeType
<1>10. QED
  BY <1>6, <1>7, <1>8, <1>9

\* The loop takes the first of the backlog.
LEMMA AcceptKeeps ==
    ASSUME IntakeInv, Accept
    PROVE  IntakeInv'
<1> USE DEF IntakeInv
<1>1. /\ backlog \in Seq(Conn) /\ backlog # <<>> /\ loop = Nobody
      /\ loop' = Head(backlog) /\ backlog' = Tail(backlog) /\ got' = 0
      /\ UNCHANGED <<request, state, sent, received, next>>
  BY DEF Accept, IntakeType
<1>2. PICK n \in Nat \ {0} : n = Len(backlog)
  BY <1>1
<1>3. /\ DOMAIN backlog = 1 .. n /\ DOMAIN backlog' = 1 .. n - 1 /\ loop' = backlog[1]
      /\ \A i \in 1 .. n - 1 : backlog'[i] = backlog[i + 1] /\ i + 1 \in 1 .. n /\ i + 1 # 1
      /\ 1 \in 1 .. n
  BY <1>1, <1>2
<1>4. \A i \in 1 .. n : i = 1 \/ i - 1 \in 1 .. n - 1
  BY <1>2
<1>5. \A i \in 1 .. n : i # 1 => backlog'[i - 1] = backlog[i]
  <2> SUFFICES ASSUME NEW i \in 1 .. n, i # 1 PROVE backlog'[i - 1] = backlog[i]
    OBVIOUS
  <2>1. i - 1 \in 1 .. n - 1 /\ (i - 1) + 1 = i
    BY <1>2, <1>4
  <2>2. QED
    BY <1>3, <2>1
<1>6. \A d \in Conn : Waits(d) <=> Waits(d)' \/ d = loop'
  BY <1>3, <1>4, <1>5 DEF Waits
<1>7. loop' \in Conn /\ \A d \in Conn : d # Nobody
  BY <1>1, <1>3, ReceptionAssumption
<1>8. QueueInv'
  <2>1. \A d \in Conn : state'[d] = "open" <=> d = loop' \/ Waits(d)'
    BY <1>1, <1>6, <1>7 DEF QueueInv
  <2>2. \A i \in DOMAIN backlog' : backlog'[i] # loop'
    BY <1>3 DEF QueueInv
  <2>3. \A i, j \in DOMAIN backlog' : backlog'[i] = backlog'[j] => i = j
    <3> SUFFICES ASSUME NEW i \in 1 .. n - 1, NEW j \in 1 .. n - 1, backlog'[i] = backlog'[j]
                 PROVE  i = j
      BY <1>3
    <3>1. i + 1 = j + 1
      BY <1>3 DEF QueueInv
    <3>2. QED
      BY <1>2, <3>1
  <2>4. QED
    BY <2>1, <2>2, <2>3 DEF QueueInv
<1>9. IntakeType'
  <2>1. backlog' \in Seq(Conn)
    BY <1>1
  <2>2. QED
    BY <1>1, <1>7, <2>1 DEF IntakeType, Parts
<1>10. ReadInv'
  <2>1. sent[loop'] \in 0 .. Parts /\ sent' = sent /\ request' = request
    BY <1>1, <1>7 DEF IntakeType
  <2>2. got' <= sent'[loop']
    BY <1>1, <2>1
  <2>3. QED
    BY <2>1, <2>2 DEF ReadInv
<1>11. ClosedInv'
  BY <1>1 DEF ClosedInv, Whole
<1>12. QED
  BY <1>8, <1>9, <1>10, <1>11

\* The loop is done with a connection, and passes it on if its request was whole.
LEMMA CloseKeeps ==
    ASSUME IntakeInv, NEW c \in Conn, loop = c, Close(c),
           received' = IF Whole(c) THEN received \cup {c} ELSE received
    PROVE  IntakeInv'
<1> USE DEF IntakeInv
<1>1. /\ state \in [Conn -> {"away", "open", "closed"}] /\ received \subseteq Conn
      /\ state' = [state EXCEPT ![c] = "closed"] /\ loop' = Nobody /\ got' = 0
      /\ UNCHANGED <<request, sent, backlog, next>>
  BY DEF Close, IntakeType
<1>2. \A d \in Conn : d # Nobody
  BY ReceptionAssumption
<1>3. state[c] = "open" /\ ~Waits(c) /\ c \notin received
  <2>1. state[c] = "open" /\ ~Waits(c)
    BY DEF QueueInv, Waits
  <2>2. QED
    BY <2>1 DEF ClosedInv
<1>4. QueueInv'
  <2>1. \A d \in Conn : Waits(d)' <=> Waits(d)
    BY <1>1 DEF Waits
  <2>2. \A d \in Conn : state'[d] = "open" <=> d = loop' \/ Waits(d)'
    BY <1>1, <1>2, <1>3, <2>1 DEF QueueInv
  <2>3. \A i \in DOMAIN backlog' : backlog'[i] # loop'
    BY <1>1, <1>2 DEF IntakeType
  <2>4. QED
    BY <1>1, <2>2, <2>3 DEF QueueInv
<1>5. IntakeType'
  BY <1>1 DEF IntakeType, Parts
<1>6. ReadInv'
  BY <1>1 DEF ReadInv
<1>7. ClosedInv'
  <2>1. \A d \in Conn : Whole(d)' <=> Whole(d)
    BY <1>1 DEF Whole
  <2>2. \A d \in received' : state'[d] = "closed"
    BY <1>1 DEF ClosedInv
  <2>3. \A d \in Conn : state'[d] = "closed" => (d \in received' <=> Whole(d)')
    BY <1>1, <1>3, <2>1 DEF ClosedInv
  <2>4. QED
    BY <1>1, <2>2, <2>3 DEF ClosedInv
<1>8. QED
  BY <1>4, <1>5, <1>6, <1>7

\* Why the loop closes a connection.
LEMMA LoopKeeps ==
    ASSUME IntakeInv, NEW c \in Conn,
           Read(c) \/ ReadFails(c) \/ Ignore(c) \/ RefuseNone(c) \/ Push(c)
    PROVE  IntakeInv'
<1>1. /\ IntakeType /\ got \in 0 .. Parts /\ sent[c] \in 0 .. Parts /\ c # Nobody
      /\ request[c].stops \in 0 .. Parts /\ sent[c] <= request[c].stops
      /\ loop = c => got <= sent[c]
  BY RequestFacts, ReceptionAssumption DEF IntakeInv, IntakeType, ReadInv
<1>2. CASE Read(c)
  <2>1. got' = got + 1 /\ loop = c /\ got < sent[c]
        /\ UNCHANGED <<request, state, sent, backlog, loop, received, next>>
    BY <1>2 DEF Read
  <2>2. got' \in 0 .. Parts /\ got' <= sent[c]
    BY <1>1, <2>1 DEF Parts
  <2>3. IntakeType'
    BY <2>1, <2>2 DEF IntakeInv, IntakeType
  <2>4. QueueInv'
    BY <2>1 DEF IntakeInv, QueueInv, Waits
  <2>5. ReadInv'
    BY <2>1, <2>2 DEF IntakeInv, ReadInv
  <2>6. ClosedInv'
    BY <2>1 DEF IntakeInv, ClosedInv, Whole
  <2>7. QED
    BY <2>3, <2>4, <2>5, <2>6 DEF IntakeInv
<1>3. CASE ReadFails(c) \/ Ignore(c) \/ RefuseNone(c)
  <2>1. loop = c /\ Close(c) /\ received' = received
    BY <1>3 DEF ReadFails, Ignore, RefuseNone
  <2>2. ~Whole(c)
    BY <1>1, <1>3 DEF Whole, ReadFails, Ignore, RefuseNone, AtEnd, Parts
  <2>3. QED
    BY <2>1, <2>2, CloseKeeps
<1>4. CASE Push(c)
  <2>1. loop = c /\ Close(c) /\ received' = received \cup {c} /\ got = Parts /\ Acceptable(c)
    BY <1>4 DEF Push
  <2>2. request[c].stops = Parts
    BY <1>1, <2>1 DEF Parts
  <2>3. Whole(c)
    BY <2>1, <2>2 DEF Whole, Acceptable, Parts
  <2>4. QED
    BY <2>1, <2>3, CloseKeeps
<1>5. QED
  BY <1>2, <1>3, <1>4

LEMMA IntakeNext == IntakeInv /\ [Next]_vars => IntakeInv'
<1> SUFFICES ASSUME IntakeInv, [Next]_vars PROVE IntakeInv'
  OBVIOUS
<1>1. ASSUME UNCHANGED tcp PROVE IntakeInv'
  <2>1. UNCHANGED <<request, state, sent, backlog, loop, got, received, next>>
    BY <1>1 DEF tcp
  <2>2. IntakeType' /\ QueueInv'
    BY <2>1 DEF IntakeInv, IntakeType, QueueInv, Waits
  <2>3. ReadInv' /\ ClosedInv'
    BY <2>1 DEF IntakeInv, ReadInv, ClosedInv, Whole
  <2>4. QED
    BY <2>2, <2>3 DEF IntakeInv
<1>2. ASSUME NEW c \in Conn, Send(c) PROVE IntakeInv'
  <2>1. /\ sent \in [Conn -> 0 .. Parts] /\ sent[c] < request[c].stops
        /\ sent' = [sent EXCEPT ![c] = sent[c] + 1]
        /\ UNCHANGED <<request, state, backlog, loop, got, received, next>>
        /\ request[c].stops \in 0 .. Parts
    BY <1>2, RequestFacts DEF Send, IntakeInv, IntakeType
  <2>2. sent[c] + 1 \in 0 .. Parts /\ sent[c] + 1 <= request[c].stops /\ sent[c] \in 0 .. Parts
    BY <2>1 DEF Parts
  <2>3. IntakeType'
    BY <2>1, <2>2 DEF IntakeInv, IntakeType
  <2>4. QueueInv' /\ ClosedInv'
    BY <2>1 DEF IntakeInv, QueueInv, Waits, ClosedInv, Whole
  <2>5. ReadInv'
    <3>1. \A d \in Conn : sent'[d] <= request[d].stops
      BY <2>1, <2>2 DEF IntakeInv, ReadInv
    <3>2. \A d \in Conn : sent[d] \in 0 .. Parts /\ (d # c => sent'[d] = sent[d])
      BY <2>1
    <3>3. ASSUME loop # Nobody PROVE got <= sent'[loop]
      <4>1. loop \in Conn /\ got \in 0 .. Parts /\ got <= sent[loop]
        BY <3>3 DEF IntakeInv, IntakeType, ReadInv
      <4>2. CASE loop = c
        BY <2>1, <2>2, <4>1, <4>2 DEF Parts
      <4>3. CASE loop # c
        BY <3>2, <4>1, <4>3
      <4>4. QED
        BY <4>2, <4>3
    <3>4. QED
      BY <2>1, <3>1, <3>3 DEF ReadInv
  <2>6. QED
    BY <2>3, <2>4, <2>5 DEF IntakeInv
<1>3. ASSUME NEW c \in Conn, AppReqProcess(c) PROVE IntakeInv'
  <2>1. /\ c \in received /\ next[c] < Len(request[c].messages)
        /\ next \in [Conn -> Nat] /\ next' = [next EXCEPT ![c] = next[c] + 1]
        /\ UNCHANGED <<request, state, sent, backlog, loop, got, received>>
        /\ Len(request[c].messages) \in Nat
    BY <1>3, RequestFacts DEF AppReqProcess, IntakeInv, IntakeType
  <2>2. next[c] \in Nat /\ next[c] + 1 <= Len(request[c].messages)
    BY <2>1
  <2>3. IntakeType' /\ QueueInv' /\ ReadInv'
    BY <2>1, <2>2 DEF IntakeInv, IntakeType, QueueInv, Waits, ReadInv
  <2>4. \A d \in Conn : /\ next'[d] <= Len(request[d].messages)
                        /\ d \notin received => next'[d] = 0
    BY <2>1, <2>2 DEF IntakeInv, ClosedInv
  <2>5. ClosedInv'
    BY <2>1, <2>4 DEF IntakeInv, ClosedInv, Whole
  <2>6. QED
    BY <2>3, <2>5 DEF IntakeInv
<1>4. CASE UNCHANGED vars
  BY <1>1, <1>4 DEF vars, tcp
<1>5. CASE Environment
  BY <1>1, <1>2, <1>5, ConnectKeeps DEF Environment
<1>6. CASE TCPInboundHandler
  BY <1>6, AcceptKeeps, LoopKeeps DEF TCPInboundHandler
<1>7. ASSUME NEW c \in Conn, SheetDeviceInfo(c) PROVE IntakeInv'
  BY <1>1, <1>7 DEF SheetDeviceInfo
<1>8. QED
  BY <1>3, <1>4, <1>5, <1>6, <1>7 DEF Next

LEMMA IntakeInvariant == Spec => []IntakeInv
  BY IntakeInit, IntakeNext, PTL DEF Spec

\* The loop, the clients and the goroutines keep their types.
THEOREM ReceptionTypeCorrect == Spec => []ReceptionTypeOK
<1>1. IntakeInv /\ SheetTypeOK => ReceptionTypeOK
  BY DEF IntakeInv, IntakeType, ReceptionTypeOK
<1>2. QED
  BY <1>1, IntakeInvariant, ReceptionUsesSheet, SheetTypeCorrect, PTL

\* A connection that a client has opened and that the loop has not closed is waiting in
\* the backlog, at one place, or is the one being read.
THEOREM NoConnectionIsLost == Spec => []QueueInv
  BY IntakeInvariant, PTL DEF IntakeInv

\* A request is passed on once its connection is closed, if and only if it was whole: not
\* what breaks off, whatever its format, and however many clients there are.
THEOREM WholeRequestsOnly == Spec => []ClosedInv
  BY IntakeInvariant, PTL DEF IntakeInv
=============================================================================
