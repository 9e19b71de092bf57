---------------------------- MODULE UploadsProofs ----------------------------
(***************************************************************************)
(* What is proved of the transactions of uploads, for any number of them   *)
(* and any size of the ring: types, that no error is forgotten, that a     *)
(* report quotes the first of them, and what the alarm of a slow service   *)
(* means.                                                                  *)
(***************************************************************************)
EXTENDS Uploads, TLAPS

\* The slot of an upload that is open holds the begin of one.
Begun == \A u \in Upload : pc[u] = "open" => began[slot[u]] \in Upload

\* What is owed is still counted, and nothing is between a report and its reset.
Owed == owed => httpTransactionErrors > 0 /\ report # "errors"

\* The slot that is looked at is one, and who does not look has no minimum yet.
Indexed ==
    \A u \in Upload : /\ pc[u] \in {"test", "least"} => theCount[u] < Recorded
                      /\ ~Looking(u) => theMin[u] = Endless

UploadInvariant == TypeOK /\ Begun /\ Owed /\ Indexed

LEMMA SlotInRing ==
    ASSUME NEW n \in Nat
    PROVE  n % Recorded \in Slot
  BY UploadsAssumption DEF Slot

LEMMA NextInRing ==
    ASSUME NEW n \in Nat, n < Recorded
    PROVE  n \in Slot /\ n + 1 \in 0 .. Recorded
  BY UploadsAssumption DEF Slot

LEMMA InvariantInit == Init => UploadInvariant
<1> SUFFICES ASSUME Init
             PROVE  UploadInvariant
  OBVIOUS
<1>1. 0 \in Slot /\ 0 \in Ticks /\ 0 \in 0 .. Recorded /\ Endless \in 0 .. Endless
  BY UploadsAssumption DEF Slot, Ticks, Endless
<1>. QED
  BY <1>1 DEF Init, UploadInvariant, TypeOK, Begun, Owed, Indexed, Looking

\* The variables keep their types, and an open slot the begin of an upload.
LEMMA TypesNext == UploadInvariant /\ [Next]_vars => (TypeOK /\ Begun /\ Owed)'
<1> SUFFICES ASSUME TypeOK, Begun, Owed, Indexed, [Next]_vars
             PROVE  (TypeOK /\ Begun /\ Owed)'
  BY DEF UploadInvariant
<1> USE UploadsAssumption DEF TypeOK, Begun, Owed, scan
<1>0. \A d \in Ticks : d \in 0 .. Endless
  BY DEF Ticks, Endless
<1>1. CASE Tick /\ UNCHANGED trouble
  <2>1. \A u \in Upload : Older(u) \in Ticks
    BY DEF Older, Ticks
  <2>2. age' \in [Upload -> Ticks]
    BY <1>1, <2>1 DEF Tick
  <2>. QED
    BY <1>1, <2>2 DEF Tick, errors
<1>2. CASE SendErrors /\ UNCHANGED trouble
  <2>1. CASE Report
    BY <1>2, <2>1 DEF Report, ring
  <2>2. CASE ResetErrors
    BY <1>2, <2>2 DEF ResetErrors, ring
  <2>3. CASE ResetFirst
    BY <1>2, <2>3 DEF ResetFirst, ring
  <2>. QED
    BY <1>2, <2>1, <2>2, <2>3 DEF SendErrors
<1>3. ASSUME NEW u \in Upload, Begin(u), UNCHANGED trouble
      PROVE  (TypeOK /\ Begun /\ Owed)'
  <2>1. CASE CountTransaction(u)
    BY <1>3, <2>1 DEF CountTransaction, Goto, ring, errors
  <2>2. CASE StoreCount(u)
    BY <1>3, <2>2 DEF StoreCount, Goto, errors
  <2>3. CASE TakeSlot(u)
    <3>1. httpTransactions % Recorded \in Slot
      BY SlotInRing
    <3>. QED
      BY <1>3, <2>3, <3>1 DEF TakeSlot, Goto, errors
  <2>. QED
    BY <1>3, <2>1, <2>2, <2>3 DEF Begin
<1>4. ASSUME NEW u \in Upload, End(u), UNCHANGED trouble
      PROVE  (TypeOK /\ Begun /\ Owed)'
  <2>0. ASSUME Record(u)
        PROVE  /\ slowAt' \in [Upload -> SUBSET Slot] /\ quickAt' \in [Upload -> SUBSET Slot]
               /\ torn' \subseteq Upload
    BY <2>0 DEF Record, Note
  <2>1. CASE Succeed(u)
    BY <1>4, <2>0, <2>1 DEF Succeed, Record, Goto, errors
  <2>2. CASE Fail(u)
    BY <1>4, <2>0, <2>2 DEF Fail, Record, Goto
  <2>3. CASE CountError(u)
    BY <1>4, <2>3 DEF CountError, Goto, ring
  <2>4. CASE TestFirst(u)
    <3>1. PICK label : /\ label \in {"first", "detail", "string", "scan"}
                       /\ pc[u] # "open" /\ pc' = [pc EXCEPT ![u] = label]
      BY <2>4 DEF TestFirst, Goto
    <3>2. /\ pc' \in [Upload -> {"idle", "counted", "stored", "open", "failed", "first",
                                "detail", "string", "scan", "more", "test", "least",
                                "done", "told"}]
          /\ \A v \in Upload : pc'[v] = "open" => pc[v] = "open"
      BY <3>1
    <3>3. Begun'
      BY <2>4, <3>2 DEF TestFirst, ring
    <3>4. Owed'
      BY <2>4 DEF TestFirst, errors
    <3>5. TypeOK'
      BY <1>4, <2>4, <3>2 DEF TestFirst, ring, errors
    <3>. QED
      BY <3>3, <3>4, <3>5
  <2>5. CASE NoteURL(u)
    <3>1. PICK label : /\ label \in {"first", "detail", "string", "scan"}
                       /\ pc[u] # "open" /\ pc' = [pc EXCEPT ![u] = label]
      BY <2>5 DEF NoteURL, Goto
    <3>2. /\ pc' \in [Upload -> {"idle", "counted", "stored", "open", "failed", "first",
                                "detail", "string", "scan", "more", "test", "least",
                                "done", "told"}]
          /\ \A v \in Upload : pc'[v] = "open" => pc[v] = "open"
      BY <3>1
    <3>3. Begun'
      BY <2>5, <3>2 DEF NoteURL, ring
    <3>4. Owed'
      BY <2>5 DEF NoteURL, errors
    <3>5. TypeOK'
      BY <1>4, <2>5, <3>2 DEF NoteURL, ring, errors
    <3>. QED
      BY <3>3, <3>4, <3>5
  <2>6. CASE NoteString(u)
    <3>1. PICK label : /\ label \in {"first", "detail", "string", "scan"}
                       /\ pc[u] # "open" /\ pc' = [pc EXCEPT ![u] = label]
      BY <2>6 DEF NoteString, Goto
    <3>2. /\ pc' \in [Upload -> {"idle", "counted", "stored", "open", "failed", "first",
                                "detail", "string", "scan", "more", "test", "least",
                                "done", "told"}]
          /\ \A v \in Upload : pc'[v] = "open" => pc[v] = "open"
      BY <3>1
    <3>3. Begun'
      BY <2>6, <3>2 DEF NoteString, ring
    <3>4. Owed'
      BY <2>6 DEF NoteString, errors
    <3>5. TypeOK'
      BY <1>4, <2>6, <3>2 DEF NoteString, ring, errors
    <3>. QED
      BY <3>3, <3>4, <3>5
  <2>7. CASE StartScan(u)
    <3>1. 0 \in Slot
      BY DEF Slot
    <3>2. slot' \in [Upload -> Slot] /\ theCount' \in [Upload -> 0 .. Recorded]
      BY <2>7, <3>1 DEF StartScan, StartAt
    <3>3. slowAt' \in [Upload -> SUBSET Slot] /\ quickAt' \in [Upload -> SUBSET Slot]
      BY <2>7 DEF StartScan, StartAt
    <3>4. PICK label \in {"more", "done"} : pc[u] = "scan" /\ pc' = [pc EXCEPT ![u] = label]
      BY <2>7 DEF StartScan, StartAt, Goto
    <3>. QED
      BY <1>4, <2>7, <3>2, <3>3, <3>4 DEF StartScan, StartAt, errors
  <2>8. CASE Continue(u)
    BY <1>4, <2>8 DEF Continue, More, Goto, ring, errors
  <2>9. CASE TestLess(u)
    BY <1>4, <2>9 DEF TestLess, Goto, ring, errors
  <2>10. CASE TestNotLess(u) \/ SetMin(u)
    <3>0. theCount[u] \in Nat /\ theCount[u] < Recorded
      BY <2>10 DEF TestNotLess, SetMin, Indexed
    <3>3. theCount[u] \in Slot /\ theCount[u] + 1 \in 0 .. Recorded
      BY <3>0, NextInRing
    <3>4. theCount' = [theCount EXCEPT ![u] = theCount[u] + 1]
      BY <2>10 DEF TestNotLess, SetMin, NextSlot
    <3>1. theCount' \in [Upload -> 0 .. Recorded] /\ theCount[u] \in Slot
      BY <3>3, <3>4
    <3>2. theMin' \in [Upload -> 0 .. Endless]
      BY <1>0, <2>10, <3>1 DEF TestNotLess, SetMin
    <3>. QED
      BY <1>4, <2>10, <3>1, <3>2 DEF TestNotLess, SetMin, NextSlot, Goto, errors
  <2>11. CASE Finish(u)
    <3>1. 0 \in 0 .. Recorded /\ Endless \in 0 .. Endless
      BY DEF Endless
    <3>2. PICK label \in {"told", "done"} : pc' = [pc EXCEPT ![u] = label]
      BY <2>11 DEF Finish, Goto
    <3>. QED
      BY <1>4, <2>11, <3>1, <3>2 DEF Finish, errors
  <2>. QED
    BY <1>4, <2>1, <2>2, <2>3, <2>4, <2>5, <2>6, <2>7, <2>8, <2>9, <2>10, <2>11 DEF End, Scan
<1>5. CASE UNCHANGED vars
  BY <1>5 DEF vars, ring, errors
<1>. QED
  BY <1>1, <1>2, <1>3, <1>4, <1>5 DEF Next

\* The slot that is looked at stays in the ring.
LEMMA IndexedNext == UploadInvariant /\ [Next]_vars => Indexed'
<1> SUFFICES ASSUME TypeOK, Indexed, [Next]_vars
             PROVE  Indexed'
  BY DEF UploadInvariant
<1>t. /\ pc \in [Upload -> {"idle", "counted", "stored", "open", "failed", "first", "detail",
                            "string", "scan", "more", "test", "least", "done", "told"}]
      /\ theCount \in [Upload -> 0 .. Recorded] /\ theMin \in [Upload -> 0 .. Endless]
  BY DEF TypeOK
<1> USE DEF Indexed, Looking
<1>1. CASE Tick \/ SendErrors \/ UNCHANGED vars
  BY <1>1 DEF Tick, SendErrors, Report, ResetErrors, ResetFirst, vars, ring, scan
<1>2. ASSUME NEW u \in Upload, Begin(u) \/ End(u), ~Scan(u)
      PROVE  Indexed'
  <2>1. UNCHANGED <<theCount, theMin>>
    BY <1>2 DEF Begin, CountTransaction, StoreCount, TakeSlot, End, Succeed, Fail, Record,
                CountError, TestFirst, NoteURL, NoteString, ring, scan
  <2>2. \E label \in {"counted", "stored", "open", "failed", "first", "detail", "string",
                      "scan"} :
            pc' = [pc EXCEPT ![u] = label] /\ ~Looking(u)
    BY <1>2 DEF Begin, CountTransaction, StoreCount, TakeSlot, End, Succeed, Fail, Record,
                CountError, TestFirst, NoteURL, NoteString, Goto
  <2>. QED
    BY <1>t, <2>1, <2>2
<1>3. ASSUME NEW u \in Upload, StartScan(u)
      PROVE  Indexed'
  BY <1>3, <1>t DEF StartScan, StartAt, Goto
<1>4. ASSUME NEW u \in Upload, Continue(u) \/ TestLess(u)
      PROVE  Indexed'
  BY <1>4, <1>t DEF Continue, TestLess, More, Goto, ring, scan
<1>5. ASSUME NEW u \in Upload, TestNotLess(u) \/ SetMin(u)
      PROVE  Indexed'
  BY <1>5, <1>t DEF TestNotLess, SetMin, NextSlot, Goto
<1>6. ASSUME NEW u \in Upload, Finish(u)
      PROVE  Indexed'
  BY <1>6, <1>t DEF Finish, Goto
<1>. QED
  BY <1>1, <1>2, <1>3, <1>4, <1>5, <1>6 DEF Next, Begin, End, Scan

LEMMA InvariantNext == UploadInvariant /\ [Next]_vars => UploadInvariant'
  BY TypesNext, IndexedNext DEF UploadInvariant

\* The variables have their types, in particular every slot that is written lies in
\* the ring, and an upload ends with the begin of one: an index of
\* httpTransactionTimes that beginTransaction returned.
THEOREM TypeCorrect == Spec => []TypeOK
  BY InvariantInit, InvariantNext, PTL DEF Spec, UploadInvariant

\* However many uploads fail, and whatever increments they lose to each other, an
\* error counted outside a report and its reset keeps the next report due.
THEOREM ErrorsKept == Spec => []ErrorsAreNotForgotten
<1>1. UploadInvariant => ErrorsAreNotForgotten
  BY DEF UploadInvariant, Owed, ErrorsAreNotForgotten
<1>. QED
  BY InvariantInit, InvariantNext, <1>1, PTL DEF Spec

-----------------------------------------------------------------------------
(* The details of the first error.                                          *)
Told ==
    /\ errorURL = first /\ errorString = first /\ ~httpTransactionErrorFirst
    /\ \A u \in Failing : pc[u] \in {"failed", "first"}

BeingTold ==
    /\ httpTransactionErrorFirst
    /\ \E u \in Failing : /\ u = first /\ pc[u] # "failed"
                          /\ pc[u] = "string" => errorURL = u

\* Between reports one upload fails after the other, and the first to be counted is
\* the one whose details are noted.  What is raced may break this; what reports make
\* up for is that no upload fails during one that is quiet.
Details ==
    /\ ~raced /\ report = "wait" =>
          /\ \A u, v \in Failing : u = v
          /\ first = Nobody => /\ httpTransactionErrors = 0 /\ httpTransactionErrorFirst
                               /\ \A u \in Failing : pc[u] = "failed"
          /\ first # Nobody => Told \/ BeingTold
    /\ quiet /\ report # "wait" => Failing = {}
    /\ quiet /\ report = "first" => httpTransactionErrors = 0 /\ first = Nobody

\* Nothing fails in the beginning.
LEMMA DetailsInit == Init => Details
  BY DEF Init, Details, Failing

\* An upload that fails is counted, and noted if it is the first.
LEMMA DetailsNext == UploadInvariant /\ Details /\ [Next]_vars => Details'
<1> SUFFICES ASSUME UploadInvariant, Details, [Next]_vars
             PROVE  Details'
  OBVIOUS
<1>t. /\ pc \in [Upload -> {"idle", "counted", "stored", "open", "failed", "first", "detail",
                            "string", "scan", "more", "test", "least", "done", "told"}]
      /\ count \in [Upload -> Nat] /\ Nobody \notin Upload
      /\ report \in {"wait", "errors", "first"}
      /\ raced \in BOOLEAN /\ quiet \in BOOLEAN /\ httpTransactionErrorFirst \in BOOLEAN
  BY UploadsAssumption DEF UploadInvariant, TypeOK
\* A step that neither fails nor tells anything.
<1>s. ASSUME UNCHANGED <<errors, report>>, Failing' = Failing, \A u \in Failing : pc'[u] = pc[u]
      PROVE  Details'
  BY <1>s DEF Details, Told, BeingTold, errors
<1>1. CASE Tick
  BY <1>1, <1>s DEF Tick, Failing, errors
<1>2. CASE Report
  BY <1>t, <1>2 DEF Report, Details, Failing
<1>3. CASE ResetErrors
  BY <1>t, <1>3 DEF ResetErrors, Details, Failing
<1>4. CASE ResetFirst
  BY <1>t, <1>4 DEF ResetFirst, Details, Failing
<1>5. ASSUME NEW u \in Upload, Begin(u) \/ Succeed(u) \/ Scan(u)
      PROVE  Details'
  <2>1. UNCHANGED <<errors, report>>
    BY <1>5 DEF Begin, CountTransaction, StoreCount, TakeSlot, Succeed, Record, Scan,
                StartScan, StartAt, Continue, TestLess, TestNotLess, SetMin, Finish
  <2>2. /\ u \notin Failing
        /\ \E label \in {"counted", "stored", "open", "scan", "more", "test", "least",
                           "told", "done"} :
              pc' = [pc EXCEPT ![u] = label]
    BY <1>t, <1>5 DEF Begin, CountTransaction, StoreCount, TakeSlot, Succeed, Record, Scan,
                     StartScan, StartAt, Continue, TestLess, TestNotLess, SetMin, Finish,
                     NextSlot, Failing, Goto
  <2>3. Failing' = Failing /\ \A v \in Failing : pc'[v] = pc[v]
    BY <1>t, <2>2 DEF Failing
  <2>. QED
    BY <1>s, <2>1, <2>3
<1>6. ASSUME NEW u \in Upload, Fail(u)
      PROVE  Details'
  <2>1. /\ raced' = (raced \/ Failing # {} \/ report # "wait")
        /\ quiet' = (quiet /\ report = "wait")
        /\ Failing' = Failing \cup {u} /\ pc' = [pc EXCEPT ![u] = "failed"]
        /\ UNCHANGED <<httpTransactionErrors, httpTransactionErrorFirst, errorURL, errorString,
                       first, report>>
    BY <1>t, <1>6 DEF Fail, Record, Goto, Failing
  <2>2. ASSUME ~raced', report' = "wait"
        PROVE  Failing = {} /\ ~raced /\ report = "wait"
    BY <2>1, <2>2
  <2>3. quiet' => report' = "wait"
    BY <2>1
  <2>4. ASSUME ~raced', report' = "wait"
        PROVE  /\ \A v, w \in Failing' : v = w
               /\ first' = Nobody => /\ httpTransactionErrors' = 0 /\ httpTransactionErrorFirst'
                                     /\ \A v \in Failing' : pc'[v] = "failed"
               /\ first' # Nobody => Told'
    BY <1>t, <2>1, <2>2, <2>4 DEF Details, Told, BeingTold
  <2>. QED
    BY <2>3, <2>4 DEF Details
\* An upload that fails and has not raced is the only one.
<1>f. ASSUME NEW u \in Failing, ~raced, report = "wait"
      PROVE  Failing = {u}
  BY <1>f DEF Details
<1>q. ASSUME NEW u \in Failing, quiet, report # "wait"
      PROVE  FALSE
  BY <1>q DEF Details
<1>7. ASSUME NEW u \in Upload, CountError(u)
      PROVE  Details'
  <2>1. /\ u \in Failing /\ pc[u] = "failed" /\ pc' = [pc EXCEPT ![u] = "first"]
        /\ first' = (IF first = Nobody THEN u ELSE first)
        /\ UNCHANGED <<httpTransactionErrorFirst, errorURL, errorString, raced, quiet, report>>
    BY <1>7 DEF CountError, Goto, Failing
  <2>2. ASSUME ~raced, report = "wait"
        PROVE  /\ \A v, w \in Failing' : v = w
               /\ first' # Nobody /\ (Told' \/ BeingTold')
    <3>1. Failing' = {u}
      BY <1>f, <1>t, <2>1, <2>2 DEF Failing
    <3>2. CASE first = Nobody
      BY <1>t, <2>1, <2>2, <3>1, <3>2 DEF Details, BeingTold
    <3>3. CASE first # Nobody
      BY <1>f, <1>t, <2>1, <2>2, <3>1, <3>3 DEF Details, Told, BeingTold
    <3>. QED
      BY <1>t, <2>1, <3>1, <3>2, <3>3
  <2>. QED
    BY <1>q, <2>1, <2>2 DEF Details
\* The steps of TestFirst, NoteURL and NoteString.
<1>d. ASSUME NEW u \in Failing, UNCHANGED <<httpTransactionErrors, first, raced, quiet, report>>,
             first = Nobody => pc[u] # "failed",
             ~raced /\ report = "wait" => Failing' \subseteq {u} /\ (Told' \/ BeingTold')
      PROVE  Details'
  BY <1>d, <1>f, <1>q DEF Details
<1>8. ASSUME NEW u \in Upload, TestFirst(u)
      PROVE  Details'
  <2>1. /\ u \in Failing /\ pc[u] = "first"
        /\ pc' = [pc EXCEPT ![u] = IF httpTransactionErrorFirst THEN "detail" ELSE "scan"]
        /\ UNCHANGED <<errors, report>>
    BY <1>8 DEF TestFirst, Goto, Failing
  <2>2. ASSUME ~raced, report = "wait"
        PROVE  Failing' \subseteq {u} /\ (Told' \/ BeingTold')
    <3>1. Failing = {u} /\ Failing' \subseteq {u}
      BY <1>f, <1>t, <2>1, <2>2 DEF Failing
    <3>2. first # Nobody /\ (Told \/ BeingTold)
      BY <2>1, <2>2 DEF Details
    <3>3. CASE Told
      BY <1>t, <2>1, <3>1, <3>3 DEF Told, errors, Failing
    <3>4. CASE BeingTold
      BY <1>t, <2>1, <3>1, <3>4 DEF BeingTold, errors, Failing
    <3>. QED
      BY <3>1, <3>2, <3>3, <3>4
  <2>. QED
    BY <1>d, <2>1, <2>2 DEF errors
<1>9. ASSUME NEW u \in Upload, NoteURL(u) \/ NoteString(u)
      PROVE  Details'
  <2>1. /\ u \in Failing /\ pc[u] \in {"detail", "string"}
        /\ UNCHANGED <<httpTransactionErrors, first, raced, quiet, report>>
    BY <1>9 DEF NoteURL, NoteString, Failing
  <2>2. ASSUME ~raced, report = "wait"
        PROVE  Failing' \subseteq {u} /\ (Told' \/ BeingTold')
    <3>1. Failing = {u} /\ Failing' \subseteq {u}
      BY <1>f, <1>t, <1>9, <2>1, <2>2 DEF NoteURL, NoteString, Goto, Failing
    <3>2. BeingTold /\ first = u
      BY <2>1, <2>2, <3>1 DEF Details, Told, BeingTold
    <3>3. CASE NoteURL(u)
      BY <1>t, <3>1, <3>2, <3>3 DEF NoteURL, Goto, BeingTold, Failing
    <3>4. CASE NoteString(u)
      BY <1>t, <3>1, <3>2, <3>4 DEF NoteString, Goto, BeingTold, Told, Failing
    <3>. QED
      BY <1>9, <3>1, <3>3, <3>4
  <2>. QED
    BY <1>d, <2>1, <2>2
<1>10. CASE UNCHANGED vars
  BY <1>10, <1>s DEF vars, Failing
<1>. QED
  BY <1>1, <1>2, <1>3, <1>4, <1>5, <1>6, <1>7, <1>8, <1>9, <1>10 DEF Next, SendErrors, End

\* A report that is not raced quotes the first upload to fail since the last one, for
\* any number of uploads that fail, and of reports that were confused before.
THEOREM ReportsAreTrue == Spec => ReportIsTrue
<1>1. UploadInvariant /\ Details /\ [Next]_vars =>
          (report = "wait" /\ report' = "errors" /\ ~raced' =>
              errorURL = first /\ errorString = first)
  <2> SUFFICES ASSUME Details, [Next]_vars, report = "wait", report' = "errors", ~raced'
               PROVE  errorURL = first /\ errorString = first
    OBVIOUS
  <2>1. Report
    BY DEF Next, vars, Tick, SendErrors, ResetErrors, ResetFirst, Begin, CountTransaction,
           StoreCount, TakeSlot, End, Succeed, Fail, Record, CountError, TestFirst, NoteURL,
           NoteString, Scan, StartScan, StartAt, Continue, TestLess, TestNotLess, SetMin, Finish
  <2>2. ~raced /\ Failing = {} /\ httpTransactionErrors # 0
    BY <2>1 DEF Report
  <2>. QED
    BY <2>2 DEF Details, Told, BeingTold
<1>. QED
  BY InvariantInit, InvariantNext, DetailsInit, DetailsNext, <1>1, PTL DEF Spec, ReportIsTrue

-----------------------------------------------------------------------------
(* The alarm of a slow service.                                             *)
Before == {"idle", "counted", "stored"}

\* A slot holds the begin of the last upload to take it, whose duration is no longer
\* than that of the uploads it was taken from; and of no other, unless it was.
Timed ==
    /\ \A s \in Slot : began[s] = Nobody \/ pc[began[s]] \notin Before
    /\ \A u \in Upload : pc[u] \in Before => age[u] = 0
    /\ \A u \in Upload : pc[u] = "open" => age[began[slot[u]]] <= age[u]
    /\ \A s \in Slot : duration[s] <= took[s]
    /\ ~reused => /\ duration = took
                  /\ \A u \in Upload : pc[u] = "open" => began[slot[u]] = u

\* Slot 0 is only taken when the ring has been filled.
Filled ==
    /\ \A u \in Upload : pc[u] = "stored" => httpTransactions # 0
    /\ ~setBack =>
          \A u \in Upload :
              (slot[u] = 0 /\ (pc[u] \in {"open", "scan"} \/ u \in Failing)) \/ Looking(u)
                  => httpTransactions >= Recorded

\* No upload has begun in the beginning.
LEMMA TimedInit == Init => Timed /\ Filled
<1> SUFFICES ASSUME Init PROVE Timed /\ Filled
  OBVIOUS
<1>1. Timed
  BY DEF Init, Timed, Before
<1>. QED
  BY <1>1 DEF Init, Filled, Failing, Looking

\* Every step keeps the durations of a slot in order.
LEMMA TimedNext == UploadInvariant /\ Timed /\ [Next]_vars => Timed'
<1> SUFFICES ASSUME UploadInvariant, UploadInvariant', Timed, [Next]_vars
             PROVE  Timed'
  BY InvariantNext
<1>t. /\ pc \in [Upload -> {"idle", "counted", "stored", "open", "failed", "first", "detail",
                            "string", "scan", "more", "test", "least", "done", "told"}]
      /\ slot \in [Upload -> Slot] /\ age \in [Upload -> Ticks]
      /\ began \in [Slot -> Upload \cup {Nobody}]
      /\ duration \in [Slot -> Ticks] /\ took \in [Slot -> Ticks]
      /\ \A u \in Upload : pc[u] = "open" => began[slot[u]] \in Upload
      /\ httpTransactions \in Nat
  BY DEF UploadInvariant, TypeOK, Begun
<1>n. Patience \in Nat /\ Nobody \notin Upload /\ \A n \in Ticks : n \in Nat
  BY UploadsAssumption DEF Ticks
\* A step of an upload that touches no slot.
<1>s. ASSUME UNCHANGED <<began, duration, age, took, reused>>,
             \A u \in Upload : /\ slot'[u] = slot[u] \/ pc'[u] # "open"
                               /\ pc'[u] = "open" <=> pc[u] = "open"
                               /\ pc'[u] \in Before <=> pc[u] \in Before
      PROVE  Timed'
  BY <1>s, <1>t DEF Timed
<1>1. CASE Tick
  <2>1. /\ age' = [u \in Upload |-> Older(u)]
        /\ UNCHANGED <<began, duration, took, reused, pc, slot>>
    BY <1>1 DEF Tick
  <2>2. ASSUME NEW u \in Upload, pc[u] \in Before PROVE age'[u] = 0
    <3>1. \A v \in Upload : pc[v] = "open" => u # v /\ u # began[slot[v]]
      BY <1>n, <1>t, <2>2 DEF Timed, Before
    <3>2. Older(u) = age[u]
      BY <3>1 DEF Older
    <3>. QED
      BY <2>1, <2>2, <3>2 DEF Timed
  <2>3. ASSUME NEW u \in Upload, pc[u] = "open" PROVE age'[began[slot[u]]] <= age'[u]
    <3> DEFINE w == began[slot[u]]
    <3>1. w \in Upload /\ age[w] <= age[u] /\ age[w] \in Nat /\ age[u] \in Nat
      BY <1>n, <1>t, <2>3 DEF Timed
    <3>2. /\ Older(u) = IF age[u] <= Patience THEN age[u] + 1 ELSE age[u]
          /\ Older(w) = IF age[w] <= Patience THEN age[w] + 1 ELSE age[w]
      BY <2>3 DEF Older
    <3>3. age'[w] = Older(w) /\ age'[u] = Older(u)
      BY <2>1, <3>1
    <3> HIDE DEF w
    <3>4. age'[w] <= age'[u]
      BY <1>n, <3>1, <3>2, <3>3
    <3>. QED
      BY <2>1, <3>4 DEF w
  <2>. QED
    BY <2>1, <2>2, <2>3 DEF Timed
<1>2. CASE SendErrors
  BY <1>2, <1>s DEF SendErrors, Report, ResetErrors, ResetFirst, ring
<1>3. ASSUME NEW u \in Upload, CountTransaction(u) \/ StoreCount(u)
      PROVE  Timed'
  BY <1>3, <1>s, <1>t DEF CountTransaction, StoreCount, Goto, ring, Before
<1>4. ASSUME NEW u \in Upload, TakeSlot(u)
      PROVE  Timed'
  <2> DEFINE s == httpTransactions % Recorded
  <2>1. /\ s \in Slot /\ pc[u] = "stored" /\ pc' = [pc EXCEPT ![u] = "open"]
        /\ slot' = [slot EXCEPT ![u] = s] /\ began' = [began EXCEPT ![s] = u]
        /\ reused' = (reused \/ Open(s) # {})
        /\ UNCHANGED <<duration, age, took>>
    BY <1>4, <1>t, SlotInRing DEF TakeSlot, Goto
  <2> HIDE DEF s
  <2>2. /\ age[u] = 0 /\ pc'[u] = "open" /\ slot'[u] = s /\ began'[s] = u
        /\ \A v \in Upload \ {u} : pc'[v] = pc[v] /\ slot'[v] = slot[v]
        /\ \A r \in Slot \ {s} : began'[r] = began[r]
    BY <1>t, <2>1 DEF Timed, Before
  <2>3. \A r \in Slot : began'[r] = Nobody \/ pc'[began'[r]] \notin Before
    <3>1. \A r \in Slot \ {s} : began[r] = Nobody \/ (began[r] \in Upload \ {u} /\ pc[began[r]] \notin Before)
      BY <1>t, <2>1 DEF Timed, Before
    <3>. QED
      BY <2>2, <3>1 DEF Before
  <2>4. \A v \in Upload : pc'[v] \in Before => age'[v] = 0
    BY <2>1, <2>2 DEF Timed, Before
  <2>5. ASSUME NEW v \in Upload, pc'[v] = "open" PROVE age'[began'[slot'[v]]] <= age'[v]
    <3>1. age[v] \in Nat
      BY <1>n, <1>t
    <3>2. CASE slot'[v] = s
      BY <2>1, <2>2, <3>1, <3>2
    <3>3. CASE slot'[v] # s
      BY <1>t, <2>1, <2>2, <2>5, <3>3 DEF Timed
    <3>. QED
      BY <3>2, <3>3
  <2>6. ASSUME ~reused', NEW v \in Upload, pc'[v] = "open" PROVE began'[slot'[v]] = v
    <3>1. ~reused /\ Open(s) = {}
      BY <2>1, <2>6
    <3>2. CASE v = u
      BY <2>2, <3>2
    <3>3. CASE v # u
      <4>1. pc[v] = "open" /\ slot[v] # s
        BY <2>2, <2>6, <3>1, <3>3 DEF Open
      <4>. QED
        BY <1>t, <2>2, <3>1, <3>3, <4>1 DEF Timed
    <3>. QED
      BY <3>2, <3>3
  <2>7. /\ \A r \in Slot : duration'[r] <= took'[r]
        /\ ~reused' => duration' = took'
    BY <2>1 DEF Timed
  <2>. QED
    BY <2>3, <2>4, <2>5, <2>6, <2>7 DEF Timed
<1>5. ASSUME NEW u \in Upload, Record(u), pc' = [pc EXCEPT ![u] = "scan"] \/ pc' = [pc EXCEPT ![u] = "failed"]
      PROVE  Timed'
  <2>1. /\ pc[u] = "open" /\ slot[u] \in Slot
        /\ duration' = [duration EXCEPT ![slot[u]] = age[began[slot[u]]]]
        /\ took' = [took EXCEPT ![slot[u]] = age[u]]
        /\ UNCHANGED <<began, age, reused, slot>>
        /\ \A v \in Upload : pc'[v] = pc[v] \/ (pc[v] = "open" /\ pc'[v] \in {"scan", "failed"})
    BY <1>5, <1>t DEF Record
  <2>2. \A r \in Slot : duration'[r] <= took'[r]
    BY <1>t, <2>1 DEF Timed
  <2>3. ~reused' => duration' = took'
    BY <1>t, <2>1 DEF Timed
  <2>4. \A r \in Slot : began'[r] = Nobody \/ pc'[began'[r]] \notin Before
    BY <1>t, <2>1 DEF Timed, Before
  <2>5. \A v \in Upload : /\ pc'[v] \in Before => pc[v] \in Before
                          /\ pc'[v] = "open" => pc[v] = "open"
    BY <2>1 DEF Before
  <2>. QED
    BY <2>1, <2>2, <2>3, <2>4, <2>5 DEF Timed
<1>6. ASSUME NEW u \in Upload, CountError(u) \/ TestFirst(u) \/ NoteURL(u) \/ NoteString(u) \/ Scan(u)
      PROVE  Timed'
  <2> USE DEF Scan, StartScan, StartAt, Continue, TestLess, TestNotLess, SetMin, Finish, NextSlot
  <2>1. /\ UNCHANGED <<began, duration, age, took, reused>>
        /\ pc[u] \notin Before \cup {"open"}
    BY <1>6 DEF CountError, TestFirst, NoteURL, NoteString, ring, Before
  <2>2. \E label \in {"first", "detail", "scan", "string", "more", "test", "least", "told",
                      "done"} :
           pc' = [pc EXCEPT ![u] = label]
    BY <1>6 DEF CountError, TestFirst, NoteURL, NoteString, Goto
  <2>3. slot' = slot \/ slot' = [slot EXCEPT ![u] = 0]
    BY <1>6 DEF CountError, TestFirst, NoteURL, NoteString
  <2>4. \A v \in Upload : /\ slot'[v] = slot[v] \/ pc'[v] # "open"
                          /\ pc'[v] = "open" <=> pc[v] = "open"
                          /\ pc'[v] \in Before <=> pc[v] \in Before
    BY <1>t, <2>1, <2>2, <2>3 DEF Before
  <2>. QED
    BY <1>s, <2>1, <2>4
<1>7. ASSUME NEW u \in Upload, Succeed(u) \/ Fail(u)
      PROVE  Timed'
  BY <1>5, <1>7 DEF Succeed, Fail, Goto
<1>8. CASE UNCHANGED vars
  BY <1>8, <1>s DEF vars, ring
<1>. QED
  BY <1>1, <1>2, <1>3, <1>4, <1>6, <1>7, <1>8 DEF Next, Begin, End

\* The first number that falls on slot 0 fills the ring.
LEMMA SlotZero ==
    ASSUME NEW n \in Nat, n # 0, n % Recorded = 0
    PROVE  n >= Recorded
  BY UploadsAssumption

\* Every step keeps the ring filled once slot 0 has been taken.
LEMMA FilledNext == UploadInvariant /\ Filled /\ [Next]_vars => Filled'
<1> SUFFICES ASSUME UploadInvariant, Filled, [Next]_vars
             PROVE  Filled'
  OBVIOUS
<1>t. /\ pc \in [Upload -> {"idle", "counted", "stored", "open", "failed", "first", "detail",
                            "string", "scan", "more", "test", "least", "done", "told"}]
      /\ slot \in [Upload -> Slot] /\ count \in [Upload -> Nat]
      /\ httpTransactions \in Nat /\ Recorded \in Nat /\ setBack \in BOOLEAN
  BY UploadsAssumption DEF UploadInvariant, TypeOK
<1> DEFINE Taken(u) == \/ slot[u] = 0 /\ (pc[u] \in {"open", "scan"} \/ u \in Failing)
                       \/ Looking(u)
\* A step that neither counts nor takes a slot.
<1>s. ASSUME UNCHANGED <<httpTransactions, setBack>>,
             \A u \in Upload : /\ pc'[u] = "stored" => pc[u] = "stored"
                               /\ Taken(u)' => Taken(u)
      PROVE  Filled'
  BY <1>s DEF Filled
<1>1. CASE Tick \/ SendErrors \/ UNCHANGED vars
  BY <1>1, <1>s DEF Tick, SendErrors, Report, ResetErrors, ResetFirst, ring, vars, Failing,
                    Looking
<1>2. ASSUME NEW u \in Upload, CountTransaction(u)
      PROVE  Filled'
  BY <1>2, <1>s, <1>t DEF CountTransaction, Goto, ring, Failing, Looking
<1>3. ASSUME NEW u \in Upload, StoreCount(u)
      PROVE  Filled'
  <2>1. /\ pc[u] = "counted" /\ pc' = [pc EXCEPT ![u] = "stored"] /\ slot' = slot
        /\ httpTransactions' = count[u] + 1 /\ count[u] \in Nat
        /\ setBack' = (setBack \/ httpTransactions > count[u] + 1)
    BY <1>3, <1>t DEF StoreCount, Goto
  <2>2. httpTransactions' # 0
    BY <2>1
  <2>3. ASSUME ~setBack' PROVE ~setBack /\ httpTransactions' >= httpTransactions
    <3>1. ~setBack /\ ~(httpTransactions > count[u] + 1)
      BY <2>1, <2>3
    <3>. QED
      BY <1>t, <2>1, <3>1
  <2>4. \A v \in Upload : Taken(v)' => Taken(v)
    BY <1>t, <2>1 DEF Failing, Looking
  <2>5. ASSUME ~setBack', NEW v \in Upload, Taken(v)'
        PROVE  httpTransactions' >= Recorded
    <3>1. httpTransactions >= Recorded
      BY <2>1, <2>3, <2>4, <2>5 DEF Filled
    <3>2. httpTransactions' \in Nat
      BY <2>1
    <3>. QED
      BY <1>t, <2>3, <2>5, <3>1, <3>2
  <2>. QED
    BY <2>2, <2>5 DEF Filled
<1>4. ASSUME NEW u \in Upload, TakeSlot(u)
      PROVE  Filled'
  <2>1. /\ pc[u] = "stored" /\ pc' = [pc EXCEPT ![u] = "open"]
        /\ slot' = [slot EXCEPT ![u] = httpTransactions % Recorded]
        /\ UNCHANGED <<httpTransactions, setBack>>
    BY <1>4 DEF TakeSlot, Goto
  <2>2. httpTransactions # 0
    BY <2>1 DEF Filled
  <2>3. slot'[u] = 0 => httpTransactions >= Recorded
    BY <1>t, <2>1, <2>2, SlotZero
  <2>4. \A v \in Upload \ {u} : /\ slot'[v] = slot[v] /\ pc'[v] = pc[v]
                                /\ Taken(v)' => Taken(v)
    BY <1>t, <2>1 DEF Failing, Looking
  <2>5. Taken(u)' => slot'[u] = 0
    BY <1>t, <2>1 DEF Looking
  <2>. QED
    BY <1>t, <2>1, <2>2, <2>3, <2>4, <2>5 DEF Filled
<1>5. ASSUME NEW u \in Upload, End(u)
      PROVE  Filled'
  <2>1. UNCHANGED <<httpTransactions, setBack>>
    BY <1>5 DEF End, Succeed, Fail, Record, CountError, TestFirst, NoteURL, NoteString, Scan,
                StartScan, StartAt, Continue, TestLess, TestNotLess, SetMin, Finish, ring
  <2>2. CASE StartScan(u)
    <3>1. /\ \E label \in {"more", "done"} :
                pc' = [pc EXCEPT ![u] = label] /\ (label = "more" => slot[u] = 0)
          /\ slot' = [slot EXCEPT ![u] = 0] /\ pc[u] = "scan"
      BY <2>2 DEF StartScan, StartAt, Goto
    <3>2. \A v \in Upload : /\ pc'[v] = "stored" => pc[v] = "stored"
                            /\ Taken(v)' => Taken(v)
      BY <1>t, <3>1 DEF Failing, Looking
    <3>. QED
      BY <1>s, <2>1, <3>2
  <2>3. CASE ~StartScan(u)
    <3>1. /\ slot' = slot
          /\ \/ /\ pc[u] = "open" \/ u \in Failing
                /\ \E label \in {"scan", "failed", "first", "detail", "string"} :
                       pc' = [pc EXCEPT ![u] = label]
             \/ /\ Looking(u)
                /\ \E label \in {"more", "test", "least", "told", "done"} :
                       pc' = [pc EXCEPT ![u] = label]
      BY <1>5, <2>3 DEF End, Succeed, Fail, Record, CountError, TestFirst, NoteURL, NoteString,
                        Scan, Continue, TestLess, TestNotLess, SetMin, Finish, NextSlot, Goto,
                        Failing, Looking
    <3>2. \A v \in Upload : /\ pc'[v] = "stored" => pc[v] = "stored"
                            /\ Taken(v)' => Taken(v)
      BY <1>t, <3>1 DEF Failing, Looking
    <3>. QED
      BY <1>s, <2>1, <3>2
  <2>. QED
    BY <2>2, <2>3
<1>. QED
  BY <1>1, <1>2, <1>3, <1>4, <1>5 DEF Next, Begin

\* What an upload that looks at slots has noted: nothing that is slow or quick escapes
\* it, a slot that it has passed was slow or has lowered the minimum, and the minimum
\* is not lowered by what is slow.
SeenBy(u) ==
    /\ \A s \in Slot : took[s] > Patience => s \in slowAt[u]
    /\ \A s \in Slot : took[s] <= Patience => s \in quickAt[u]
    /\ u \notin torn =>
          /\ \A s \in Slot : s < theCount[u] => s \in slowAt[u] \/ theMin[u] <= Patience
          /\ pc[u] = "least" => duration[theCount[u]] <= theMin[u]
    /\ ~reused /\ quickAt[u] = {} => theMin[u] > Patience

Seen == \A u \in Upload : Looking(u) => SeenBy(u)

LEMMA SeenInit == Init => Seen
  BY DEF Init, Seen, Looking

\* Every step keeps what is noted complete.
LEMMA SeenNext == UploadInvariant /\ Timed /\ Seen /\ [Next]_vars => Seen'
<1> SUFFICES ASSUME UploadInvariant, Timed, Seen, [Next]_vars
             PROVE  Seen'
  OBVIOUS
<1>t. /\ pc \in [Upload -> {"idle", "counted", "stored", "open", "failed", "first", "detail",
                            "string", "scan", "more", "test", "least", "done", "told"}]
      /\ slot \in [Upload -> Slot] /\ age \in [Upload -> Ticks]
      /\ duration \in [Slot -> Ticks] /\ took \in [Slot -> Ticks]
      /\ theCount \in [Upload -> 0 .. Recorded] /\ theMin \in [Upload -> 0 .. Endless]
      /\ slowAt \in [Upload -> SUBSET Slot] /\ quickAt \in [Upload -> SUBSET Slot]
      /\ reused \in BOOLEAN
  BY DEF UploadInvariant, TypeOK
<1>n. /\ Patience \in Nat /\ Recorded \in Nat /\ Endless > Patience
      /\ \A n \in Ticks : n \in Nat
      /\ \A n \in Slot : n \in Nat
      /\ \A n \in 0 .. Endless : n \in Nat
  BY UploadsAssumption DEF Ticks, Slot, Endless
\* A step that is neither of an upload that looks nor one that ends.
<1>s. ASSUME UNCHANGED <<duration, took, scan>>, reused => reused',
             \A u \in Upload : Looking(u)' => Looking(u) /\ pc'[u] = pc[u]
      PROVE  Seen'
  BY <1>s DEF Seen, SeenBy, scan
<1>1. CASE Tick \/ SendErrors \/ UNCHANGED vars
  BY <1>1, <1>s DEF Tick, SendErrors, Report, ResetErrors, ResetFirst, ring, vars, Looking
<1>2. ASSUME NEW u \in Upload,
             \/ CountTransaction(u) \/ StoreCount(u) \/ TakeSlot(u)
             \/ CountError(u) \/ TestFirst(u) \/ NoteURL(u) \/ NoteString(u)
      PROVE  Seen'
  <2>1. UNCHANGED <<duration, took, scan>>
    BY <1>2 DEF CountTransaction, StoreCount, TakeSlot, CountError, TestFirst, NoteURL,
                NoteString, ring
  <2>4. reused => reused'
    BY <1>2 DEF CountTransaction, StoreCount, TakeSlot, CountError, TestFirst, NoteURL,
                NoteString, ring
  <2>2. \E label \in {"counted", "stored", "open", "first", "detail", "scan", "string"} :
            pc' = [pc EXCEPT ![u] = label]
    BY <1>2 DEF CountTransaction, StoreCount, TakeSlot, CountError, TestFirst, NoteURL,
                NoteString, Goto
  <2>3. \A v \in Upload : Looking(v)' => Looking(v) /\ pc'[v] = pc[v]
    BY <1>t, <2>2 DEF Looking
  <2>. QED
    BY <1>s, <2>1, <2>3, <2>4
<1>3. ASSUME NEW u \in Upload, Succeed(u) \/ Fail(u)
      PROVE  Seen'
  <2> DEFINE s == slot[u]
  <2>1. /\ s \in Slot /\ age[u] \in Ticks
        /\ took' = [took EXCEPT ![s] = age[u]]
        /\ duration' = [duration EXCEPT ![s] = age[began[s]]]
        /\ slowAt' = IF age[u] > Patience THEN Note(slowAt, s) ELSE slowAt
        /\ quickAt' = IF age[u] > Patience THEN quickAt ELSE Note(quickAt, s)
        /\ torn' = torn \cup {v \in Upload : pc[v] = "least" /\ theCount[v] = s}
        /\ UNCHANGED <<theCount, theMin, reused>>
    BY <1>3, <1>t DEF Succeed, Fail, Record
  <2>2. \A v \in Upload : Looking(v)' => Looking(v) /\ pc'[v] = pc[v]
    BY <1>3, <1>t DEF Succeed, Fail, Goto, Looking
  <2> HIDE DEF s
  <2>3. ASSUME NEW v \in Upload, Looking(v)'
        PROVE  SeenBy(v)'
    <3>1. Looking(v) /\ pc'[v] = pc[v] /\ SeenBy(v)
      BY <2>2, <2>3 DEF Seen
    <3>2. CASE age[u] > Patience
      <4>1. slowAt'[v] = slowAt[v] \cup {s} /\ quickAt' = quickAt
        BY <2>1, <3>1, <3>2 DEF Note
      <4>2. /\ \A r \in Slot : took'[r] > Patience => r \in slowAt'[v]
            /\ \A r \in Slot : took'[r] <= Patience => r \in quickAt'[v]
        BY <1>n, <1>t, <2>1, <3>1, <3>2, <4>1 DEF SeenBy
      <4>3. v \notin torn' => /\ \A r \in Slot : r < theCount[v] =>
                                     r \in slowAt'[v] \/ theMin[v] <= Patience
                              /\ pc[v] = "least" => duration'[theCount[v]] <= theMin[v]
        BY <1>t, <2>1, <3>1, <4>1 DEF SeenBy
      <4>4. ~reused /\ quickAt'[v] = {} => theMin[v] > Patience
        BY <3>1, <4>1 DEF SeenBy
      <4>. QED
        BY <2>1, <3>1, <4>2, <4>3, <4>4 DEF SeenBy
    <3>3. CASE ~(age[u] > Patience)
      <4>1. quickAt'[v] = quickAt[v] \cup {s} /\ slowAt' = slowAt
        BY <2>1, <3>1, <3>3 DEF Note
      <4>2. /\ \A r \in Slot : took'[r] > Patience => r \in slowAt'[v]
            /\ \A r \in Slot : took'[r] <= Patience => r \in quickAt'[v]
        BY <1>n, <1>t, <2>1, <3>1, <3>3, <4>1 DEF SeenBy
      <4>3. v \notin torn' => /\ \A r \in Slot : r < theCount[v] =>
                                     r \in slowAt'[v] \/ theMin[v] <= Patience
                              /\ pc[v] = "least" => duration'[theCount[v]] <= theMin[v]
        BY <1>t, <2>1, <3>1, <4>1 DEF SeenBy
      <4>4. quickAt'[v] # {}
        BY <4>1
      <4>. QED
        BY <2>1, <3>1, <4>2, <4>3, <4>4 DEF SeenBy
    <3>. QED
      BY <3>2, <3>3
  <2>. QED
    BY <2>3 DEF Seen
\* A step of an upload that looks: what the others have noted stays.
<1>o. ASSUME NEW u \in Upload, UNCHANGED <<duration, took, reused>>,
             \A v \in Upload \ {u} : /\ pc'[v] = pc[v] /\ slowAt'[v] = slowAt[v]
                                     /\ quickAt'[v] = quickAt[v] /\ theMin'[v] = theMin[v]
                                     /\ theCount'[v] = theCount[v]
                                     /\ v \in torn' <=> v \in torn,
             Looking(u)' => SeenBy(u)'
      PROVE  Seen'
  <2>1. ASSUME NEW v \in Upload \ {u}, Looking(v)'
        PROVE  SeenBy(v)'
    <3>1. Looking(v) /\ SeenBy(v)
      BY <1>o, <2>1 DEF Looking, Seen
    <3>. QED
      BY <1>o, <3>1 DEF SeenBy
  <2>. QED
    BY <1>o, <2>1 DEF Seen
<1>4. ASSUME NEW u \in Upload, StartScan(u)
      PROVE  Seen'
  <2>1. /\ theMin[u] = Endless
        /\ UNCHANGED <<duration, took, reused, theMin, torn>>
    BY <1>4 DEF StartScan, StartAt, UploadInvariant, Indexed, Looking
  <2>2. CASE slot[u] = 0
    <3>1. /\ pc' = [pc EXCEPT ![u] = "more"]
          /\ theCount' = [theCount EXCEPT ![u] = 0]
          /\ slowAt' = [slowAt EXCEPT ![u] = {s \in Slot : took[s] > Patience}]
          /\ quickAt' = [quickAt EXCEPT ![u] = {s \in Slot : took[s] <= Patience}]
      BY <1>4, <2>2 DEF StartScan, StartAt, Goto
    <3>2. SeenBy(u)'
      BY <1>n, <1>t, <2>1, <3>1 DEF SeenBy
    <3>. QED
      BY <1>o, <1>t, <2>1, <3>1, <3>2
  <2>3. CASE slot[u] # 0
    <3>1. pc' = [pc EXCEPT ![u] = "done"] /\ UNCHANGED <<theCount, slowAt, quickAt>>
      BY <1>4, <2>3 DEF StartScan, StartAt, Goto
    <3>2. ~Looking(u)'
      BY <1>t, <3>1 DEF Looking
    <3>. QED
      BY <1>o, <1>t, <2>1, <3>1, <3>2
  <2>. QED
    BY <2>2, <2>3
<1>5. ASSUME NEW u \in Upload, Continue(u)
      PROVE  Seen'
  <2>1. /\ UNCHANGED <<duration, took, reused, scan>> /\ Looking(u)
        /\ pc' = [pc EXCEPT ![u] = "test"]
    BY <1>5 DEF Continue, Goto, ring, Looking
  <2>2. SeenBy(u)'
    BY <1>t, <2>1 DEF Seen, SeenBy, scan
  <2>. QED
    BY <1>o, <1>t, <2>1, <2>2 DEF scan
<1>6. ASSUME NEW u \in Upload, TestLess(u)
      PROVE  Seen'
  <2>1. /\ UNCHANGED <<duration, took, reused, scan>> /\ Looking(u) /\ pc[u] = "test"
        /\ pc' = [pc EXCEPT ![u] = "least"]
        /\ duration[theCount[u]] < theMin[u] \/ duration[theCount[u]] = theMin[u]
    BY <1>6 DEF TestLess, Goto, ring, Looking
  <2>2. theCount[u] \in Slot
    BY <1>n, <1>t, <2>1 DEF UploadInvariant, Indexed, Slot
  <2>3. duration[theCount[u]] <= theMin[u]
    BY <1>n, <1>t, <2>1, <2>2
  <2>4. SeenBy(u)'
    BY <2>1, <2>3 DEF Seen, SeenBy, scan
  <2>. QED
    BY <1>o, <1>t, <2>1, <2>4 DEF scan
<1>7. ASSUME NEW u \in Upload, TestNotLess(u) \/ SetMin(u)
      PROVE  Seen'
  <2> DEFINE n == theCount[u]
             d == duration[n]
  <2>1. /\ UNCHANGED <<duration, took, reused, slowAt, quickAt, torn>> /\ Looking(u)
        /\ pc' = [pc EXCEPT ![u] = "more"] /\ theCount' = [theCount EXCEPT ![u] = n + 1]
        /\ pc[u] \in {"test", "least"}
    BY <1>7 DEF TestNotLess, SetMin, NextSlot, Goto, Looking
  <2>2. \/ pc[u] = "test" /\ d >= theMin[u] /\ theMin' = theMin
        \/ pc[u] = "least" /\ theMin' = [theMin EXCEPT ![u] = d]
    BY <1>7 DEF TestNotLess, SetMin
  <2>3. /\ n \in Slot /\ d \in Nat /\ took[n] \in Nat /\ d <= took[n]
        /\ theMin[u] \in Nat
    BY <1>n, <1>t, <2>1 DEF UploadInvariant, Indexed, Slot, Timed
  <2>4. SeenBy(u)
    BY <2>1 DEF Seen
  <2> HIDE DEF n, d
  <2>5. /\ pc'[u] = "more" /\ theCount'[u] = n + 1
        /\ theMin'[u] = theMin[u] \/ theMin'[u] = d
    BY <1>t, <2>1, <2>2
  <2>6. ASSUME u \notin torn, NEW s \in Slot, s < n + 1
        PROVE  s \in slowAt[u] \/ theMin'[u] <= Patience
    <3>1. theMin'[u] \in Nat /\ theMin'[u] <= theMin[u] /\ theMin'[u] <= d
      <4>1. CASE pc[u] = "test"
        BY <2>2, <2>3, <4>1
      <4>2. CASE pc[u] = "least"
        <5>1. d <= theMin[u]
          BY <2>4, <2>6, <4>2 DEF SeenBy, d, n
        <5>2. theMin'[u] = d
          BY <1>t, <2>2, <4>2
        <5>. QED
          BY <2>3, <5>1, <5>2
      <4>. QED
        BY <2>1, <4>1, <4>2
    <3>2. CASE s = n
      <4>1. took[n] > Patience => n \in slowAt[u]
        BY <2>3, <2>4 DEF SeenBy
      <4>. QED
        BY <1>n, <2>3, <3>1, <3>2, <4>1
    <3>3. CASE s # n
      <4>1. s < n
        BY <1>n, <2>3, <2>6, <3>3
      <4>2. s \in slowAt[u] \/ theMin[u] <= Patience
        BY <2>4, <2>6, <4>1 DEF SeenBy, n
      <4>. QED
        BY <1>n, <2>3, <3>1, <4>2
    <3>. QED
      BY <3>2, <3>3
  <2>7. ASSUME ~reused, quickAt[u] = {}
        PROVE  theMin'[u] > Patience
    <3>1. theMin[u] > Patience /\ ~(took[n] <= Patience)
      BY <2>3, <2>4, <2>7 DEF SeenBy
    <3>2. d = took[n]
      BY <2>7 DEF Timed, d
    <3>. QED
      BY <1>n, <2>3, <2>5, <3>1, <3>2
  <2>8. SeenBy(u)'
    BY <2>1, <2>4, <2>5, <2>6, <2>7 DEF SeenBy
  <2>9. \A v \in Upload \ {u} : /\ pc'[v] = pc[v] /\ theMin'[v] = theMin[v]
                                /\ theCount'[v] = theCount[v]
    BY <1>t, <2>1, <2>2
  <2>. QED
    BY <1>o, <2>1, <2>8, <2>9
<1>8. ASSUME NEW u \in Upload, Finish(u)
      PROVE  Seen'
  <2>1. /\ \E label \in {"told", "done"} : pc' = [pc EXCEPT ![u] = label]
        /\ theCount' = [theCount EXCEPT ![u] = 0] /\ theMin' = [theMin EXCEPT ![u] = Endless]
        /\ slowAt' = [slowAt EXCEPT ![u] = {}] /\ quickAt' = [quickAt EXCEPT ![u] = {}]
        /\ torn' = torn \ {u} /\ UNCHANGED <<duration, took, reused>>
    BY <1>8 DEF Finish, Goto
  <2>2. ~Looking(u)'
    BY <1>t, <2>1 DEF Looking
  <2>. QED
    BY <1>o, <1>t, <2>1, <2>2
<1>. QED
  BY <1>1, <1>2, <1>3, <1>4, <1>5, <1>6, <1>7, <1>8 DEF Next, Begin, End, Scan

\* The upload that has looked at all slots tells Slack what is true.
LEMMA ScanIsTrue ==
    UploadInvariant /\ Filled /\ Seen /\ [Next]_vars =>
        \A u \in Upload : pc[u] = "more" /\ pc'[u] \in {"told", "done"} =>
            /\ pc'[u] = "told" /\ ~setBack /\ u \notin torn => slowAt[u] = Slot
            /\ quickAt[u] = {} /\ ~reused => pc'[u] = "told"
<1> SUFFICES ASSUME UploadInvariant, Filled, Seen, [Next]_vars,
                    NEW u \in Upload, pc[u] = "more", pc'[u] \in {"told", "done"}
             PROVE  /\ pc'[u] = "told" /\ ~setBack /\ u \notin torn => slowAt[u] = Slot
                    /\ quickAt[u] = {} /\ ~reused => pc'[u] = "told"
  OBVIOUS
<1>t. /\ pc \in [Upload -> {"idle", "counted", "stored", "open", "failed", "first", "detail",
                            "string", "scan", "more", "test", "least", "done", "told"}]
      /\ slowAt \in [Upload -> SUBSET Slot]
      /\ theCount[u] \in Nat /\ theMin[u] \in Nat
      /\ httpTransactions \in Nat /\ Recorded \in Nat /\ Patience \in Nat
  BY UploadsAssumption DEF UploadInvariant, TypeOK, Endless
<1>1. Finish(u)
  <2>1. ASSUME NEW v \in Upload, Begin(v) \/ End(v) PROVE v = u
    BY <1>t, <2>1 DEF Begin, CountTransaction, StoreCount, TakeSlot, End, Succeed, Fail,
                Record, CountError, TestFirst, NoteURL, NoteString, Scan, StartScan, StartAt,
                Continue, TestLess, TestNotLess, SetMin, Finish, NextSlot, Goto
  <2>2. Begin(u) \/ End(u)
    BY <2>1 DEF Next, vars, Tick, SendErrors, Report, ResetErrors, ResetFirst
  <2>. QED
    BY <1>t, <2>2 DEF Begin, CountTransaction, StoreCount, TakeSlot, End, Succeed, Fail,
                Record, CountError, TestFirst, NoteURL, NoteString, Scan, StartScan, StartAt,
                Continue, TestLess, TestNotLess, SetMin, Goto
<1>2. Looking(u) /\ SeenBy(u)
  BY DEF Seen, Looking
<1>3. ASSUME pc'[u] = "told", ~setBack, u \notin torn PROVE slowAt[u] = Slot
  <2>1. theMin[u] > Patience /\ ~More(u)
    BY <1>1, <1>3, <1>t DEF Finish, Goto
  <2>2. httpTransactions >= Recorded
    BY <1>2, <1>3 DEF Filled
  <2>3. theCount[u] >= Recorded
    BY <1>t, <2>1, <2>2 DEF More
  <2>4. \A s \in Slot : s < theCount[u]
    BY <1>t, <2>3 DEF Slot
  <2>5. \A s \in Slot : s \in slowAt[u]
    BY <1>2, <1>3, <1>t, <2>1, <2>4 DEF SeenBy
  <2>. QED
    BY <1>t, <2>5
<1>4. ASSUME quickAt[u] = {}, ~reused PROVE pc'[u] = "told"
  <2>1. theMin[u] > Patience
    BY <1>2, <1>4 DEF SeenBy
  <2>. QED
    BY <1>1, <1>t, <2>1 DEF Finish, Goto
<1>. QED
  BY <1>3, <1>4

\* Slack is told that the service is slow only if every slot was slow when it was looked
\* at, and told if all were all the time, for any number of uploads and slots and in
\* whatever order they write while another looks, but for the cases that the property
\* names (endTransaction).
THEOREM SlowAlarmsAreTrue == Spec => SlowAlarmIsTrue
<1> HIDE DEF UploadInvariant, Timed, Filled, Seen
<1>. QED
  BY InvariantInit, InvariantNext, TimedInit, TimedNext, FilledNext, SeenInit, SeenNext,
     ScanIsTrue, PTL
  DEF Spec, SlowAlarmIsTrue

=============================================================================
