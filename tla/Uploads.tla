------------------------------- MODULE Uploads -------------------------------
(***************************************************************************)
(* The transactions of uploads: beginTransaction, endTransaction and       *)
(* sendSafecastCommsErrorsToSlack of src/safecast.go.                      *)
(*                                                                         *)
(* Every upload is made by a goroutine of its own.  They share, without a  *)
(* lock, a ring of slots that hold when a transaction began and how long   *)
(* it took, and what is known of errors since the last report.  The first  *)
(* slot to be written is slot 1, and slot 0 is the last.  An upload that   *)
(* ends looks at one slot after the other, while others write them.  That  *)
(* of slot 0 tells Slack if it found no short duration; what the others    *)
(* find is only printed and left out, as is the number of uploads in       *)
(* progress.  The timer of the monitor reports errors every hour, in three *)
(* steps.                                                                  *)
(*                                                                         *)
(* The begin of a transaction is identified with its upload, and durations *)
(* are in ticks, saturated above Patience.                                 *)
(***************************************************************************)
EXTENDS Integers

CONSTANTS
    Upload,      \* uploads, each of which takes place once
    Recorded,    \* httpTransactionsRecorded
    Patience,    \* the duration above which an upload is slow
    Troubles,    \* what may go wrong together: subsets of {"errors", "delays"}
    Nobody

Slot == 0 .. Recorded - 1
Ticks == 0 .. Patience + 1

\* What the minimum is set to first: more than anything takes.
Endless == Patience + 2

ASSUME UploadsAssumption ==
    /\ Recorded \in Nat \ {0}
    /\ Patience \in Nat
    /\ Nobody \notin Upload
    /\ Troubles \subseteq SUBSET {"errors", "delays"}

VARIABLES
    trouble,                 \* chosen once: what may go wrong
    httpTransactions,
    began,                   \* httpTransactionTimes: whose begin each slot holds
    duration,                \* httpTransactionDurations
    httpTransactionErrors,
    httpTransactionErrorFirst,
    errorURL, errorString,   \* of which upload the details are
    pc, count, slot,         \* of each upload: next step, counter it read, its slot
    theCount, theMin,        \* of each upload: the next slot to look at, the least found
    report,                  \* the next step of sendSafecastCommsErrorsToSlack
    age,                     \* time since each upload began
    took,                    \* history: what the last upload to end in a slot took
    reused,                  \* history: a slot was taken while its upload went on
    setBack,                 \* history: a count of transactions replaced a greater one
    slowAt, quickAt,         \* history: slots whose last upload was slow, and those whose
                             \* was not, at a moment since each upload looks at slots
    torn,                    \* history: a slot was written between being found to hold
                             \* less than the least and being read as the least
    owed,                    \* history: an error counted before a report, or after its
                             \* reset of the number, is unreported
    first,                   \* history: the first upload that failed since the last report
    raced,                   \* history: what is known of errors may be confused
    quiet                    \* history: no upload failed while this report was made

scan == <<theCount, theMin, slowAt, quickAt, torn>>
ring == <<httpTransactions, began, duration, age, took, reused, setBack, scan>>
errors == <<httpTransactionErrors, httpTransactionErrorFirst, errorURL, errorString,
            owed, first, raced, quiet>>
vars == <<trouble, ring, errors, pc, count, slot, report>>

Init ==
    /\ trouble \in Troubles
    /\ httpTransactions = 0
    /\ began = [s \in Slot |-> Nobody]
    /\ duration = [s \in Slot |-> 0]
    /\ httpTransactionErrors = 0
    /\ httpTransactionErrorFirst = TRUE
    /\ errorURL = Nobody /\ errorString = Nobody
    /\ pc = [u \in Upload |-> "idle"]
    /\ count = [u \in Upload |-> 0]
    /\ slot = [u \in Upload |-> 0]
    /\ theCount = [u \in Upload |-> 0] /\ theMin = [u \in Upload |-> Endless]
    /\ slowAt = [u \in Upload |-> {}] /\ quickAt = [u \in Upload |-> {}]
    /\ torn = {}
    /\ report = "wait"
    /\ age = [u \in Upload |-> 0]
    /\ took = [s \in Slot |-> 0]
    /\ reused = FALSE
    /\ setBack = FALSE
    /\ owed = FALSE
    /\ first = Nobody
    /\ raced = FALSE
    /\ quiet = TRUE

Goto(u, label) == pc' = [pc EXCEPT ![u] = label]

-----------------------------------------------------------------------------
(* beginTransaction: the counter is read, written, and read again.          *)

CountTransaction(u) ==
    /\ pc[u] = "idle"
    /\ count' = [count EXCEPT ![u] = httpTransactions]
    /\ Goto(u, "counted")
    /\ UNCHANGED <<ring, errors, slot, report>>

StoreCount(u) ==
    /\ pc[u] = "counted"
    /\ httpTransactions' = count[u] + 1
    /\ setBack' = (setBack \/ httpTransactions > count[u] + 1)
    /\ count' = [count EXCEPT ![u] = 0]
    /\ Goto(u, "stored")
    /\ UNCHANGED <<began, duration, age, took, reused, scan, errors, slot, report>>

Open(s) == {u \in Upload : pc[u] = "open" /\ slot[u] = s}

TakeSlot(u) ==
    LET s == httpTransactions % Recorded
    IN /\ pc[u] = "stored"
       /\ slot' = [slot EXCEPT ![u] = s]
       /\ began' = [began EXCEPT ![s] = u]
       /\ reused' = (reused \/ Open(s) # {})
       /\ Goto(u, "open")
       /\ UNCHANGED <<httpTransactions, duration, age, took, setBack, scan, errors, count,
                      report>>

\* Time matters to the uploads whose begin may still be asked for.
Older(u) ==
    IF age[u] <= Patience /\ \E v \in Upload : pc[v] = "open" /\ u \in {v, began[slot[v]]}
        THEN age[u] + 1 ELSE age[u]

Tick ==
    /\ "delays" \in trouble
    /\ age' = [u \in Upload |-> Older(u)]
    /\ UNCHANGED <<httpTransactions, began, duration, took, reused, setBack, scan,
                   errors, pc, count, slot, report>>

-----------------------------------------------------------------------------
(* endTransaction.                                                          *)

Failing == {u \in Upload : pc[u] \in {"failed", "first", "detail", "string"}}

Looking(v) == pc[v] \in {"more", "test", "least"}

\* What each upload that looks at slots has noted of them, if slot s is found there too.
Note(noted, s) == [v \in Upload |-> IF Looking(v) THEN noted[v] \cup {s} ELSE noted[v]]

Record(u) ==
    LET s == slot[u]
    IN /\ pc[u] = "open"
       /\ duration' = [duration EXCEPT ![s] = age[began[s]]]
       /\ took' = [took EXCEPT ![s] = age[u]]
       /\ slowAt' = IF age[u] > Patience THEN Note(slowAt, s) ELSE slowAt
       /\ quickAt' = IF age[u] > Patience THEN quickAt ELSE Note(quickAt, s)
       /\ torn' = torn \cup {v \in Upload : pc[v] = "least" /\ theCount[v] = s}
       /\ UNCHANGED <<httpTransactions, began, age, reused, setBack, theCount, theMin, slot,
                      report>>

\* Bug: success clears what is known of errors.
SucceedClears(u) ==
    /\ Record(u)
    /\ httpTransactionErrors' = 0
    /\ Goto(u, "scan")
    /\ UNCHANGED <<httpTransactionErrorFirst, errorURL, errorString, owed, first, raced, quiet,
                   count>>

Succeed(u) ==
    /\ Record(u)
    /\ Goto(u, "scan")
    /\ UNCHANGED <<errors, count>>

\* The service answers too late or not at all, or refuses.  The number of errors is
\* read, to be incremented.
Fail(u) ==
    /\ "errors" \in trouble
    /\ Record(u)
    /\ count' = [count EXCEPT ![u] = httpTransactionErrors]
    /\ raced' = (raced \/ Failing # {} \/ report # "wait")
    /\ quiet' = (quiet /\ report = "wait")
    /\ Goto(u, "failed")
    /\ UNCHANGED <<httpTransactionErrors, httpTransactionErrorFirst, errorURL, errorString,
                   owed, first>>

CountError(u) ==
    /\ pc[u] = "failed"
    /\ httpTransactionErrors' = count[u] + 1
    /\ count' = [count EXCEPT ![u] = 0]
    /\ owed' = (owed \/ report # "errors")
    /\ first' = (IF first = Nobody THEN u ELSE first)
    /\ Goto(u, "first")
    /\ UNCHANGED <<ring, httpTransactionErrorFirst, errorURL, errorString, raced, quiet,
                   slot, report>>

\* Bug: the details are always those of the last error.
TestAlways(u) ==
    /\ pc[u] = "first"
    /\ Goto(u, "detail")
    /\ UNCHANGED <<ring, errors, count, slot, report>>

TestFirst(u) ==
    /\ pc[u] = "first"
    /\ Goto(u, IF httpTransactionErrorFirst THEN "detail" ELSE "scan")
    /\ UNCHANGED <<ring, errors, count, slot, report>>

\* The time of the error goes with its URL.
NoteURL(u) ==
    /\ pc[u] = "detail"
    /\ errorURL' = u
    /\ Goto(u, "string")
    /\ UNCHANGED <<ring, httpTransactionErrors, httpTransactionErrorFirst, errorString, owed,
                   first, raced, quiet, count, slot, report>>

NoteString(u) ==
    /\ pc[u] = "string"
    /\ errorString' = u
    /\ httpTransactionErrorFirst' = FALSE
    /\ Goto(u, "scan")
    /\ UNCHANGED <<ring, httpTransactionErrors, errorURL, owed, first, raced, quiet, count,
                   slot, report>>

\* The upload of slot 0 looks at all slots, from the first.
StartAt(u, s0) ==
    /\ pc[u] = "scan"
    /\ IF slot[u] = 0
           THEN /\ Goto(u, "more")
                /\ theCount' = [theCount EXCEPT ![u] = s0]
                /\ slowAt' = [slowAt EXCEPT ![u] = {s \in Slot : took[s] > Patience}]
                /\ quickAt' = [quickAt EXCEPT ![u] = {s \in Slot : took[s] <= Patience}]
           ELSE Goto(u, "done") /\ UNCHANGED <<theCount, slowAt, quickAt>>
    /\ slot' = [slot EXCEPT ![u] = 0]
    /\ UNCHANGED <<httpTransactions, began, duration, age, took, reused, setBack, theMin, torn,
                   errors, count, report>>

\* Bug: slot 0 is left out, as if the first transaction had number 1.
StartAt1(u) == StartAt(u, 1)

StartScan(u) == StartAt(u, 0)

\* Until the ring is full, slots that have not been written are not looked at.
More(u) == theCount[u] < httpTransactions /\ theCount[u] < Recorded

Continue(u) ==
    /\ pc[u] = "more"
    /\ More(u)
    /\ Goto(u, "test")
    /\ UNCHANGED <<ring, errors, count, slot, report>>

NextSlot(u) == theCount' = [theCount EXCEPT ![u] = @ + 1] /\ Goto(u, "more")

\* The slot holds less than the least so far.  What exceeds Patience is not told apart.
TestLess(u) ==
    LET d == duration[theCount[u]]
    IN /\ pc[u] = "test"
       /\ d < theMin[u] \/ (d = theMin[u] /\ d > Patience)
       /\ Goto(u, "least")
       /\ UNCHANGED <<ring, errors, count, slot, report>>

TestNotLess(u) ==
    /\ pc[u] = "test"
    /\ duration[theCount[u]] >= theMin[u]
    /\ NextSlot(u)
    /\ UNCHANGED <<httpTransactions, began, duration, age, took, reused, setBack, theMin, slowAt,
                   quickAt, torn, errors, count, slot, report>>

\* The slot is read again.
SetMin(u) ==
    /\ pc[u] = "least"
    /\ theMin' = [theMin EXCEPT ![u] = duration[theCount[u]]]
    /\ NextSlot(u)
    /\ UNCHANGED <<httpTransactions, began, duration, age, took, reused, setBack, slowAt,
                   quickAt, torn, errors, count, slot, report>>

\* All slots have been looked at, and Slack is told if the least is slow.
Finish(u) ==
    /\ pc[u] = "more"
    /\ ~More(u)
    /\ Goto(u, IF theMin[u] > Patience THEN "told" ELSE "done")
    /\ theCount' = [theCount EXCEPT ![u] = 0]
    /\ theMin' = [theMin EXCEPT ![u] = Endless]
    /\ slowAt' = [slowAt EXCEPT ![u] = {}] /\ quickAt' = [quickAt EXCEPT ![u] = {}]
    /\ torn' = torn \ {u}
    /\ UNCHANGED <<httpTransactions, began, duration, age, took, reused, setBack,
                   errors, count, slot, report>>

-----------------------------------------------------------------------------
(* sendSafecastCommsErrorsToSlack.                                          *)

Report ==
    /\ report = "wait"
    /\ httpTransactionErrors # 0
    /\ report' = "errors"
    /\ owed' = FALSE
    /\ quiet' = (Failing = {})
    /\ raced' = (raced \/ Failing # {})
    /\ UNCHANGED <<ring, httpTransactionErrors, httpTransactionErrorFirst, errorURL,
                   errorString, first, pc, count, slot>>

ResetErrors ==
    /\ report = "errors"
    /\ httpTransactionErrors' = 0
    /\ first' = Nobody
    /\ report' = "first"
    /\ UNCHANGED <<ring, httpTransactionErrorFirst, errorURL, errorString, owed, raced, quiet,
                   pc, count, slot>>

\* What was confused is not, after a report during which no upload failed.
ResetFirst ==
    /\ report = "first"
    /\ httpTransactionErrorFirst' = TRUE
    /\ raced' = ~quiet
    /\ report' = "wait"
    /\ UNCHANGED <<ring, httpTransactionErrors, errorURL, errorString, owed, first, quiet, pc,
                   count, slot>>

-----------------------------------------------------------------------------
Begin(u) == CountTransaction(u) \/ StoreCount(u) \/ TakeSlot(u)

Scan(u) ==
    \/ StartScan(u) \/ Continue(u) \/ TestLess(u) \/ TestNotLess(u) \/ SetMin(u)
    \/ Finish(u)

End(u) ==
    \/ Succeed(u) \/ Fail(u) \/ CountError(u)
    \/ TestFirst(u) \/ NoteURL(u) \/ NoteString(u)
    \/ Scan(u)

SendErrors == Report \/ ResetErrors \/ ResetFirst

Next ==
    /\ Tick \/ SendErrors \/ \E u \in Upload : Begin(u) \/ End(u)
    /\ UNCHANGED trouble

Spec == Init /\ [][Next]_vars

-----------------------------------------------------------------------------
TypeOK ==
    /\ trouble \in Troubles
    /\ httpTransactions \in Nat /\ httpTransactionErrors \in Nat
    /\ began \in [Slot -> Upload \cup {Nobody}]
    /\ duration \in [Slot -> Ticks] /\ took \in [Slot -> Ticks]
    /\ httpTransactionErrorFirst \in BOOLEAN
    /\ errorURL \in Upload \cup {Nobody} /\ errorString \in Upload \cup {Nobody}
    /\ pc \in [Upload -> {"idle", "counted", "stored", "open", "failed", "first", "detail",
                          "string", "scan", "more", "test", "least", "done", "told"}]
    /\ count \in [Upload -> Nat]
    /\ slot \in [Upload -> Slot]
    /\ theCount \in [Upload -> 0 .. Recorded]
    /\ theMin \in [Upload -> 0 .. Endless]
    /\ slowAt \in [Upload -> SUBSET Slot] /\ quickAt \in [Upload -> SUBSET Slot]
    /\ torn \subseteq Upload
    /\ report \in {"wait", "errors", "first"}
    /\ age \in [Upload -> Ticks]
    /\ reused \in BOOLEAN /\ setBack \in BOOLEAN /\ owed \in BOOLEAN /\ raced \in BOOLEAN /\ quiet \in BOOLEAN
    /\ first \in Upload \cup {Nobody}

\* Slack is told that the service is slow only if the last upload of every slot was, at
\* some moment while the slots were looked at, and it is told if all were all the time:
\* lost increments and slots that are taken from uploads in progress make durations
\* too short, never too long.  It is misled only if a delayed increment sets the
\* counter back, so that slots are overlooked, or if a slot is written just between
\* being compared (safecast.go:736) and being taken for the least (:737), whereby the
\* least may grow again; and not told if a slot was taken from an upload in progress.
SlowAlarmIsTrue ==
    [][\A u \in Upload : pc[u] = "more" /\ pc'[u] \in {"told", "done"} =>
          /\ pc'[u] = "told" /\ ~setBack /\ u \notin torn => slowAt[u] = Slot
          /\ quickAt[u] = {} /\ ~reused => pc'[u] = "told"]_vars

\* An error is lost if it is counted between a report and the reset of the number.
\* Any other will be reported: no race of two uploads, and no reset, hides that there
\* was one.
ErrorsAreNotForgotten == owed => httpTransactionErrors > 0

\* A report quotes the upload that was the first to fail since the last report, its
\* time, URL and error, unless two uploads failed at one moment or one did during a
\* report; and such a confusion ends with the first report during which none fails.
ReportIsTrue ==
    [][report = "wait" /\ report' = "errors" /\ ~raced' =>
          errorURL = first /\ errorString = first]_vars
=============================================================================
