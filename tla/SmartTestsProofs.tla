-------------------------- MODULE SmartTestsProofs --------------------------
(***************************************************************************)
(* The self tests of a drive, for any number of requests, clients and      *)
(* tests and all durations: the device's lock, the open row, and the       *)
(* verdict of a row.  The last rests on Timely, which asks nothing of the  *)
(* grace period; the others ask nothing of the durations at all.           *)
(***************************************************************************)
EXTENDS SmartTests, FiniteSetTheorems, SequenceTheorems, TLAPS

Moments == 0..MaxTime
Past == Words \ {"in progress", "running"}   \* the words of tests that have ended
Entries == [words : SUBSET Past, passed : {"absent", "yes", "no"}]
Outcomes == {"passed", "failed", "aborted"}

TestRecords ==
    [began : Moments, state : {"running"} \cup Outcomes, entry : Entries, shown : BOOLEAN]
RowRecords ==
    [test : Nat, started : Moments, updated : Moments, status : Statuses, result : Results]
Views == [row : Nat, started : Moments, updated : Moments, status : Open]
Replies == {<<>>} \cup (BOOLEAN \X SUBSET Entries)
Polls == [at : {"idle", "asked", "write"}, asked : 0..(MaxTime + 1), answer : Replies, write : Writes]
Rounds == [at : {"wait", "ask", "write"}, began : Moments, todo : SUBSET Views, write : Writes]

(* The types of the variables *)
WorldOK == clock \in Moments /\ kind \in Kinds /\ apart \in BOOLEAN
TableOK == tests \in Seq(TestRecords) /\ log \in Seq(RowRecords)
ReqOK ==
    /\ lock \in Requests \cup {None} /\ held \in SUBSET (Requests \cup {None})
    /\ req \in [Requests -> [at : Places, mine : Requests \cup {None}]]
MoversOK == poll \in [Clients -> Polls] /\ bg \in Rounds

(* A row was made before it was updated, and no row names a test that the drive
   was not given. *)
Dated ==
    /\ \A t \in DOMAIN tests : tests[t].began <= clock
    /\ \A r \in DOMAIN log :
         /\ log[r].test \in {0} \cup DOMAIN tests
         /\ log[r].started <= log[r].updated /\ log[r].updated <= clock

(* A view or a pending write is of a row that is there. *)
Indexed ==
    /\ \A c \in Clients : poll[c].at = "write" =>
         poll[c].write.row \in DOMAIN log /\ poll[c].write.status \in Statuses
    /\ bg.at = "write" => bg.write.row \in DOMAIN log /\ bg.write.status \in Statuses
    /\ \A v \in bg.todo : v.row \in DOMAIN log

(* A lock that is held is held by one request, that is inside. *)
Holding ==
    /\ \A l \in held : \E q \in Requests : req[q].mine = l /\ req[q].at \in Inside
    /\ \A q \in Requests : req[q].at \in Inside => req[q].mine \in held
    /\ \A p, q \in Requests :
         req[p].at \in Inside /\ req[q].at \in Inside /\ req[p].mine = req[q].mine => p = q

(* The entry of the device in SMART_TEST_LOCKS has someone to remove it. *)
Departing == {"lookup", "acquire", "pop"} \cup Inside
Tended == lock # None => \E q \in Requests : req[q].at \in Departing

(* While requests are kept apart, one is inside, and past its look at the rows
   none is open. *)
Alone == apart => \A p, q \in Requests : req[p].at \in Inside /\ req[q].at \in Inside => p = q
Clear == apart => \A q \in Requests : req[q].at \in {"run", "started", "refused"} => OpenRows = {}
Single == apart => \A r, s \in OpenRows : r = s

SmartInv ==
    /\ WorldOK /\ TableOK /\ ReqOK /\ MoversOK
    /\ Dated /\ Indexed /\ Holding /\ Tended /\ Alone /\ Clear /\ Single

(***************************************************************************)
(* The invariants of the verdict.                                          *)
(***************************************************************************)
(* The drive runs its last test only; a test that has ended took its time and
   left the entry of its outcome. *)
InOrder ==
    \A t \in DOMAIN tests :
      IF tests[t].state = "running" THEN t = Len(tests)
      ELSE tests[t].began + Shortest <= clock /\ tests[t].entry \in Printed(kind, tests[t].state)

(* A row follows its test, and an open row is about the drive's last one. *)
Current ==
    /\ \A r \in DOMAIN log : log[r].test # 0 => tests[log[r].test].began <= log[r].started
    /\ \A q \in Requests : req[q].at = "started" => tests # <<>>
    /\ apart => \A r \in OpenRows : log[r].test = Len(tests) /\ log[r].test # 0

(* An answer that shows no test tells of the last test, or is too early. *)
Tells(c) ==
    LET last == tests[Len(tests)] IN
    \/ last.state # "running" /\ poll[c].answer[2] = {last.entry}
    \/ poll[c].asked < last.began + Lag
    \/ poll[c].asked <= last.began

Answered ==
    \A c \in Clients : poll[c].at = "asked" =>
      /\ poll[c].answer # <<>>
      /\ poll[c].asked <= clock /\ clock < poll[c].asked + Stall
      /\ ~poll[c].answer[1] /\ tests # <<>> => Tells(c)

(* The rows that a round goes over: what has begun since, began in the round. *)
Viewed ==
    /\ bg.at = "wait" => bg.todo = {}
    /\ bg.at # "wait" => bg.began <= clock /\ clock < bg.began + Pass
    /\ \A v \in bg.todo : v.started = log[v.row].started
    /\ apart => \A v \in bg.todo :
         /\ log[v.row].test \in DOMAIN tests
         /\ \A t \in DOMAIN tests : t > log[v.row].test => bg.began <= tests[t].began

Passed(r) == log[r].test \in DOMAIN tests /\ tests[log[r].test].state = "passed"

(* A pass that is written, or about to be, is the drive's own, but for what an
   overtaken poll has moved or is about to. *)
Honest ==
    apart =>
      /\ \A r \in DOMAIN log \ late : log[r].result = "passed" => Passed(r)
      /\ \A c \in Clients \ behind :
           poll[c].at = "write" /\ poll[c].write.result = "passed" /\ poll[c].write.row \notin late
             => Passed(poll[c].write.row)
      /\ bg.at = "write" /\ bg.write.result = "passed" /\ bg.write.row \notin late
           => Passed(bg.write.row)

VerdictInv == InOrder /\ Current /\ Answered /\ Viewed /\ Honest

(***************************************************************************)
(* Why a row in progress may be trusted after the grace period, however    *)
(* late the drive shows its tests: somebody has seen its test.             *)
(***************************************************************************)
ToldOK == behind \in SUBSET Clients /\ late \in SUBSET DOMAIN log

Seen(r) == log[r].test \in DOMAIN tests /\ tests[log[r].test].shown

EndedShown == \A t \in DOMAIN tests : tests[t].state # "running" => tests[t].shown

(* Whoever finds a row in progress, or is about to make it so, knows of a test
   that was seen, unless it was overtaken. *)
RowsSeen ==
    apart =>
      /\ \A r \in OpenRows \ late : log[r].status = "in_progress" => Seen(r)
      /\ \A v \in bg.todo : v.status = "in_progress" /\ v.row \notin late => Seen(v.row)
      /\ bg.at = "write" /\ bg.write.status = "in_progress" => Seen(bg.write.row)
      /\ \A c \in Clients \ behind :
           poll[c].at = "write" /\ poll[c].write.status = "in_progress" => Seen(poll[c].write.row)

(* An answer that no change of the table has overtaken is about the test of the
   row that is open: it shows it, or that test, once seen, had ended. *)
AnswersFresh ==
    apart =>
      \A c \in Clients \ behind, r \in OpenRows : poll[c].at = "asked" =>
        /\ poll[c].answer[1] => Seen(r)
        /\ ~poll[c].answer[1] /\ r \notin late /\ log[r].status = "in_progress" =>
             tests[Len(tests)].state # "running" /\ poll[c].answer[2] = {tests[Len(tests)].entry}

SightInv == ToldOK /\ EndedShown /\ RowsSeen /\ AnswersFresh

(* The durations the program counts on: a test shows, and a poll is done,
   within the estimated time of a test; a round of the background thread takes
   no longer than a test.  Of the grace period nothing is asked. *)
Timely == Stall <= Estimated /\ Lag + Stall <= Estimated + 1 /\ Pass <= Shortest

TestInv == SmartInv /\ VerdictInv /\ SightInv

-----------------------------------------------------------------------------
(* What steps leave alone *)

LEMMA TableStands ==
    ASSUME WorldOK, TableOK, MoversOK, Dated, Indexed, apart' \in BOOLEAN,
           UNCHANGED <<clock, kind, tests, log, poll, bg>>
    PROVE  WorldOK' /\ TableOK' /\ MoversOK' /\ Dated' /\ Indexed'
  BY DEF WorldOK, TableOK, MoversOK, Dated, Indexed

LEMMA RequestsStand ==
    ASSUME ReqOK, Holding, Tended, UNCHANGED <<lock, held, req>>
    PROVE  ReqOK' /\ Holding' /\ Tended'
  BY DEF ReqOK, Holding, Tended

(* A step that opens no row, unless it ends apart, keeps the open rows single. *)
LEMMA NoneOpens ==
    ASSUME Alone, Clear, Single, UNCHANGED req, apart' => apart /\ OpenRows' \subseteq OpenRows
    PROVE  Alone' /\ Clear' /\ Single'
  BY DEF Alone, Clear, Single

LEMMA OpenStands == ASSUME UNCHANGED log PROVE OpenRows' = OpenRows
  BY DEF OpenRows

-----------------------------------------------------------------------------
(* The requests *)

LEMMA EnsureLockKeeps ==
    ASSUME SmartInv, NEW q \in Requests, EnsureLock(q)
    PROVE  SmartInv'
  <1> USE DEF SmartInv
  <1>1. /\ UNCHANGED <<clock, kind, tests, log, held, poll, bg, apart>>
        /\ req[q].at = "idle" /\ lock' \in Requests \cup {None}
        /\ \E a \in {"done", "lookup"} : req' = [req EXCEPT ![q].at = a]
        /\ lock' # lock => req' = [req EXCEPT ![q].at = "lookup"]
    BY DEF EnsureLock, Go, ReqOK
  <1>2. ReqOK'
    BY <1>1 DEF ReqOK, Places
  <1>3. \A p \in Requests : /\ p # q => req'[p] = req[p]
                            /\ req'[p].mine = req[p].mine
                            /\ req'[q].at \in {"done", "lookup"}
    BY <1>1 DEF ReqOK
  <1>4. Holding'
    BY <1>1, <1>3 DEF Holding, Inside
  <1>5. Tended'
    <2>1. CASE lock' = lock
      BY <1>1, <1>3, <2>1 DEF Tended, Departing, Inside
    <2>2. CASE lock' # lock
      <3>1. req'[q].at = "lookup"
        BY <1>1, <2>2 DEF ReqOK
      <3> QED
        BY <3>1 DEF Tended, Departing
    <2> QED
      BY <2>1, <2>2
  <1>6. Alone' /\ Clear' /\ Single'
    BY <1>1, <1>3, OpenStands DEF Alone, Clear, Single, Inside
  <1> QED
    BY <1>1, <1>2, <1>4, <1>5, <1>6, TableStands DEF WorldOK

LEMMA LookupLockKeeps ==
    ASSUME SmartInv, NEW q \in Requests, LookupLock(q)
    PROVE  SmartInv'
  <1> USE DEF SmartInv
  <1>1. /\ UNCHANGED <<clock, kind, tests, log, lock, held, poll, bg, apart>>
        /\ req[q].at = "lookup"
        /\ req' = [req EXCEPT ![q] = IF lock = None THEN [@ EXCEPT !.at = "done"]
                                     ELSE [at |-> "acquire", mine |-> lock]]
    BY DEF LookupLock
  <1>2. ReqOK'
    BY <1>1 DEF ReqOK, Places
  <1>3. /\ \A p \in Requests \ {q} : req'[p] = req[p]
        /\ req'[q].at = IF lock = None THEN "done" ELSE "acquire"
    BY <1>1 DEF ReqOK
  <1>4. Holding'
    BY <1>1, <1>3 DEF Holding, Inside
  <1>5. Tended'
    BY <1>1, <1>3 DEF Tended, Departing
  <1>6. Alone' /\ Clear' /\ Single'
    BY <1>1, <1>3, OpenStands DEF Alone, Clear, Single, Inside
  <1> QED
    BY <1>1, <1>2, <1>4, <1>5, <1>6, TableStands DEF WorldOK

LEMMA AcquireLockKeeps ==
    ASSUME SmartInv, NEW q \in Requests, AcquireLock(q)
    PROVE  SmartInv'
  <1> USE DEF SmartInv
  <1>1. UNCHANGED <<clock, kind, tests, log, lock, poll, bg>> /\ req[q].at = "acquire"
    BY DEF AcquireLock
  <1>2. CASE Acquirable(q)
    <2>1. /\ req' = [req EXCEPT ![q].at = "check"] /\ held' = held \cup {req[q].mine}
          /\ req[q].mine \notin held
          /\ apart' = (apart /\ \A p \in Requests : req[p].at \notin Inside)
      BY <1>2 DEF AcquireLock, Acquirable, Go
    <2>2. ReqOK' /\ apart' \in BOOLEAN
      BY <1>1, <2>1 DEF ReqOK, Places, WorldOK
    <2>3. /\ \A p \in Requests \ {q} : req'[p] = req[p]
          /\ req'[q].at = "check" /\ req'[q].mine = req[q].mine
      BY <2>1 DEF ReqOK
    <2>4. Holding'
      BY <1>1, <2>1, <2>3 DEF Holding, Inside
    <2>5. Tended'
      BY <2>3 DEF Tended, Departing, Inside
    <2>6. apart' => apart /\ \A p \in Requests \ {q} : req'[p].at \notin Inside
      BY <2>1, <2>3
    <2>7. Alone'
      BY <2>6 DEF Alone
    <2>8. Clear'
      BY <2>3, <2>6 DEF Clear, Inside
    <2>9. Single'
      BY <1>1, <2>6, OpenStands DEF Single
    <2> QED
      BY <1>1, <2>2, <2>4, <2>5, <2>7, <2>8, <2>9, TableStands
  <1>3. CASE ~Acquirable(q)
    <2>1. /\ req' = [req EXCEPT ![q].at = "done"] /\ UNCHANGED <<held, apart>>
          /\ req[q].mine \in held
      BY <1>3 DEF AcquireLock, Acquirable, Go
    <2>2. ReqOK' /\ apart' \in BOOLEAN
      BY <1>1, <2>1 DEF ReqOK, Places, WorldOK
    <2>3. /\ \A p \in Requests \ {q} : req'[p] = req[p]
          /\ req'[q].at = "done"
      BY <2>1 DEF ReqOK
    <2>4. Holding'
      BY <1>1, <2>1, <2>3 DEF Holding, Inside
    <2>5. Tended'
      <3>1. PICK p \in Requests : req[p].mine = req[q].mine /\ req[p].at \in Inside
        BY <2>1 DEF Holding
      <3> QED
        BY <1>1, <2>3, <3>1 DEF Tended, Departing, Inside
    <2>6. Alone' /\ Clear' /\ Single'
      BY <1>1, <2>1, <2>3, OpenStands DEF Alone, Clear, Single, Inside
    <2> QED
      BY <1>1, <2>2, <2>4, <2>5, <2>6, TableStands
  <1> QED
    BY <1>2, <1>3

(* A request that moves on inside keeps the lock. *)
LEMMA StillInside ==
    ASSUME ReqOK, Holding, Tended, NEW q \in Requests, NEW a \in Inside, Go(q, a),
           req[q].at \in Inside, UNCHANGED <<lock, held>>
    PROVE  /\ ReqOK' /\ Holding' /\ Tended'
           /\ req'[q].at = a /\ \A p \in Requests \ {q} : req'[p] = req[p]
  <1>1. ReqOK'
    BY DEF ReqOK, Go, Inside, Places
  <1>2. /\ req'[q].at = a /\ req'[q].mine = req[q].mine
        /\ \A p \in Requests \ {q} : req'[p] = req[p]
    BY DEF ReqOK, Go
  <1>3. Holding'
    BY <1>2 DEF Holding
  <1>4. Tended'
    BY <1>2 DEF Tended, Departing
  <1> QED
    BY <1>1, <1>2, <1>3, <1>4

LEMMA CheckDriveKeeps ==
    ASSUME SmartInv, NEW q \in Requests, CheckDrive(q)
    PROVE  SmartInv'
  <1> USE DEF SmartInv
  <1>1. /\ UNCHANGED <<clock, kind, tests, log, lock, held, poll, bg>> /\ req[q].at = "check"
        /\ \/ Go(q, "run") /\ apart' = (apart /\ NoOpenRow)
           \/ Go(q, "release") /\ apart' = apart
    BY DEF CheckDrive
  <1>2. /\ ReqOK' /\ Holding' /\ Tended'
        /\ req'[q].at \in {"run", "release"} /\ \A p \in Requests \ {q} : req'[p] = req[p]
    BY <1>1, StillInside DEF Inside
  <1>3. apart' \in BOOLEAN /\ (apart' => apart)
    <2>1. CASE apart' = (apart /\ NoOpenRow)
      BY <2>1
    <2>2. CASE apart' = apart
      BY <2>2 DEF WorldOK
    <2> QED
      BY <1>1, <2>1, <2>2
  <1>4. NoOpenRow => OpenRows = {}
    BY DEF NoOpenRow, OpenRows
  <1>5. apart' /\ req'[q].at = "run" => OpenRows = {}
    <2>1. CASE Go(q, "run") /\ apart' = (apart /\ NoOpenRow)
      BY <1>4, <2>1
    <2>2. CASE Go(q, "release")
      BY <2>2 DEF Go, ReqOK
    <2> QED
      BY <1>1, <2>1, <2>2
  <1>6. Alone' /\ Clear' /\ Single'
    BY <1>1, <1>2, <1>3, <1>5, OpenStands DEF Alone, Clear, Single, Inside
  <1> QED
    BY <1>1, <1>2, <1>3, <1>6, TableStands

(* smartctl starts a test only if none runs. *)
LEMMA RunSmartTestKeeps ==
    ASSUME SmartInv, NEW q \in Requests, RunSmartTest(q)
    PROVE  SmartInv'
  <1> USE DEF SmartInv
  <1>1. /\ UNCHANGED <<clock, kind, log, lock, held, poll, bg, apart>> /\ req[q].at = "run"
        /\ \/ Go(q, "started") \/ Go(q, "refused")
        /\ tests' = Append(tests, NewTest) \/ tests' = tests
    BY DEF RunSmartTest
  <1>2. /\ ReqOK' /\ Holding' /\ Tended'
        /\ req'[q].at \in {"started", "refused"} /\ \A p \in Requests \ {q} : req'[p] = req[p]
    BY <1>1, StillInside DEF Inside
  <1>3. NewTest \in TestRecords
    BY DEF NewTest, TestRecords, Entry, Entries, WorldOK, Words
  <1>4. /\ tests' \in Seq(TestRecords) /\ DOMAIN tests \subseteq DOMAIN tests'
        /\ \A t \in DOMAIN tests' : tests'[t].began <= clock
    <2>1. CASE tests' = Append(tests, NewTest)
      <3>1. NewTest.began = clock
        BY DEF NewTest
      <3> QED
        BY <1>3, <2>1, <3>1 DEF TableOK, Dated, WorldOK, Moments
    <2>2. CASE tests' = tests
      BY <2>2 DEF TableOK, Dated
    <2> QED
      BY <1>1, <2>1, <2>2
  <1>5. WorldOK' /\ TableOK' /\ MoversOK' /\ Dated' /\ Indexed'
    BY <1>1, <1>4 DEF WorldOK, TableOK, MoversOK, Dated, Indexed
  <1>6. Alone' /\ Clear' /\ Single'
    BY <1>1, <1>2, OpenStands DEF Alone, Clear, Single, Inside
  <1> QED
    BY <1>2, <1>5, <1>6

(* The one row that a request adds is the one that may be open. *)
LEMMA RowAdded ==
    ASSUME TableOK, NEW x \in RowRecords, log' = Append(log, x)
    PROVE  /\ log' \in Seq(RowRecords) /\ DOMAIN log' = DOMAIN log \cup {Len(log) + 1}
           /\ log'[Len(log) + 1] = x /\ \A r \in DOMAIN log : log'[r] = log[r]
           /\ Len(log) + 1 \notin DOMAIN log
           /\ OpenRows' \subseteq OpenRows \cup {Len(log) + 1}
  <1>1. /\ log' \in Seq(RowRecords) /\ DOMAIN log' = DOMAIN log \cup {Len(log) + 1}
        /\ log'[Len(log) + 1] = x /\ \A r \in DOMAIN log : log'[r] = log[r]
        /\ Len(log) + 1 \notin DOMAIN log
    BY DEF TableOK
  <1> QED
    BY <1>1 DEF OpenRows

LEMMA RecordRunKeeps ==
    ASSUME SmartInv, NEW q \in Requests, RecordRun(q)
    PROVE  SmartInv'
  <1> USE DEF SmartInv
  <1>1. /\ UNCHANGED <<clock, kind, tests, lock, held, poll, bg, apart>>
        /\ req[q].at \in {"started", "refused"} /\ Go(q, "release")
    BY DEF RecordRun
  <1>2. /\ ReqOK' /\ Holding' /\ Tended'
        /\ req'[q].at = "release" /\ \A p \in Requests \ {q} : req'[p] = req[p]
    BY <1>1, StillInside DEF Inside
  <1>3. CASE log' = log
    <2>1. Alone' /\ Clear' /\ Single'
      BY <1>1, <1>2, <1>3, OpenStands DEF Alone, Clear, Single, Inside
    <2> QED
      BY <1>1, <1>2, <1>3, <2>1, TableStands DEF WorldOK
  <1>4. ASSUME NEW x \in RowRecords, log' = Append(log, x),
               x.test \in {0} \cup DOMAIN tests, x.started = clock, x.updated = clock
        PROVE  SmartInv'
    <2>1. /\ log' \in Seq(RowRecords) /\ DOMAIN log' = DOMAIN log \cup {Len(log) + 1}
          /\ log'[Len(log) + 1] = x /\ \A r \in DOMAIN log : log'[r] = log[r]
          /\ OpenRows' \subseteq OpenRows \cup {Len(log) + 1}
      BY <1>4, RowAdded
    <2>2. WorldOK' /\ TableOK' /\ MoversOK' /\ Indexed'
      BY <1>1, <2>1 DEF WorldOK, TableOK, MoversOK, Indexed
    <2>3. Dated'
      BY <1>1, <1>4, <2>1 DEF Dated, WorldOK, Moments
    <2>4. apart => OpenRows' \subseteq {Len(log) + 1}
      BY <1>1, <2>1 DEF Clear
    <2>5. apart => \A p \in Requests \ {q} : req[p].at \notin Inside
      BY <1>1 DEF Alone, Inside
    <2>6. Alone' /\ Clear' /\ Single'
      BY <1>1, <1>2, <2>4, <2>5 DEF Alone, Clear, Single, Inside
    <2> QED
      BY <1>2, <2>2, <2>3, <2>6
  <1>5. CASE log' = Append(log, Row(Len(tests), "started")) /\ req[q].at = "started"
    <2>1. Len(tests) \in {0} \cup DOMAIN tests /\ Len(tests) \in Nat
      BY DEF TableOK
    <2>2. Row(Len(tests), "started") \in RowRecords
      BY <2>1 DEF Row, RowRecords, WorldOK, Statuses, Open, Results
    <2> QED
      BY <1>4, <1>5, <2>1, <2>2 DEF Row
  <1>6. CASE log' = Append(log, Row(0, "failed"))
    <2>1. Row(0, "failed") \in RowRecords
      BY DEF Row, RowRecords, WorldOK, Statuses, Results
    <2> QED
      BY <1>4, <1>6, <2>1 DEF Row
  <1> QED
    BY <1>3, <1>5, <1>6 DEF RecordRun

LEMMA ReleaseLockKeeps ==
    ASSUME SmartInv, NEW q \in Requests, ReleaseLock(q)
    PROVE  SmartInv'
  <1> USE DEF SmartInv
  <1>1. /\ UNCHANGED <<clock, kind, tests, log, lock, poll, bg, apart>> /\ req[q].at = "release"
        /\ req' = [req EXCEPT ![q].at = "pop"] /\ held' = held \ {req[q].mine}
    BY DEF ReleaseLock, Go
  <1>2. ReqOK'
    BY <1>1 DEF ReqOK, Places
  <1>3. /\ \A p \in Requests \ {q} : req'[p] = req[p]
        /\ req'[q].at = "pop" /\ req'[q].mine = req[q].mine
    BY <1>1 DEF ReqOK
  <1>4. Holding'
    <2>1. \A p \in Requests \ {q} : req[p].at \in Inside => req[p].mine # req[q].mine
      BY <1>1 DEF Holding, Inside
    <2> QED
      BY <1>1, <1>3, <2>1 DEF Holding, Inside
  <1>5. Tended'
    BY <1>3 DEF Tended, Departing
  <1>6. Alone' /\ Clear' /\ Single'
    BY <1>1, <1>3, OpenStands DEF Alone, Clear, Single, Inside
  <1> QED
    BY <1>1, <1>2, <1>4, <1>5, <1>6, TableStands DEF WorldOK

LEMMA PopLockKeeps ==
    ASSUME SmartInv, NEW q \in Requests, PopLock(q)
    PROVE  SmartInv'
  <1> USE DEF SmartInv
  <1>1. /\ UNCHANGED <<clock, kind, tests, log, held, poll, bg, apart>> /\ req[q].at = "pop"
        /\ req' = [req EXCEPT ![q].at = "done"] /\ lock' = None
    BY DEF PopLock, Go
  <1>2. ReqOK' /\ Tended'
    BY <1>1 DEF ReqOK, Places, Tended
  <1>3. /\ \A p \in Requests \ {q} : req'[p] = req[p]
        /\ req'[q].at = "done" /\ req'[q].mine = req[q].mine
    BY <1>1 DEF ReqOK
  <1>4. Holding'
    BY <1>1, <1>3 DEF Holding, Inside
  <1>5. Alone' /\ Clear' /\ Single'
    BY <1>1, <1>3, OpenStands DEF Alone, Clear, Single, Inside
  <1> QED
    BY <1>1, <1>2, <1>4, <1>5, TableStands DEF WorldOK

-----------------------------------------------------------------------------
(* Those that move a row *)

LEMMA ResultsTyped ==
    ASSUME NEW k, NEW e
    PROVE  PollResult(k, e) \in Results /\ BackgroundResult(k, e) \in Results
  BY DEF PollResult, BackgroundResult, Results, Result

LEMMA ResultOfPoll ==
    ASSUME NEW answer
    PROVE  /\ ResultOf(answer, PollResult) \in Results
           /\ ResultOf(answer, PollResult) = "passed" =>
                \E e \in answer[2] : PollResult(kind, e) = "passed"
  <1>1. CASE answer[2] = {}
    BY <1>1 DEF ResultOf, Results
  <1>2. CASE answer[2] # {}
    <2> DEFINE e == CHOOSE x \in answer[2] : TRUE
    <2>1. e \in answer[2]
      BY <1>2
    <2>2. ResultOf(answer, PollResult) = PollResult(kind, e)
      BY <1>2 DEF ResultOf
    <2> QED
      BY <2>1, <2>2, ResultsTyped
  <1> QED
    BY <1>1, <1>2

LEMMA ResultOfBackground ==
    ASSUME NEW answer
    PROVE  /\ ResultOf(answer, BackgroundResult) \in Results
           /\ ResultOf(answer, BackgroundResult) = "passed" =>
                \E e \in answer[2] : BackgroundResult(kind, e) = "passed"
  <1>1. CASE answer[2] = {}
    BY <1>1 DEF ResultOf, Results
  <1>2. CASE answer[2] # {}
    <2> DEFINE e == CHOOSE x \in answer[2] : TRUE
    <2>1. e \in answer[2]
      BY <1>2
    <2>2. ResultOf(answer, BackgroundResult) = BackgroundResult(kind, e)
      BY <1>2 DEF ResultOf
    <2> QED
      BY <2>1, <2>2, ResultsTyped
  <1> QED
    BY <1>1, <1>2

(* Only a trusted answer that says completed, with the result of a pass, is
   written as one. *)
LEMMA ChangeTells ==
    ASSUME NEW row, NEW answer, NEW result \in Results, NEW to \in Change(row, answer, result)
    PROVE  /\ to.status \in Statuses /\ to.result \in Results
           /\ to.result = "passed" =>
                /\ result = "passed" /\ Trusted(row)
                /\ DriveStatus(kind, answer[1], answer[2]) = "completed"
           /\ to.status = "in_progress" => DriveStatus(kind, answer[1], answer[2]) = "in_progress"
  <1> DEFINE status == DriveStatus(kind, answer[1], answer[2])
  <1>1. CASE status = "in_progress"
    <2>1. to = To("in_progress", None)
      BY <1>1 DEF Change
    <2> QED
      BY <1>1, <2>1 DEF To, Statuses, Open, Results, None
  <1>2. CASE status # "in_progress"
    <2>1. Trusted(row)
      BY <1>2 DEF Change
    <2>2. /\ status = "completed" => to = To("completed", result)
          /\ status # "completed" =>
               to \in {To("failed", "failed"), To("failed", "aborted"), To("completed", "unknown")}
      BY <1>2, <2>1 DEF Change
    <2>3. CASE status = "completed"
      BY <2>1, <2>2, <2>3 DEF To, Statuses
    <2>4. CASE status # "completed"
      <3>1. to.status \in {"failed", "completed"} /\ to.result \in {"failed", "aborted", "unknown"}
        BY <2>2, <2>4 DEF To
      <3> QED
        BY <3>1 DEF Statuses, Results
    <2> QED
      BY <2>3, <2>4
  <1> QED
    BY <1>1, <1>2

(* What an update leaves of the other rows, and of its own. *)
LEMMA Applied ==
    ASSUME WorldOK, TableOK, NEW w \in Writes, w.row \in DOMAIN log, w.status \in Statuses, Apply(w)
    PROVE  /\ log' \in Seq(RowRecords) /\ DOMAIN log' = DOMAIN log
           /\ \A r \in DOMAIN log :
                /\ log'[r].test = log[r].test /\ log'[r].started = log[r].started
                /\ \/ log'[r] = log[r]
                   \/ /\ r = w.row /\ Matches(w) /\ log'[r].updated = clock
                      /\ log'[r].status = w.status /\ log'[r].result = w.result
           /\ apart' \in BOOLEAN
           /\ apart' => apart /\ OpenRows' \subseteq OpenRows
  <1>1. CASE ~Matches(w)
    <2>1. log' = log
      BY <1>1 DEF Apply
    <2>2. ~Reopens(w)
      BY <1>1 DEF Reopens
    <2>3. apart' = apart
      BY <2>2 DEF Apply, WorldOK
    <2> QED
      BY <2>1, <2>3, OpenStands DEF TableOK, WorldOK
  <1>2. CASE Matches(w)
    <2> DEFINE x == [log[w.row] EXCEPT !.status = w.status, !.result = w.result, !.updated = clock]
    <2>1. log[w.row] \in RowRecords
      BY DEF TableOK
    <2>2. /\ x \in RowRecords
          /\ x.test = log[w.row].test /\ x.started = log[w.row].started /\ x.updated = clock
          /\ x.status = w.status /\ x.result = w.result
      BY <2>1 DEF RowRecords, Writes, WorldOK
    <2>3. log' = [log EXCEPT ![w.row] = x]
      BY <1>2, <2>1 DEF Apply, TableOK
    <2> HIDE DEF x
    <2>4. /\ log' \in Seq(RowRecords) /\ DOMAIN log' = DOMAIN log
          /\ log'[w.row] = x /\ \A r \in DOMAIN log \ {w.row} : log'[r] = log[r]
      BY <2>2, <2>3 DEF TableOK
    <2>5. apart' = (apart /\ ~Reopens(w))
      BY DEF Apply
    <2>6. apart' \in BOOLEAN
      BY <2>5
    <2>7. ASSUME apart' PROVE apart /\ OpenRows' \subseteq OpenRows
      <3>1. apart /\ (w.status \in Open => log[w.row].status \in Open)
        BY <1>2, <2>5, <2>7 DEF Reopens
      <3> QED
        BY <2>2, <2>4, <3>1 DEF OpenRows
    <2> QED
      BY <1>2, <2>2, <2>4, <2>6, <2>7
  <1> QED
    BY <1>1, <1>2

(* An update keeps the tables; whoever made it moves on. *)
LEMMA ApplyKeeps ==
    ASSUME SmartInv, NEW w \in Writes, w.row \in DOMAIN log, w.status \in Statuses, Apply(w),
           UNCHANGED <<clock, kind, tests, lock, held, req>>
    PROVE  /\ WorldOK' /\ TableOK' /\ ReqOK' /\ Dated' /\ Holding' /\ Tended'
           /\ Alone' /\ Clear' /\ Single' /\ DOMAIN log' = DOMAIN log
  <1> USE DEF SmartInv
  <1>1. /\ log' \in Seq(RowRecords) /\ DOMAIN log' = DOMAIN log
        /\ \A r \in DOMAIN log :
             /\ log'[r].test = log[r].test /\ log'[r].started = log[r].started
             /\ log'[r] = log[r] \/ log'[r].updated = clock
        /\ apart' \in BOOLEAN
        /\ apart' => apart /\ OpenRows' \subseteq OpenRows
    BY Applied
  <1>2. WorldOK' /\ TableOK'
    BY <1>1 DEF WorldOK, TableOK
  <1>3. Dated'
    <2>1. \A r \in DOMAIN log : log[r] \in RowRecords
      BY DEF TableOK
    <2>2. \A r \in DOMAIN log : log[r].started <= clock
      BY <2>1 DEF Dated, RowRecords, WorldOK, Moments
    <2> QED
      BY <1>1, <2>2 DEF Dated, WorldOK, Moments
  <1>4. Alone' /\ Clear' /\ Single'
    BY <1>1, NoneOpens
  <1> QED
    BY <1>1, <1>2, <1>3, <1>4, RequestsStand

(* An answer may note that a test has shown; nothing else of a test changes. *)
LEMMA Noticed ==
    ASSUME TableOK, NEW a, Shown(a)
    PROVE  /\ tests' \in Seq(TestRecords) /\ Len(tests') = Len(tests) /\ DOMAIN tests' = DOMAIN tests
           /\ \A t \in DOMAIN tests :
                /\ tests'[t].began = tests[t].began /\ tests'[t].state = tests[t].state
                /\ tests'[t].entry = tests[t].entry
                /\ tests'[t].shown = (tests[t].shown \/ (t \in Running /\ a[1]))
  <1> DEFINE seen(t) == IF t \in Running /\ a[1] THEN [tests[t] EXCEPT !.shown = TRUE] ELSE tests[t]
  <1>1. ASSUME NEW t \in DOMAIN tests
        PROVE  /\ seen(t) \in TestRecords
               /\ seen(t).began = tests[t].began /\ seen(t).state = tests[t].state
               /\ seen(t).entry = tests[t].entry
               /\ seen(t).shown = (tests[t].shown \/ (t \in Running /\ a[1]))
    <2>1. tests[t] \in TestRecords
      BY DEF TableOK
    <2>2. CASE t \in Running /\ a[1]
      BY <2>1, <2>2 DEF TestRecords
    <2>3. CASE ~(t \in Running /\ a[1])
      <3>1. seen(t) = tests[t] /\ tests[t].shown \in BOOLEAN
        BY <2>1, <2>3 DEF TestRecords
      <3> QED
        BY <2>1, <2>3, <3>1
    <2> QED
      BY <2>2, <2>3
  <1>2. tests' = [t \in DOMAIN tests |-> seen(t)]
    BY DEF Shown
  <1> HIDE DEF seen
  <1>3. DOMAIN tests = 1..Len(tests) /\ Len(tests) \in Nat
    BY DEF TableOK
  <1> QED
    BY <1>1, <1>2, <1>3

LEMMA AnswersTyped ==
    ASSUME TableOK, NEW a \in Answers
    PROVE  a \in BOOLEAN \X SUBSET Entries
  <1>1. ASSUME NEW t \in DOMAIN tests PROVE tests[t].entry \in Entries
    <2>1. tests[t] \in TestRecords
      BY DEF TableOK
    <2> QED
      BY <2>1 DEF TestRecords
  <1>2. Latest \subseteq Entries
    BY <1>1 DEF Latest, Ended
  <1>3. a \in {<<TRUE, Latest>>, <<FALSE, Latest>>}
    BY DEF Answers
  <1>4. \A x \in BOOLEAN, y \in SUBSET Entries : <<x, y>> \in BOOLEAN \X SUBSET Entries
    OBVIOUS
  <1> QED
    BY <1>2, <1>3, <1>4

LEMMA WritesTyped ==
    ASSUME WorldOK, TableOK, NEW r \in DOMAIN log, NEW stamp \in Moments, NEW row, NEW answer,
           NEW result \in Results, NEW to \in Change(row, answer, result)
    PROVE  /\ Update(r, stamp, to) \in Writes
           /\ Update(r, stamp, to).row = r /\ Update(r, stamp, to).status \in Statuses
           /\ Update(r, stamp, to).result = to.result /\ Update(r, stamp, to).status = to.status
  <1>1. r \in Nat
    BY DEF TableOK
  <1>2. to.status \in Statuses /\ to.result \in Results
    BY ChangeTells
  <1> QED
    BY <1>1, <1>2 DEF Update, Writes, Moments

LEMMA NoWriteTyped == NoWrite \in Writes
  BY SmartTestsAssumption DEF NoWrite, Writes, Results

(* Steps of a client or the background thread that write nothing. *)
LEMMA MoverStands ==
    ASSUME SmartInv, UNCHANGED <<clock, kind, log, lock, held, req, apart>>,
           tests' \in Seq(TestRecords), DOMAIN tests' = DOMAIN tests,
           \A t \in DOMAIN tests : tests'[t].began = tests[t].began,
           MoversOK', Indexed'
    PROVE  SmartInv'
  <1> USE DEF SmartInv
  <1>1. WorldOK' /\ TableOK' /\ Dated'
    BY DEF WorldOK, TableOK, Dated
  <1>2. Alone' /\ Clear' /\ Single'
    BY OpenStands, NoneOpens
  <1> QED
    BY <1>1, <1>2, RequestsStand

LEMMA AskDriveKeeps ==
    ASSUME SmartInv, NEW c \in Clients, AskDrive(c)
    PROVE  SmartInv'
  <1> USE DEF SmartInv
  <1>1. PICK a \in Answers :
          /\ Shown(a)
          /\ poll' = [poll EXCEPT ![c].at = "asked", ![c].asked = clock, ![c].answer = a]
    BY DEF AskDrive
  <1>2. UNCHANGED <<clock, kind, log, lock, held, req, bg, apart>>
    BY DEF AskDrive
  <1>3. /\ tests' \in Seq(TestRecords) /\ DOMAIN tests' = DOMAIN tests
        /\ \A t \in DOMAIN tests : tests'[t].began = tests[t].began
    BY <1>1, Noticed
  <1>4. a \in Replies /\ clock \in 0..(MaxTime + 1)
    BY AnswersTyped, SmartTestsAssumption DEF Replies, WorldOK, Moments
  <1>5. /\ poll'[c].at = "asked" /\ poll' \in [Clients -> Polls]
        /\ \A d \in Clients \ {c} : poll'[d] = poll[d]
    BY <1>1, <1>4 DEF MoversOK, Polls
  <1>6. MoversOK' /\ Indexed'
    BY <1>2, <1>5 DEF MoversOK, Indexed
  <1> QED
    BY <1>2, <1>3, <1>6, MoverStands

LEMMA Idles ==
    ASSUME MoversOK, NEW c \in Clients, poll' = Idle(c)
    PROVE  /\ poll' \in [Clients -> Polls] /\ poll'[c].at = "idle"
           /\ \A d \in Clients \ {c} : poll'[d] = poll[d]
  BY NoWriteTyped DEF MoversOK, Idle, Polls, Replies

(* What a look at the row makes the client write. *)
LEMMA LookTells ==
    ASSUME WorldOK, TableOK, NEW r \in DOMAIN log, NEW answer, NEW w \in PollWrites(r, answer)
    PROVE  /\ w \in Writes /\ w.row = r /\ w.status \in Statuses /\ log[r].status \in Open
           /\ w.result = "passed" =>
                /\ Trusted(log[r]) /\ DriveStatus(kind, answer[1], answer[2]) = "completed"
                /\ \E e \in answer[2] : PollResult(kind, e) = "passed"
           /\ w.status = "in_progress" => DriveStatus(kind, answer[1], answer[2]) = "in_progress"
  <1>1. log[r].status \in Open
    BY DEF PollWrites
  <1>2. PICK to \in Change(log[r], answer, ResultOf(answer, PollResult)) :
          w = Update(r, log[r].updated, to)
    BY <1>1 DEF PollWrites
  <1>3. log[r] \in RowRecords
    BY DEF TableOK
  <1>4. log[r].updated \in Moments
    BY <1>3 DEF RowRecords
  <1>5. ResultOf(answer, PollResult) \in Results
    BY ResultOfPoll
  <1>6. /\ w \in Writes /\ w.row = r /\ w.status \in Statuses
        /\ w.result = to.result /\ w.status = to.status
    BY <1>2, <1>4, <1>5, WritesTyped
  <1>7. /\ to.result = "passed" =>
             /\ ResultOf(answer, PollResult) = "passed" /\ Trusted(log[r])
             /\ DriveStatus(kind, answer[1], answer[2]) = "completed"
        /\ to.status = "in_progress" => DriveStatus(kind, answer[1], answer[2]) = "in_progress"
    BY <1>5, ChangeTells
  <1>8. to.result = "passed" => \E e \in answer[2] : PollResult(kind, e) = "passed"
    BY <1>7, ResultOfPoll
  <1> QED
    BY <1>1, <1>6, <1>7, <1>8

LEMMA ReadRowKeeps ==
    ASSUME SmartInv, NEW c \in Clients, ReadRow(c)
    PROVE  SmartInv'
  <1> USE DEF SmartInv
  <1>1. UNCHANGED <<clock, kind, tests, log, lock, held, req, bg, apart>>
    BY DEF ReadRow
  <1>2. tests' \in Seq(TestRecords)
    BY <1>1 DEF TableOK
  <1>3. CASE poll' = Idle(c)
    BY <1>1, <1>2, <1>3, Idles, MoverStands DEF MoversOK, Indexed
  <1>4. ASSUME NEW r \in DOMAIN log, NEW w \in PollWrites(r, poll[c].answer),
               poll' = [poll EXCEPT ![c].at = "write", ![c].write = w]
        PROVE  SmartInv'
    <2>1. w \in Writes /\ w.row \in DOMAIN log /\ w.status \in Statuses
      BY LookTells
    <2>2. /\ poll' \in [Clients -> Polls] /\ poll'[c].write = w
          /\ \A d \in Clients \ {c} : poll'[d] = poll[d]
      BY <1>4, <2>1 DEF MoversOK, Polls
    <2>3. MoversOK' /\ Indexed'
      BY <1>1, <2>1, <2>2 DEF MoversOK, Indexed
    <2> QED
      BY <1>1, <1>2, <2>3, MoverStands
  <1>5. ASSUME NEW r \in LatestRows,
               LET w == PollWrites(r, poll[c].answer) IN
               IF w = {} THEN poll' = Idle(c)
               ELSE poll' = [poll EXCEPT ![c].at = "write", ![c].write = CHOOSE x \in w : TRUE]
        PROVE  SmartInv'
    <2>1. r \in DOMAIN log
      BY DEF LatestRows
    <2>2. CASE PollWrites(r, poll[c].answer) = {}
      BY <1>3, <1>5, <2>2
    <2>3. CASE PollWrites(r, poll[c].answer) # {}
      <3> DEFINE w == CHOOSE x \in PollWrites(r, poll[c].answer) : TRUE
      <3>1. w \in PollWrites(r, poll[c].answer)
        BY <2>3
      <3>2. poll' = [poll EXCEPT ![c].at = "write", ![c].write = w]
        BY <1>5, <2>3
      <3> QED
        BY <1>4, <2>1, <3>1, <3>2
    <2> QED
      BY <2>2, <2>3
  <1> QED
    BY <1>3, <1>5 DEF ReadRow

LEMMA WriteRowKeeps ==
    ASSUME SmartInv, NEW c \in Clients, WriteRow(c)
    PROVE  SmartInv'
  <1> USE DEF SmartInv
  <1>1. /\ UNCHANGED <<clock, kind, tests, lock, held, req, bg>> /\ poll[c].at = "write"
        /\ Apply(poll[c].write) /\ poll' = Idle(c)
    BY DEF WriteRow
  <1>2. poll[c].write \in Writes
    BY DEF MoversOK, Polls
  <1>3. poll[c].write.row \in DOMAIN log /\ poll[c].write.status \in Statuses
    BY <1>1 DEF Indexed
  <1>4. /\ WorldOK' /\ TableOK' /\ ReqOK' /\ Dated' /\ Holding' /\ Tended'
        /\ Alone' /\ Clear' /\ Single' /\ DOMAIN log' = DOMAIN log
    BY <1>1, <1>2, <1>3, ApplyKeeps
  <1>5. MoversOK' /\ Indexed'
    BY <1>1, <1>4, Idles DEF MoversOK, Indexed
  <1> QED
    BY <1>4, <1>5

(* What an answer makes the background thread write of a view. *)
LEMMA BackgroundTells ==
    ASSUME WorldOK, TableOK, MoversOK, Indexed, NEW v \in bg.todo, NEW answer,
           NEW w \in BackgroundWrites(v, answer)
    PROVE  /\ w \in Writes /\ w.row = v.row /\ w.status \in Statuses
           /\ w.result = "passed" =>
                /\ Trusted(v) /\ DriveStatus(kind, answer[1], answer[2]) = "completed"
                /\ \E e \in answer[2] : BackgroundResult(kind, e) = "passed"
           /\ w.status = "in_progress" => DriveStatus(kind, answer[1], answer[2]) = "in_progress"
  <1>1. v \in Views /\ v.row \in DOMAIN log
    BY DEF MoversOK, Rounds, Indexed
  <1>2. PICK to \in Change(v, answer, ResultOf(answer, BackgroundResult)) :
          w = Update(v.row, v.updated, to)
    BY DEF BackgroundWrites
  <1>3. v.updated \in Moments
    BY <1>1 DEF Views
  <1>4. ResultOf(answer, BackgroundResult) \in Results
    BY ResultOfBackground
  <1>5. /\ w \in Writes /\ w.row = v.row /\ w.status \in Statuses
        /\ w.result = to.result /\ w.status = to.status
    BY <1>1, <1>2, <1>3, <1>4, WritesTyped
  <1> QED
    BY <1>4, <1>5, ChangeTells, ResultOfBackground

LEMMA Done ==
    ASSUME MoversOK, NEW v \in bg.todo, NEW ws, NEW w \in Writes,
           ws = {} \/ w = CHOOSE x \in ws : TRUE, DoneWith(v, ws)
    PROVE  /\ bg' \in Rounds /\ bg'.todo = bg.todo \ {v}
           /\ bg'.at = "write" => ws # {} /\ bg'.write = w
           /\ bg'.at = "wait" => bg'.todo = {}
           /\ bg'.at # "wait" => bg'.began = bg.began
  <1> DEFINE rest == bg.todo \ {v}
             at == IF ws # {} THEN "write" ELSE IF rest = {} THEN "wait" ELSE "ask"
             began == IF rest = {} /\ ws = {} THEN 0 ELSE bg.began
             write == IF ws = {} THEN NoWrite ELSE w
  <1>1. bg' = [bg EXCEPT !.todo = rest, !.began = began, !.at = at, !.write = write]
    BY DEF DoneWith
  <1>2. rest \in SUBSET Views /\ began \in Moments /\ write \in Writes
        /\ at \in {"wait", "ask", "write"}
    BY NoWriteTyped, SmartTestsAssumption DEF MoversOK, Rounds, Moments
  <1>3. bg \in Rounds
    BY DEF MoversOK
  <1> HIDE DEF rest, at, began, write
  <1>4. /\ bg' \in Rounds /\ bg'.todo = rest /\ bg'.at = at
        /\ bg'.began = began /\ bg'.write = write
    BY <1>1, <1>2, <1>3 DEF Rounds
  <1> QED
    BY <1>4 DEF rest, at, began, write

LEMMA ListRowsKeeps ==
    ASSUME SmartInv, ListRows
    PROVE  SmartInv'
  <1> USE DEF SmartInv
  <1>1. /\ UNCHANGED <<clock, kind, tests, log, lock, held, req, poll, apart>>
        /\ bg' = [bg EXCEPT !.at = "ask", !.began = clock, !.todo = {View(r) : r \in OpenRows}]
    BY DEF ListRows
  <1>2. ASSUME NEW r \in OpenRows PROVE View(r) \in Views /\ View(r).row \in DOMAIN log
    <2>1. r \in DOMAIN log /\ log[r].status \in Open /\ log[r] \in RowRecords /\ r \in Nat
      BY DEF OpenRows, TableOK
    <2> QED
      BY <2>1 DEF View, Views, RowRecords
  <1>3. bg' \in Rounds /\ bg'.at = "ask" /\ bg'.todo = {View(r) : r \in OpenRows}
    BY <1>1, <1>2 DEF MoversOK, Rounds, WorldOK
  <1>4. MoversOK' /\ Indexed'
    BY <1>1, <1>2, <1>3 DEF MoversOK, Indexed
  <1>5. tests' \in Seq(TestRecords)
    BY <1>1 DEF TableOK
  <1> QED
    BY <1>1, <1>4, <1>5, MoverStands

LEMMA AskForKeeps ==
    ASSUME SmartInv, NEW v \in bg.todo, AskFor(v)
    PROVE  SmartInv'
  <1> USE DEF SmartInv
  <1>1. PICK a \in Answers : Shown(a) /\ DoneWith(v, BackgroundWrites(v, a))
    BY DEF AskFor
  <1>2. UNCHANGED <<clock, kind, log, lock, held, req, poll, apart>>
    BY DEF AskFor
  <1>3. /\ tests' \in Seq(TestRecords) /\ DOMAIN tests' = DOMAIN tests
        /\ \A t \in DOMAIN tests : tests'[t].began = tests[t].began
    BY <1>1, Noticed
  <1> DEFINE ws == BackgroundWrites(v, a)
             w == IF ws = {} THEN NoWrite ELSE CHOOSE x \in ws : TRUE
  <1>4. ws # {} => w \in ws
    OBVIOUS
  <1>5. w \in Writes /\ (ws # {} => w.row = v.row /\ w.status \in Statuses)
    BY <1>4, BackgroundTells, NoWriteTyped
  <1> HIDE DEF ws
  <1>6. ws = {} \/ w = CHOOSE x \in ws : TRUE
    OBVIOUS
  <1>7. DoneWith(v, ws)
    BY <1>1 DEF ws
  <1> HIDE DEF w
  <1>8. /\ bg' \in Rounds /\ bg'.todo = bg.todo \ {v}
        /\ bg'.at = "write" => ws # {} /\ bg'.write = w
    BY <1>5, <1>6, <1>7, Done
  <1>9. MoversOK' /\ Indexed'
    BY <1>2, <1>5, <1>8 DEF MoversOK, Indexed
  <1> QED
    BY <1>2, <1>3, <1>9, MoverStands

LEMMA AskFailsKeeps ==
    ASSUME SmartInv, NEW v \in bg.todo, AskFails(v)
    PROVE  SmartInv'
  <1> USE DEF SmartInv
  <1>1. UNCHANGED <<clock, kind, tests, log, lock, held, req, poll, apart>> /\ DoneWith(v, {})
    BY DEF AskFails
  <1>2. bg' \in Rounds /\ bg'.todo = bg.todo \ {v} /\ bg'.at # "write"
    BY <1>1, Done, NoWriteTyped
  <1>3. MoversOK' /\ Indexed'
    BY <1>1, <1>2 DEF MoversOK, Indexed
  <1>4. tests' \in Seq(TestRecords)
    BY <1>1 DEF TableOK
  <1> QED
    BY <1>1, <1>3, <1>4, MoverStands

LEMMA Written ==
    ASSUME MoversOK, BackgroundWrite
    PROVE  /\ bg' \in Rounds /\ bg'.todo = bg.todo /\ bg'.at # "write"
           /\ IF bg.todo = {} THEN bg'.at = "wait" ELSE bg'.at = "ask" /\ bg'.began = bg.began
  <1> DEFINE at == IF bg.todo = {} THEN "wait" ELSE "ask"
             began == IF bg.todo = {} THEN 0 ELSE bg.began
  <1>1. bg' = [bg EXCEPT !.at = at, !.write = NoWrite, !.began = began]
    BY DEF BackgroundWrite
  <1>2. bg \in Rounds /\ at \in {"wait", "ask"} /\ began \in Moments
    BY SmartTestsAssumption DEF MoversOK, Rounds, Moments
  <1> HIDE DEF at, began
  <1>3. bg' \in Rounds /\ bg'.todo = bg.todo /\ bg'.at = at /\ bg'.began = began
    BY <1>1, <1>2, NoWriteTyped DEF Rounds
  <1> QED
    BY <1>3 DEF at, began

LEMMA BackgroundWriteKeeps ==
    ASSUME SmartInv, BackgroundWrite
    PROVE  SmartInv'
  <1> USE DEF SmartInv
  <1>1. UNCHANGED <<clock, kind, tests, lock, held, req, poll>> /\ bg.at = "write" /\ Apply(bg.write)
    BY DEF BackgroundWrite
  <1>2. bg.write \in Writes
    BY DEF MoversOK, Rounds
  <1>3. bg.write.row \in DOMAIN log /\ bg.write.status \in Statuses
    BY <1>1 DEF Indexed
  <1>4. /\ WorldOK' /\ TableOK' /\ ReqOK' /\ Dated' /\ Holding' /\ Tended'
        /\ Alone' /\ Clear' /\ Single' /\ DOMAIN log' = DOMAIN log
    BY <1>1, <1>2, <1>3, ApplyKeeps
  <1>5. bg' \in Rounds /\ bg'.todo = bg.todo /\ bg'.at # "write"
    BY Written
  <1>6. MoversOK' /\ Indexed'
    BY <1>1, <1>4, <1>5 DEF MoversOK, Indexed
  <1> QED
    BY <1>4, <1>6

LEMMA CleanupClears ==
    ASSUME WorldOK, TableOK, Cleanup
    PROVE  /\ log' \in Seq(RowRecords) /\ DOMAIN log' = DOMAIN log
           /\ \A r \in DOMAIN log :
                /\ log'[r].test = log[r].test /\ log'[r].started = log[r].started
                /\ log'[r].updated = log[r].updated
                /\ log'[r].result \in {log[r].result, "timed out"}
           /\ OpenRows' \subseteq OpenRows /\ \A r \in OpenRows' : log'[r] = log[r]
  <1> DEFINE row(r) == IF r \in OpenRows /\ clock - log[r].started > Stale
                       THEN [log[r] EXCEPT !.status = "failed", !.result = "timed out"] ELSE log[r]
  <1>1. log' = [r \in DOMAIN log |-> row(r)]
    BY DEF Cleanup
  <1>2. ASSUME NEW r \in DOMAIN log
        PROVE  /\ row(r) \in RowRecords
               /\ row(r).test = log[r].test /\ row(r).started = log[r].started
               /\ row(r).updated = log[r].updated /\ row(r).result \in {log[r].result, "timed out"}
               /\ row(r).status \in Open => log[r].status \in Open /\ row(r) = log[r]
    <2>1. log[r] \in RowRecords
      BY DEF TableOK
    <2> QED
      BY <2>1 DEF RowRecords, Statuses, Results, Open
  <1> HIDE DEF row
  <1>3. DOMAIN log = 1..Len(log) /\ Len(log) \in Nat
    BY DEF TableOK
  <1>4. DOMAIN log' = DOMAIN log /\ \A r \in DOMAIN log : log'[r] = row(r)
    BY <1>1
  <1>5. log' \in [1..Len(log) -> RowRecords]
    BY <1>1, <1>2, <1>3
  <1>6. log' \in Seq(RowRecords)
    BY <1>3, <1>5
  <1> QED
    BY <1>2, <1>4, <1>6 DEF OpenRows

LEMMA CleanupKeeps ==
    ASSUME SmartInv, Cleanup
    PROVE  SmartInv'
  <1> USE DEF SmartInv
  <1>1. UNCHANGED <<clock, kind, tests, lock, held, req, poll, bg, apart>>
    BY DEF Cleanup
  <1>2. WorldOK' /\ TableOK' /\ MoversOK' /\ Dated' /\ Indexed'
    BY <1>1, CleanupClears DEF WorldOK, TableOK, MoversOK, Dated, Indexed
  <1>3. Alone' /\ Clear' /\ Single'
    BY <1>1, CleanupClears, NoneOpens
  <1> QED
    BY <1>1, <1>2, <1>3, RequestsStand

-----------------------------------------------------------------------------
(* The drive and the clock *)

LEMMA EntryTyped ==
    ASSUME NEW words \in SUBSET Past, NEW passed \in {"absent", "yes", "no"}
    PROVE  Entry(words, passed) \in Entries
  BY DEF Entry, Entries

LEMMA PrintedTyped ==
    ASSUME NEW k \in Kinds, NEW o \in Outcomes
    PROVE  Printed(k, o) \subseteq Entries
  <1>1. \A ws \in {{}, {"error"}, {"failed"}, {"aborted"}, {"complete", "completed"},
                   {"complete", "completed", "failed"},
                   {"complete", "completed", "completed without error", "error"}} :
          ws \in SUBSET Past
    BY DEF Past, Words
  <1> SUFFICES ASSUME NEW e \in Printed(k, o)
               PROVE  \E ws \in SUBSET Past, p \in {"absent", "yes", "no"} : e = Entry(ws, p)
    BY EntryTyped
  <1>2. CASE o = "passed"
    <2>1. e \in {Entry({"complete", "completed"}, "yes"), Entry({"complete", "completed"}, "absent"),
                 Entry({"complete", "completed", "completed without error", "error"}, "yes"),
                 Entry({"complete", "completed", "completed without error", "error"}, "absent")}
      BY <1>2 DEF Printed
    <2> QED
      BY <1>1, <2>1
  <1>3. CASE o = "failed"
    <2>1. e \in {Entry({"complete", "completed"}, "no"), Entry({"error"}, "no"),
                 Entry({"failed"}, "no"), Entry({"error"}, "absent"),
                 Entry({"complete", "completed", "failed"}, "absent")}
      BY <1>3 DEF Printed
    <2> QED
      BY <1>1, <2>1
  <1>4. CASE o = "aborted"
    <2>1. e \in {Entry({"aborted"}, "absent"), Entry({"aborted"}, "no"), Entry({}, "absent")}
      BY <1>4 DEF Printed
    <2> QED
      BY <1>1, <2>1
  <1> QED
    BY <1>2, <1>3, <1>4 DEF Outcomes

(* The test that ends is the only one that changes. *)
LEMMA Concluded ==
    ASSUME WorldOK, TableOK, TestEnds
    PROVE  \E t \in Running, o \in Outcomes : \E e \in Printed(kind, o) :
             /\ clock - tests[t].began >= Shortest
             /\ tests' \in Seq(TestRecords) /\ Len(tests') = Len(tests)
             /\ DOMAIN tests' = DOMAIN tests
             /\ \A u \in DOMAIN tests : tests'[u].began = tests[u].began
             /\ \A u \in DOMAIN tests \ {t} : tests'[u] = tests[u]
             /\ tests'[t].state = o /\ tests'[t].entry = e /\ tests'[t].shown = TRUE
  <1>0. PICK t \in Running, o \in Outcomes : \E e \in Printed(kind, o) :
          /\ clock - tests[t].began >= Shortest
          /\ tests' = [tests EXCEPT ![t].state = o, ![t].entry = e, ![t].shown = TRUE]
    BY DEF TestEnds, Outcomes
  <1>1. PICK e \in Printed(kind, o) :
          /\ clock - tests[t].began >= Shortest
          /\ tests' = [tests EXCEPT ![t].state = o, ![t].entry = e, ![t].shown = TRUE]
    BY <1>0
  <1>2. t \in DOMAIN tests /\ tests[t] \in TestRecords
    BY DEF Running, TableOK
  <1>3. e \in Entries
    BY PrintedTyped DEF WorldOK
  <1> DEFINE x == [tests[t] EXCEPT !.state = o, !.entry = e, !.shown = TRUE]
  <1>4. /\ x \in TestRecords /\ x.began = tests[t].began
        /\ x.state = o /\ x.entry = e /\ x.shown = TRUE
    BY <1>2, <1>3 DEF TestRecords
  <1>5. tests' = [tests EXCEPT ![t] = x]
    BY <1>1, <1>2 DEF TableOK
  <1> HIDE DEF x
  <1>6. /\ tests' \in Seq(TestRecords) /\ Len(tests') = Len(tests) /\ DOMAIN tests' = DOMAIN tests
        /\ tests'[t] = x /\ \A u \in DOMAIN tests \ {t} : tests'[u] = tests[u]
    BY <1>2, <1>4, <1>5 DEF TableOK
  <1> QED
    BY <1>1, <1>4, <1>6

LEMMA TestEndsKeeps ==
    ASSUME SmartInv, TestEnds
    PROVE  SmartInv'
  <1> USE DEF SmartInv
  <1>1. UNCHANGED <<clock, kind, log, lock, held, req, poll, bg, apart>>
    BY DEF TestEnds
  <1>2. /\ tests' \in Seq(TestRecords) /\ DOMAIN tests' = DOMAIN tests
        /\ \A u \in DOMAIN tests : tests'[u].began = tests[u].began
    BY Concluded
  <1>3. MoversOK' /\ Indexed'
    BY <1>1 DEF MoversOK, Indexed
  <1> QED
    BY <1>1, <1>2, <1>3, MoverStands

(* As time passes an idle client may poll again. *)
LEMMA Ticks ==
    ASSUME MoversOK, Tick
    PROVE  /\ poll' \in [Clients -> Polls]
           /\ \A c \in Clients :
                /\ poll'[c].at = poll[c].at /\ poll'[c].write = poll[c].write
                /\ poll'[c].answer = poll[c].answer
                /\ poll[c].at # "idle" => poll'[c] = poll[c]
  <1>1. poll' = [c \in Clients |-> IF poll[c].at = "idle" THEN [poll[c] EXCEPT !.asked = Never]
                                  ELSE poll[c]]
    BY DEF Tick
  <1> QED
    BY <1>1, SmartTestsAssumption DEF MoversOK, Polls, Never

LEMMA TickKeeps ==
    ASSUME SmartInv, Tick
    PROVE  SmartInv'
  <1> USE DEF SmartInv
  <1>1. /\ UNCHANGED <<kind, tests, log, lock, held, req, bg, apart>>
        /\ clock < MaxTime /\ clock' = clock + 1
    BY DEF Tick
  <1>2. clock' \in Moments /\ clock <= clock'
    BY <1>1, SmartTestsAssumption DEF WorldOK, Moments
  <1>3. WorldOK' /\ TableOK' /\ MoversOK' /\ Indexed'
    BY <1>1, <1>2, Ticks DEF WorldOK, TableOK, MoversOK, Indexed
  <1>4. Dated'
    <2>1. ASSUME NEW t \in DOMAIN tests PROVE tests[t].began <= clock'
      <3>1. tests[t] \in TestRecords
        BY DEF TableOK
      <3> QED
        BY <1>1, <3>1 DEF Dated, WorldOK, Moments, TestRecords
    <2>2. ASSUME NEW r \in DOMAIN log PROVE log[r].updated <= clock'
      <3>1. log[r] \in RowRecords
        BY DEF TableOK
      <3> QED
        BY <1>1, <3>1 DEF Dated, WorldOK, Moments, RowRecords
    <2> QED
      BY <1>1, <2>1, <2>2 DEF Dated
  <1>5. Alone' /\ Clear' /\ Single'
    BY <1>1, OpenStands, NoneOpens
  <1> QED
    BY <1>3, <1>4, <1>5, <1>1, RequestsStand

-----------------------------------------------------------------------------
(* The invariant and what follows from it *)

LEMMA InitSmart == Init => SmartInv
  <1> SUFFICES ASSUME Init PROVE SmartInv
    OBVIOUS
  <1> USE SmartTestsAssumption DEF Init
  <1>1. WorldOK /\ TableOK /\ ReqOK
    BY DEF WorldOK, TableOK, ReqOK, Moments, Places
  <1>2. MoversOK
    BY NoWriteTyped DEF MoversOK, Polls, Rounds, Replies, Never, Moments
  <1>3. Dated /\ Indexed /\ Holding /\ Tended
    BY DEF Dated, Indexed, Holding, Tended, Inside
  <1>4. Alone /\ Clear /\ Single
    BY DEF Alone, Clear, Single, OpenRows, Inside
  <1> QED
    BY <1>1, <1>2, <1>3, <1>4 DEF SmartInv

LEMMA SmartInvariant == SmartInv /\ [Next]_vars => SmartInv'
  <1> SUFFICES ASSUME SmartInv, [Next]_vars PROVE SmartInv'
    OBVIOUS
  <1>1. CASE \E q \in Requests : RequestStep(q)
    BY <1>1, EnsureLockKeeps, LookupLockKeeps, AcquireLockKeeps, CheckDriveKeeps, RunSmartTestKeeps,
       RecordRunKeeps, ReleaseLockKeeps, PopLockKeeps DEF RequestStep
  <1>2. CASE \E c \in Clients : PollStep(c)
    BY <1>2, AskDriveKeeps, ReadRowKeeps, WriteRowKeeps DEF PollStep
  <1>3. CASE BackgroundStep
    BY <1>3, ListRowsKeeps, AskForKeeps, AskFailsKeeps, BackgroundWriteKeeps DEF BackgroundStep
  <1>4. CASE Cleanup \/ TestEnds \/ Tick
    BY <1>4, CleanupKeeps, TestEndsKeeps, TickKeeps
  <1>5. CASE UNCHANGED vars
    <2> USE <1>5 DEF vars, SmartInv
    <2>1. tests' \in Seq(TestRecords)
      BY DEF TableOK
    <2>2. MoversOK' /\ Indexed'
      BY DEF MoversOK, Indexed
    <2> QED
      BY <2>1, <2>2, MoverStands
  <1> QED
    BY <1>1, <1>2, <1>3, <1>4, <1>5 DEF Next

(* A row never goes, and a row that an overtaken poll moved is there. *)
LEMMA ToldKeeps ==
    ASSUME SmartInv, ToldOK, [Next]_vars
    PROVE  ToldOK'
  <1> USE DEF SmartInv, ToldOK
  <1>1. ASSUME UNCHANGED <<log, told>> PROVE ToldOK'
    BY <1>1 DEF told
  <1>2. ASSUME DOMAIN log \subseteq DOMAIN log', late' = late, Overtakes PROVE ToldOK'
    BY <1>2 DEF Overtakes
  <1>3. ASSUME NEW q \in Requests, RequestStep(q) PROVE ToldOK'
    <2>1. CASE RecordRun(q)
      <3>1. DOMAIN log \subseteq DOMAIN log'
        BY <2>1 DEF RecordRun, TableOK
      <3> QED
        BY <1>2, <2>1, <3>1 DEF RecordRun
    <2>2. CASE ~RecordRun(q)
      BY <1>1, <1>3, <2>2 DEF RequestStep, EnsureLock, LookupLock, AcquireLock, CheckDrive, RunSmartTest,
         ReleaseLock, PopLock
    <2> QED
      BY <2>1, <2>2
  <1>4. ASSUME NEW c \in Clients, PollStep(c) PROVE ToldOK'
    <2>1. CASE AskDrive(c)
      BY <1>1, <2>1 DEF AskDrive
    <2>2. CASE ReadRow(c)
      BY <2>2 DEF ReadRow
    <2>3. CASE WriteRow(c)
      <3>1. /\ poll[c].write \in Writes
            /\ poll[c].write.row \in DOMAIN log /\ poll[c].write.status \in Statuses
        BY <2>3 DEF WriteRow, MoversOK, Polls, Indexed
      <3>2. DOMAIN log' = DOMAIN log
        BY <2>3, <3>1, Applied DEF WriteRow
      <3> QED
        BY <2>3, <3>1, <3>2 DEF WriteRow
    <2> QED
      BY <1>4, <2>1, <2>2, <2>3 DEF PollStep
  <1>5. ASSUME BackgroundStep PROVE ToldOK'
    <2>1. CASE BackgroundWrite
      <3>1. bg.write \in Writes /\ bg.write.row \in DOMAIN log /\ bg.write.status \in Statuses
        BY <2>1 DEF BackgroundWrite, MoversOK, Rounds, Indexed
      <3>2. DOMAIN log' = DOMAIN log
        BY <2>1, <3>1, Applied DEF BackgroundWrite
      <3> QED
        BY <1>2, <2>1, <3>2 DEF BackgroundWrite
    <2>2. CASE ~BackgroundWrite
      BY <1>1, <1>5, <2>2 DEF BackgroundStep, ListRows, AskFor, AskFails
    <2> QED
      BY <2>1, <2>2
  <1>6. CASE Cleanup
    BY <1>2, <1>6, CleanupClears DEF Cleanup
  <1>7. CASE TestEnds \/ Tick \/ UNCHANGED vars
    BY <1>1, <1>7 DEF TestEnds, Tick, vars, told
  <1> QED
    BY <1>3, <1>4, <1>5, <1>6, <1>7 DEF Next

(* The types of the tests, the rows, the locks and those that move a row; a row
   names a test of the drive, and a lock that is held is held by a request that
   is inside. *)
THEOREM TypeCorrect == Spec => []TypeOK
  <1>1. SmartInv /\ ToldOK => TypeOK
    <2> SUFFICES ASSUME SmartInv, ToldOK PROVE TypeOK
      OBVIOUS
    <2> USE DEF SmartInv
    <2>1. ASSUME NEW t \in DOMAIN tests
          PROVE  /\ tests[t].began \in 0..MaxTime /\ tests[t].shown \in BOOLEAN
                 /\ tests[t].state \in {"running", "passed", "failed", "aborted"}
      <3>1. tests[t] \in TestRecords
        BY DEF TableOK
      <3> QED
        BY <3>1 DEF TestRecords, Moments, Outcomes
    <2>2. ASSUME NEW r \in DOMAIN log
          PROVE  /\ log[r].test \in {0} \cup DOMAIN tests /\ log[r].status \in Statuses
                 /\ log[r].result \in Results /\ log[r].updated \in log[r].started..clock
      <3>1. log[r] \in RowRecords
        BY DEF TableOK
      <3> QED
        BY <3>1 DEF RowRecords, Dated, Moments, WorldOK
    <2>3. clock \in 0..MaxTime /\ kind \in Kinds /\ apart \in BOOLEAN
      BY DEF WorldOK, Moments
    <2>4. /\ lock \in Requests \cup {None}
          /\ \A l \in held : \E q \in Requests : req[q].mine = l /\ req[q].at \in Inside
          /\ req \in [Requests -> [at : Places, mine : Requests \cup {None}]]
      BY DEF ReqOK, Holding
    <2>5. ASSUME NEW c \in Clients
          PROVE  poll[c].at \in {"idle", "asked", "write"} /\ poll[c].write \in Writes
      BY DEF MoversOK, Polls
    <2>6. bg.at \in {"wait", "ask", "write"} /\ bg.write \in Writes
      BY DEF MoversOK, Rounds
    <2> QED
      BY <2>1, <2>2, <2>3, <2>4, <2>5, <2>6 DEF TypeOK, ToldOK
  <1>2. Init => ToldOK
    BY DEF Init, ToldOK
  <1>3. SmartInv /\ ToldOK /\ [Next]_vars => ToldOK'
    BY ToldKeeps
  <1> QED
    BY <1>1, <1>2, <1>3, InitSmart, SmartInvariant, PTL DEF Spec

(* The device has one open row, for any number of requests, so long as requests
   were kept apart, their looks at the rows did not fail and no row was
   reopened. *)
THEOREM OneRowOpen == Spec => []OneOpenRow
  <1>1. SmartInv => OneOpenRow
    <2> SUFFICES ASSUME SmartInv, apart PROVE Cardinality(OpenRows) <= 1
      BY DEF OneOpenRow
    <2>1. \A r, s \in OpenRows : r = s
      BY DEF SmartInv, Single
    <2>2. CASE OpenRows = {}
      BY <2>2, FS_EmptySet
    <2>3. CASE OpenRows # {}
      <3>1. PICK r \in OpenRows : OpenRows = {r}
        BY <2>1, <2>3
      <3> QED
        BY <3>1, FS_Singleton
    <2> QED
      BY <2>2, <2>3
  <1> QED
    BY <1>1, InitSmart, SmartInvariant, PTL DEF Spec

(* What the locks do guarantee: no two requests hold the same one, and the entry
   of the device in SMART_TEST_LOCKS is never left behind. *)
LockKept ==
    /\ \A p, q \in Requests :
         req[p].at \in Inside /\ req[q].at \in Inside /\ req[p].mine = req[q].mine => p = q
    /\ (\A q \in Requests : req[q].at \in {"idle", "done"}) => lock = None /\ held = {}

(* Requests that hold one lock are one request, and once all have ended neither
   an entry of the device nor a held lock is left, whichever way they ended. *)
THEOREM LocksReturned == Spec => []LockKept
  <1>1. SmartInv => LockKept
    BY DEF SmartInv, LockKept, Holding, Tended, Departing, Inside
  <1> QED
    BY <1>1, InitSmart, SmartInvariant, PTL DEF Spec

-----------------------------------------------------------------------------
(* The verdict: what the drive and smartctl say of a test *)

(* The entry of a test that failed or was aborted is not taken for a pass. *)
LEMMA NoFalsePass ==
    ASSUME NEW k \in Kinds, NEW o \in Outcomes, NEW e \in Printed(k, o),
           DriveStatus(k, FALSE, {e}) = "completed",
           PollResult(k, e) = "passed" \/ BackgroundResult(k, e) = "passed"
    PROVE  o = "passed"
  <1>1. (CHOOSE x \in {e} : TRUE) = e
    OBVIOUS
  <1>2. LogStatus(k, e) = "completed"
    BY <1>1 DEF DriveStatus
  <1>3. Flag(k, e) # "no"
    BY DEF PollResult, BackgroundResult, Result
  <1>4. CASE o = "failed"
    <2>1. CASE k = "nvme"
      <3>1. e \in {Entry({"complete", "completed"} \cup {"failed"}, "absent"), Entry({"error"}, "absent")}
        BY <1>4, <2>1 DEF Printed
      <3>2. Flag(k, e) = "absent"
        BY <2>1 DEF Flag
      <3>3. CASE e = Entry({"complete", "completed"} \cup {"failed"}, "absent")
        <4>1. Has(e, {"failed"}) /\ Has(e, {"failed", "error"})
          BY <3>3 DEF Has, Entry
        <4> QED
          BY <3>2, <4>1 DEF PollResult, BackgroundResult, Result
      <3>4. CASE e = Entry({"error"}, "absent")
        <4>1. /\ Has(e, {"failed", "error"})
              /\ ~Has(e, {"passed", "completed without error"})
              /\ ~Has(e, {"passed", "completed without error", "completed"})
          BY <3>4 DEF Has, Entry
        <4> QED
          BY <3>2, <4>1 DEF PollResult, BackgroundResult, Result
      <3> QED
        BY <3>1, <3>3, <3>4
    <2>2. CASE k # "nvme"
      <3>1. e.passed = "no"
        BY <1>4, <2>2 DEF Printed, Entry
      <3> QED
        BY <1>3, <2>2, <3>1 DEF Flag
    <2> QED
      BY <2>1, <2>2
  <1>5. CASE o = "aborted"
    <2>1. CASE k \in {"ata", "nvme"}
      <3>1. e \in {Entry({"aborted"}, "absent"), Entry({}, "absent")}
        BY <1>5, <2>1 DEF Printed
      <3>2. e.passed = "absent" /\ e.words \subseteq {"aborted"}
        BY <3>1 DEF Entry
      <3>3. AtaStatus(e) # "completed" /\ NvmeStatus(e) # "completed"
        BY <3>2 DEF AtaStatus, NvmeStatus, Has
      <3> QED
        BY <1>2, <2>1, <3>3 DEF LogStatus
    <2>2. CASE k \notin {"ata", "nvme"}
      <3>1. e.passed = "no"
        BY <1>5, <2>2 DEF Printed, Entry
      <3> QED
        BY <1>3, <2>2, <3>1 DEF Flag
    <2> QED
      BY <2>1, <2>2
  <1> QED
    BY <1>4, <1>5 DEF Outcomes

LEMMA TestTyped ==
    ASSUME TableOK, NEW t \in DOMAIN tests
    PROVE  /\ t \in Nat /\ Len(tests) \in Nat /\ t <= Len(tests) /\ Len(tests) \in DOMAIN tests
           /\ tests[t].began \in Moments /\ tests[t].state \in {"running"} \cup Outcomes
           /\ tests[t].began \in Nat
  <1>1. tests[t] \in TestRecords
    BY DEF TableOK
  <1> QED
    BY <1>1, SmartTestsAssumption DEF TableOK, TestRecords, Moments

(* If the last test does not run none does, and its entry is the newest. *)
LEMMA NewestEntry ==
    ASSUME TableOK, InOrder, tests # <<>>, tests[Len(tests)].state # "running"
    PROVE  Latest = {tests[Len(tests)].entry}
  <1>1. DOMAIN tests = 1..Len(tests) /\ Len(tests) \in Nat /\ Len(tests) \in DOMAIN tests
    BY DEF TableOK
  <1>2. Ended = 1..Len(tests)
    BY <1>1 DEF Ended, InOrder
  <1>3. Cardinality(Ended) = Len(tests)
    BY <1>1, <1>2, FS_Interval
  <1>4. {u \in Ended : u = Cardinality(Ended)} = {Len(tests)}
    BY <1>1, <1>2, <1>3
  <1> QED
    BY <1>4 DEF Latest

(* While the last test runs the newest entry is of the one before. *)
LEMMA EntryBefore ==
    ASSUME TableOK, InOrder, tests # <<>>, tests[Len(tests)].state = "running"
    PROVE  Latest = {tests[t].entry : t \in {u \in DOMAIN tests : u = Len(tests) - 1}}
  <1>1. DOMAIN tests = 1..Len(tests) /\ Len(tests) \in Nat /\ Len(tests) \in DOMAIN tests
    BY DEF TableOK
  <1>2. Ended = 1..(Len(tests) - 1)
    BY <1>1 DEF Ended, InOrder
  <1>3. Cardinality(Ended) = Len(tests) - 1
    BY <1>1, <1>2, FS_Interval
  <1>4. {u \in Ended : u = Cardinality(Ended)} = {u \in DOMAIN tests : u = Len(tests) - 1}
    BY <1>1, <1>2, <1>3
  <1> QED
    BY <1>4 DEF Latest

LEMMA AnswerFalse ==
    ASSUME NEW a \in Answers, ~a[1]
    PROVE  /\ a[2] = Latest
           /\ tests # <<>> /\ tests[Len(tests)].state = "running" /\ Len(tests) \in DOMAIN tests
                => clock - tests[Len(tests)].began < Lag /\ ~tests[Len(tests)].shown
  <1>1. a # <<TRUE, Latest>>
    <2> SUFFICES ASSUME a = <<TRUE, Latest>> PROVE FALSE
      OBVIOUS
    <2>1. <<TRUE, Latest>>[1] = TRUE
      OBVIOUS
    <2> QED
      BY <2>1
  <1>2. a \in {<<FALSE, Latest>> : t \in {u \in {Len(tests)} :
                 u \in Running => clock - tests[u].began < Lag /\ ~tests[u].shown}}
    BY <1>1 DEF Answers
  <1>3. /\ a = <<FALSE, Latest>>
        /\ Len(tests) \in Running => clock - tests[Len(tests)].began < Lag /\ ~tests[Len(tests)].shown
    BY <1>2
  <1> QED
    BY <1>3 DEF Running

-----------------------------------------------------------------------------
(* The requests and the verdict *)

LEMMA VerdictStands ==
    ASSUME VerdictInv, UNCHANGED <<clock, kind, tests, log, poll, bg, behind, late>>, apart' => apart,
           \A q \in Requests : req'[q].at = "started" => req[q].at = "started"
    PROVE  VerdictInv'
  <1> USE DEF VerdictInv
  <1>1. InOrder' /\ Answered' /\ Viewed'
    BY DEF InOrder, Answered, Tells, Viewed
  <1>2. Current'
    BY OpenStands DEF Current
  <1>3. Honest'
    BY DEF Honest, Passed
  <1> QED
    BY <1>1, <1>2, <1>3

(* The places a request comes to in one step. *)
LEMMA Steps ==
    ASSUME ReqOK, NEW q \in Requests,
           EnsureLock(q) \/ LookupLock(q) \/ AcquireLock(q) \/ CheckDrive(q)
             \/ ReleaseLock(q) \/ PopLock(q)
    PROVE  /\ \A p \in Requests : req'[p].at = "started" => req[p].at = "started"
           /\ UNCHANGED <<clock, kind, tests, log, poll, bg, behind, late>> /\ (apart' => apart)
  <1> USE DEF told
  <1>1. CASE EnsureLock(q)
    BY <1>1 DEF EnsureLock, Go, ReqOK
  <1>2. CASE LookupLock(q)
    BY <1>2 DEF LookupLock, ReqOK
  <1>3. CASE AcquireLock(q)
    BY <1>3 DEF AcquireLock, Go, ReqOK
  <1>4. CASE CheckDrive(q)
    <2>1. \/ Go(q, "run") /\ apart' = (apart /\ NoOpenRow)
          \/ Go(q, "release") /\ apart' = apart
      BY <1>4 DEF CheckDrive
    <2>2. apart' => apart
      BY <2>1
    <2>3. UNCHANGED <<clock, kind, tests, log, poll, bg, behind, late>>
      BY <1>4 DEF CheckDrive
    <2> QED
      BY <2>1, <2>2, <2>3 DEF Go, ReqOK
  <1>5. CASE ReleaseLock(q)
    BY <1>5 DEF ReleaseLock, Go, ReqOK
  <1>6. CASE PopLock(q)
    BY <1>6 DEF PopLock, Go, ReqOK
  <1> QED
    BY <1>1, <1>2, <1>3, <1>4, <1>5, <1>6

LEMMA TestAdded ==
    ASSUME TableOK, NEW x \in TestRecords, tests' = Append(tests, x)
    PROVE  /\ Len(tests) \in Nat /\ DOMAIN tests = 1..Len(tests)
           /\ Len(tests') = Len(tests) + 1 /\ DOMAIN tests' = 1..(Len(tests) + 1) /\ tests' # <<>>
           /\ tests'[Len(tests) + 1] = x /\ \A t \in DOMAIN tests : tests'[t] = tests[t]
  BY DEF TableOK

LEMMA RunSmartTestVerdict ==
    ASSUME SmartInv, VerdictInv, NEW q \in Requests, RunSmartTest(q)
    PROVE  VerdictInv'
  <1> USE DEF SmartInv, VerdictInv
  <1>1. UNCHANGED <<clock, kind, log, lock, held, poll, bg, apart, behind, late>> /\ req[q].at = "run"
    BY DEF RunSmartTest, told
  <1>2. CASE Go(q, "refused") /\ tests' = tests
    BY <1>1, <1>2, VerdictStands DEF Go, ReqOK
  <1>3. CASE Running = {} /\ tests' = Append(tests, NewTest)
    <2>1. NewTest \in TestRecords /\ NewTest.began = clock /\ NewTest.state = "running"
      BY DEF NewTest, TestRecords, Entry, Entries, WorldOK, Words
    <2>2. /\ Len(tests) \in Nat /\ DOMAIN tests = 1..Len(tests)
          /\ Len(tests') = Len(tests) + 1 /\ DOMAIN tests' = 1..(Len(tests) + 1) /\ tests' # <<>>
          /\ tests'[Len(tests) + 1] = NewTest /\ \A t \in DOMAIN tests : tests'[t] = tests[t]
      BY <1>3, <2>1, TestAdded
    <2>3. InOrder'
      <3>1. \A t \in DOMAIN tests : tests[t].state # "running"
        BY <1>3 DEF Running
      <3> QED
        BY <1>1, <2>1, <2>2, <3>1 DEF InOrder
    <2>4. OpenRows' = OpenRows /\ (apart => OpenRows = {})
      BY <1>1, OpenStands DEF Clear
    <2>5. Current'
      <3>1. \A r \in DOMAIN log : log[r].test # 0 => log[r].test \in DOMAIN tests
        BY DEF Dated
      <3> QED
        BY <1>1, <2>2, <2>4, <3>1 DEF Current
    <2>6. Answered'
      BY <1>1, <2>1, <2>2 DEF Answered, Tells
    <2>7. Viewed'
      <3>1. bg.todo # {} => bg.began <= clock
        BY DEF Viewed
      <3> QED
        BY <1>1, <2>1, <2>2, <3>1 DEF Viewed
    <2>8. \A r : Passed(r) => Passed(r)'
      BY <1>1, <2>2 DEF Passed
    <2>9. Honest'
      BY <1>1, <2>8 DEF Honest
    <2> QED
      BY <2>3, <2>5, <2>6, <2>7, <2>9
  <1> QED
    BY <1>2, <1>3 DEF RunSmartTest

LEMMA RecordRunVerdict ==
    ASSUME SmartInv, VerdictInv, NEW q \in Requests, RecordRun(q)
    PROVE  VerdictInv'
  <1> USE DEF SmartInv, VerdictInv
  <1>1. /\ UNCHANGED <<clock, kind, tests, lock, held, poll, bg, apart, late>>
        /\ behind \subseteq behind'
        /\ req[q].at \in {"started", "refused"} /\ Go(q, "release")
    BY DEF RecordRun, Overtakes
  <1>2. \A p \in Requests : req'[p].at = "started" => req[p].at = "started"
    BY <1>1 DEF Go, ReqOK
  <1>3. CASE log' = log
    BY <1>1, <1>2, <1>3, VerdictStands DEF RecordRun, Overtakes
  <1>4. ASSUME NEW x \in RowRecords, log' = Append(log, x), x.result = None,
               \/ x.test = Len(tests) /\ req[q].at = "started" /\ x.started = clock
               \/ x.test = 0 /\ x.status = "failed"
        PROVE  VerdictInv'
    <2>1. /\ DOMAIN log' = DOMAIN log \cup {Len(log) + 1} /\ Len(log) + 1 \notin DOMAIN log
          /\ log'[Len(log) + 1] = x /\ \A r \in DOMAIN log : log'[r] = log[r]
          /\ OpenRows' \subseteq OpenRows \cup {Len(log) + 1}
      BY <1>4, RowAdded
    <2>2. InOrder' /\ Answered'
      BY <1>1 DEF InOrder, Answered, Tells
    <2>3. tests # <<>> => Len(tests) \in DOMAIN tests /\ Len(tests) # 0
      BY DEF TableOK
    <2>4. Current'
      <3>1. apart => OpenRows' \subseteq {Len(log) + 1}
        BY <1>1, <2>1 DEF Clear
      <3>2. req[q].at = "started" => tests[Len(tests)].began <= clock
        BY <2>3 DEF Current, Dated
      <3>3. x.test # 0 => x.test = Len(tests) /\ req[q].at = "started" /\ x.started = clock
        BY <1>4
      <3>4. ASSUME apart, NEW r \in OpenRows' PROVE log'[r].test = Len(tests) /\ log'[r].test # 0
        <4>1. r = Len(log) + 1 /\ x.status \in Open
          BY <2>1, <3>1, <3>4 DEF OpenRows
        <4>2. x.test = Len(tests) /\ req[q].at = "started"
          BY <1>4, <4>1 DEF Open
        <4> QED
          BY <2>1, <2>3, <4>1, <4>2 DEF Current
      <3>5. \A r \in DOMAIN log' : log'[r].test # 0 => tests[log'[r].test].began <= log'[r].started
        BY <2>1, <3>2, <3>3 DEF Current
      <3> QED
        BY <1>1, <1>2, <3>4, <3>5 DEF Current
    <2>5. Viewed'
      BY <1>1, <2>1 DEF Viewed, Indexed
    <2>6. Honest'
      <3>1. \A r \in DOMAIN log : Passed(r)' = Passed(r)
        BY <1>1, <2>1 DEF Passed
      <3> QED
        BY <1>1, <1>4, <2>1, <3>1 DEF Honest, Indexed, None
    <2> QED
      BY <2>2, <2>4, <2>5, <2>6
  <1>5. CASE log' = Append(log, Row(Len(tests), "started")) /\ req[q].at = "started"
    <2>1. Len(tests) \in Nat
      BY DEF TableOK
    <2>2. Row(Len(tests), "started") \in RowRecords
      BY <2>1 DEF Row, RowRecords, WorldOK, Statuses, Open, Results
    <2> QED
      BY <1>4, <1>5, <2>2 DEF Row
  <1>6. CASE log' = Append(log, Row(0, "failed"))
    <2>1. Row(0, "failed") \in RowRecords
      BY DEF Row, RowRecords, WorldOK, Statuses, Results
    <2> QED
      BY <1>4, <1>6, <2>1 DEF Row
  <1> QED
    BY <1>3, <1>5, <1>6 DEF RecordRun

-----------------------------------------------------------------------------
(* Writes and the verdict *)

LEMMA ApplyVerdict ==
    ASSUME SmartInv, InOrder, Current, NEW w \in Writes, w.row \in DOMAIN log, w.status \in Statuses,
           Apply(w), UNCHANGED <<clock, kind, tests, req>>
    PROVE  /\ InOrder' /\ Current' /\ (apart' => apart) /\ DOMAIN log' = DOMAIN log
           /\ \A r \in DOMAIN log :
                /\ Passed(r)' = Passed(r) /\ Seen(r)' = Seen(r)
                /\ log'[r].started = log[r].started /\ log'[r].test = log[r].test
                /\ \/ log'[r] = log[r]
                   \/ /\ r = w.row /\ Matches(w)
                      /\ log'[r].status = w.status /\ log'[r].result = w.result
           /\ apart' => OpenRows' \subseteq OpenRows
  <1>1. /\ DOMAIN log' = DOMAIN log
        /\ \A r \in DOMAIN log :
             /\ log'[r].test = log[r].test /\ log'[r].started = log[r].started
             /\ \/ log'[r] = log[r]
                \/ /\ r = w.row /\ Matches(w)
                   /\ log'[r].status = w.status /\ log'[r].result = w.result
        /\ apart' => apart /\ OpenRows' \subseteq OpenRows
    <2>1. WorldOK /\ TableOK
      BY DEF SmartInv
    <2> QED
      BY <2>1, Applied
  <1>2. \A r \in DOMAIN log : Passed(r)' = Passed(r) /\ Seen(r)' = Seen(r)
    BY <1>1 DEF Passed, Seen
  <1>3. InOrder' /\ Current'
    <2>1. OpenRows \subseteq DOMAIN log
      BY DEF OpenRows
    <2> QED
      BY <1>1, <2>1 DEF InOrder, Current
  <1> QED
    BY <1>1, <1>2, <1>3

(* A poll that was overtaken makes its row late. *)
LEMMA WriteRowVerdict ==
    ASSUME SmartInv, VerdictInv, NEW c \in Clients, WriteRow(c)
    PROVE  VerdictInv'
  <1> USE DEF SmartInv, VerdictInv
  <1> DEFINE w == poll[c].write
  <1>1. /\ UNCHANGED <<clock, kind, tests, lock, held, req, bg>> /\ poll[c].at = "write"
        /\ Apply(w) /\ poll' = Idle(c)
        /\ late \subseteq late' /\ (Matches(w) /\ c \in behind => w.row \in late')
        /\ behind \ {c} \subseteq behind'
    BY DEF WriteRow
  <1>2. w \in Writes /\ w.row \in DOMAIN log /\ w.status \in Statuses
    BY <1>1 DEF MoversOK, Polls, Indexed
  <1> HIDE DEF w
  <1>3. /\ InOrder' /\ Current' /\ (apart' => apart) /\ DOMAIN log' = DOMAIN log
        /\ \A r \in DOMAIN log :
             /\ Passed(r)' = Passed(r)
             /\ log'[r].started = log[r].started /\ log'[r].test = log[r].test
             /\ log'[r] = log[r] \/ (r = w.row /\ Matches(w) /\ log'[r].result = w.result)
    BY <1>1, <1>2, ApplyVerdict
  <1>4. poll'[c].at = "idle" /\ \A d \in Clients \ {c} : poll'[d] = poll[d]
    BY <1>1, Idles
  <1>5. Answered'
    BY <1>1, <1>4 DEF Answered, Tells
  <1>6. Viewed'
    BY <1>1, <1>3 DEF Viewed, Indexed
  <1>7. Honest'
    <2>1. ASSUME apart, NEW r \in DOMAIN log \ late', log'[r].result = "passed" PROVE Passed(r)
      <3>1. CASE log'[r] = log[r]
        BY <1>1, <2>1, <3>1 DEF Honest
      <3>2. CASE r = w.row /\ Matches(w) /\ log'[r].result = w.result
        BY <1>1, <2>1, <3>2 DEF Honest, w
      <3> QED
        BY <1>3, <3>1, <3>2
    <2>2. ASSUME apart, NEW d \in Clients \ behind', poll'[d].at = "write", poll'[d].write.result = "passed",
                 poll'[d].write.row \notin late'
          PROVE  Passed(poll'[d].write.row) /\ poll'[d].write.row \in DOMAIN log
      BY <1>1, <1>4, <2>2 DEF Honest, Indexed
    <2>3. ASSUME apart, bg.at = "write", bg.write.result = "passed", bg.write.row \notin late'
          PROVE  Passed(bg.write.row) /\ bg.write.row \in DOMAIN log
      BY <1>1, <2>3 DEF Honest, Indexed
    <2> QED
      BY <1>1, <1>3, <2>1, <2>2, <2>3 DEF Honest
  <1> QED
    BY <1>3, <1>5, <1>6, <1>7

LEMMA BackgroundWriteVerdict ==
    ASSUME SmartInv, VerdictInv, BackgroundWrite
    PROVE  VerdictInv'
  <1> USE DEF SmartInv, VerdictInv
  <1>1. /\ UNCHANGED <<clock, kind, tests, lock, held, req, poll, late>> /\ bg.at = "write"
        /\ Apply(bg.write) /\ behind \subseteq behind'
    BY DEF BackgroundWrite, Overtakes
  <1>2. bg.write \in Writes /\ bg.write.row \in DOMAIN log /\ bg.write.status \in Statuses
    BY <1>1 DEF MoversOK, Rounds, Indexed
  <1>3. /\ InOrder' /\ Current' /\ (apart' => apart) /\ DOMAIN log' = DOMAIN log
        /\ \A r \in DOMAIN log :
             /\ Passed(r)' = Passed(r)
             /\ log'[r].started = log[r].started /\ log'[r].test = log[r].test
             /\ log'[r] = log[r] \/ (r = bg.write.row /\ log'[r].result = bg.write.result)
    BY <1>1, <1>2, ApplyVerdict
  <1>4. /\ bg'.todo = bg.todo /\ bg'.at # "write"
        /\ IF bg.todo = {} THEN bg'.at = "wait" ELSE bg'.at = "ask" /\ bg'.began = bg.began
    BY Written
  <1>5. Answered'
    BY <1>1 DEF Answered, Tells
  <1>6. Viewed'
    BY <1>1, <1>3, <1>4 DEF Viewed, Indexed
  <1>7. Honest'
    <2>1. \A r \in DOMAIN log \ late : apart /\ log'[r].result = "passed" => Passed(r)
      BY <1>1, <1>3 DEF Honest
    <2> QED
      BY <1>1, <1>3, <1>4, <2>1 DEF Honest, Indexed
  <1> QED
    BY <1>3, <1>5, <1>6, <1>7

LEMMA CleanupVerdict ==
    ASSUME SmartInv, VerdictInv, Cleanup
    PROVE  VerdictInv'
  <1> USE DEF SmartInv, VerdictInv
  <1>1. UNCHANGED <<clock, kind, tests, lock, held, req, poll, bg, apart, late>> /\ behind \subseteq behind'
    BY DEF Cleanup, Overtakes
  <1>2. /\ DOMAIN log' = DOMAIN log
        /\ \A r \in DOMAIN log :
             /\ log'[r].test = log[r].test /\ log'[r].started = log[r].started
             /\ log'[r].result \in {log[r].result, "timed out"}
        /\ OpenRows' \subseteq OpenRows
    BY CleanupClears
  <1>3. InOrder' /\ Answered'
    BY <1>1 DEF InOrder, Answered, Tells
  <1>4. Current'
    <2>1. OpenRows \subseteq DOMAIN log
      BY DEF OpenRows
    <2> QED
      BY <1>1, <1>2, <2>1 DEF Current
  <1>5. Viewed'
    BY <1>1, <1>2 DEF Viewed, Indexed
  <1>6. \A r \in DOMAIN log : Passed(r)' = Passed(r)
    BY <1>1, <1>2 DEF Passed
  <1>7. Honest'
    BY <1>1, <1>2, <1>6 DEF Honest, Indexed
  <1> QED
    BY <1>3, <1>4, <1>5, <1>7

-----------------------------------------------------------------------------
(* The drive, the clock and the verdict *)

LEMMA TestEndsVerdict ==
    ASSUME SmartInv, VerdictInv, TestEnds
    PROVE  VerdictInv'
  <1> USE DEF SmartInv, VerdictInv
  <1>1. UNCHANGED <<clock, kind, log, lock, held, req, poll, bg, apart, behind, late>>
    BY DEF TestEnds, told
  <1>2. PICK t \in Running, o \in Outcomes : \E e \in Printed(kind, o) :
          /\ clock - tests[t].began >= Shortest
          /\ tests' \in Seq(TestRecords) /\ Len(tests') = Len(tests)
          /\ DOMAIN tests' = DOMAIN tests
          /\ \A u \in DOMAIN tests : tests'[u].began = tests[u].began
          /\ \A u \in DOMAIN tests \ {t} : tests'[u] = tests[u]
          /\ tests'[t].state = o /\ tests'[t].entry = e
    BY Concluded
  <1>3. t \in DOMAIN tests /\ tests[t].state = "running" /\ t = Len(tests)
    BY DEF Running, InOrder
  <1>4. o # "running"
    BY DEF Outcomes
  <1>5. tests[t].began + Shortest <= clock
    BY <1>2, <1>3, TestTyped, SmartTestsAssumption DEF WorldOK, Moments
  <1>6. InOrder'
    BY <1>1, <1>2, <1>3, <1>4, <1>5 DEF InOrder
  <1>7. Current'
    <2>1. \A r \in DOMAIN log : log[r].test # 0 => log[r].test \in DOMAIN tests
      BY DEF Dated
    <2>2. tests # <<>> => tests' # <<>>
      BY <1>2 DEF TableOK
    <2> QED
      BY <1>1, <1>2, <2>1, <2>2, OpenStands DEF Current
  <1>8. Answered'
    <2>1. tests # <<>> /\ Len(tests) \in DOMAIN tests
      BY <1>3 DEF TableOK
    <2>2. ASSUME NEW c \in Clients, Tells(c) PROVE Tells(c)'
      BY <1>1, <1>2, <1>3, <2>1, <2>2 DEF Tells
    <2> QED
      BY <1>1, <2>1, <2>2 DEF Answered
  <1>9. Viewed'
    BY <1>1, <1>2 DEF Viewed
  <1>10. Honest'
    <2>1. ASSUME NEW r, Passed(r) PROVE Passed(r)'
      <3>1. log[r].test # t
        BY <1>3, <2>1 DEF Passed
      <3> QED
        BY <1>1, <1>2, <2>1, <3>1 DEF Passed
    <2> QED
      BY <1>1, <2>1 DEF Honest
  <1> QED
    BY <1>6, <1>7, <1>8, <1>9, <1>10

LEMMA TickVerdict ==
    ASSUME SmartInv, VerdictInv, Tick
    PROVE  VerdictInv'
  <1> USE DEF SmartInv, VerdictInv
  <1>1. /\ UNCHANGED <<kind, tests, log, lock, held, req, bg, apart, behind, late>> /\ clock' = clock + 1
        /\ \A c \in Clients : poll[c].at # "idle" => clock' - poll[c].asked < Stall
        /\ bg.at # "wait" => clock' - bg.began < Pass
    BY DEF Tick, told
  <1>2. clock \in Nat /\ Shortest \in Nat /\ Stall \in Nat /\ Pass \in Nat
    BY SmartTestsAssumption DEF WorldOK, Moments
  <1>3. InOrder'
    <2>1. ASSUME NEW t \in DOMAIN tests, tests[t].began + Shortest <= clock
          PROVE  tests[t].began + Shortest <= clock'
      <3>1. tests[t].began \in Nat
        BY TestTyped
      <3> QED
        BY <1>1, <1>2, <2>1, <3>1
    <2> QED
      BY <1>1, <2>1 DEF InOrder
  <1>4. Current' /\ Honest'
    <2>1. /\ \A c \in Clients : poll'[c].at = poll[c].at /\ poll'[c].write = poll[c].write
      BY Ticks
    <2> QED
      BY <1>1, <2>1, OpenStands DEF Current, Honest, Passed
  <1>5. Answered'
    <2>1. ASSUME NEW c \in Clients, poll'[c].at = "asked"
          PROVE  /\ poll[c].at = "asked" /\ poll'[c] = poll[c] /\ poll[c].asked \in Nat
                 /\ poll[c].asked <= clock' /\ clock' < poll[c].asked + Stall
      <3>1. poll[c].at = "asked" /\ poll'[c] = poll[c]
        BY <2>1, Ticks
      <3>2. poll[c].asked \in Nat
        BY SmartTestsAssumption DEF MoversOK, Polls
      <3> QED
        BY <1>1, <1>2, <3>1, <3>2 DEF Answered
    <2> QED
      BY <1>1, <2>1 DEF Answered, Tells
  <1>6. Viewed'
    <2>1. bg.began \in Nat
      BY SmartTestsAssumption DEF MoversOK, Rounds, Moments
    <2> QED
      BY <1>1, <1>2, <2>1 DEF Viewed
  <1> QED
    BY <1>3, <1>4, <1>5, <1>6

-----------------------------------------------------------------------------
(* The answers and the verdict *)

(* Noting that a test has shown changes nothing the verdict rests on. *)
LEMMA NoticedVerdict ==
    ASSUME SmartInv, VerdictInv, NEW a, Shown(a), UNCHANGED <<clock, kind, log, req, apart>>
    PROVE  /\ InOrder' /\ Current' /\ \A r : Passed(r)' = Passed(r)
           /\ \A c \in Clients : poll'[c] = poll[c] /\ tests # <<>> /\ Tells(c) => Tells(c)'
           /\ (tests' = <<>>) = (tests = <<>>)
  <1> USE DEF SmartInv, VerdictInv
  <1>1. /\ tests' \in Seq(TestRecords) /\ Len(tests') = Len(tests) /\ DOMAIN tests' = DOMAIN tests
        /\ \A t \in DOMAIN tests :
             /\ tests'[t].began = tests[t].began /\ tests'[t].state = tests[t].state
             /\ tests'[t].entry = tests[t].entry
    BY Noticed
  <1>2. (tests' = <<>>) = (tests = <<>>)
    BY <1>1 DEF TableOK
  <1>3. InOrder'
    BY <1>1 DEF InOrder
  <1>4. Current'
    <2>1. \A r \in DOMAIN log : log[r].test # 0 => log[r].test \in DOMAIN tests
      BY DEF Dated
    <2> QED
      BY <1>1, <1>2, <2>1, OpenStands DEF Current
  <1>5. \A r : Passed(r)' = Passed(r)
    BY <1>1 DEF Passed
  <1>6. tests # <<>> => Len(tests) \in DOMAIN tests
    BY DEF TableOK
  <1>7. \A c \in Clients : poll'[c] = poll[c] /\ tests # <<>> /\ Tells(c) => Tells(c)'
    BY <1>1, <1>6 DEF Tells
  <1> QED
    BY <1>2, <1>3, <1>4, <1>5, <1>7

LEMMA AskDriveVerdict ==
    ASSUME SmartInv, VerdictInv, NEW c \in Clients, AskDrive(c)
    PROVE  VerdictInv'
  <1> USE DEF SmartInv, VerdictInv
  <1>1. PICK a \in Answers :
          /\ Shown(a)
          /\ poll' = [poll EXCEPT ![c].at = "asked", ![c].asked = clock, ![c].answer = a]
    BY DEF AskDrive
  <1>2. UNCHANGED <<clock, kind, log, lock, held, req, bg, apart, behind, late>>
    BY DEF AskDrive, told
  <1>3. /\ InOrder' /\ Current' /\ \A r : Passed(r)' = Passed(r)
        /\ \A d \in Clients : poll'[d] = poll[d] /\ tests # <<>> /\ Tells(d) => Tells(d)'
        /\ (tests' = <<>>) = (tests = <<>>)
    BY <1>1, <1>2, NoticedVerdict
  <1>4. /\ poll'[c].at = "asked" /\ poll'[c].asked = clock /\ poll'[c].answer = a
        /\ \A d \in Clients \ {c} : poll'[d] = poll[d]
    BY <1>1 DEF MoversOK
  <1>5. /\ Len(tests') = Len(tests)
        /\ \A t \in DOMAIN tests :
             /\ tests'[t].began = tests[t].began /\ tests'[t].state = tests[t].state
             /\ tests'[t].entry = tests[t].entry
        /\ DOMAIN tests' = DOMAIN tests
    BY <1>1, Noticed
  <1>6. ~a[1] /\ tests # <<>> => Tells(c)'
    <2> SUFFICES ASSUME ~a[1], tests # <<>> PROVE Tells(c)'
      OBVIOUS
    <2>1. Len(tests) \in DOMAIN tests
      BY DEF TableOK
    <2>2. /\ a[2] = Latest
          /\ tests[Len(tests)].state = "running" => clock - tests[Len(tests)].began < Lag
      BY <2>1, AnswerFalse
    <2>3. CASE tests[Len(tests)].state # "running"
      <3>1. a[2] = {tests[Len(tests)].entry}
        BY <2>2, <2>3, NewestEntry
      <3> QED
        BY <1>4, <1>5, <2>1, <2>3, <3>1 DEF Tells
    <2>4. CASE tests[Len(tests)].state = "running"
      <3>1. clock < tests[Len(tests)].began + Lag
        BY <2>1, <2>2, <2>4, TestTyped, SmartTestsAssumption DEF WorldOK, Moments
      <3> QED
        BY <1>4, <1>5, <2>1, <3>1 DEF Tells
    <2> QED
      BY <2>3, <2>4
  <1>7. Answered'
    <2>1. a # <<>>
      BY AnswersTyped
    <2>2. clock <= clock /\ clock < clock + Stall
      BY SmartTestsAssumption DEF WorldOK, Moments
    <2> QED
      BY <1>2, <1>3, <1>4, <1>6, <2>1, <2>2 DEF Answered
  <1>8. Viewed'
    BY <1>2, <1>5 DEF Viewed
  <1>9. Honest'
    BY <1>2, <1>3, <1>4 DEF Honest
  <1> QED
    BY <1>3, <1>7, <1>8, <1>9

LEMMA ListRowsVerdict ==
    ASSUME SmartInv, VerdictInv, ListRows
    PROVE  VerdictInv'
  <1> USE DEF SmartInv, VerdictInv
  <1>1. /\ UNCHANGED <<clock, kind, tests, log, lock, held, req, poll, apart, behind, late>>
        /\ bg' = [bg EXCEPT !.at = "ask", !.began = clock, !.todo = {View(r) : r \in OpenRows}]
    BY DEF ListRows, told
  <1>2. bg'.at = "ask" /\ bg'.began = clock /\ bg'.todo = {View(r) : r \in OpenRows}
    BY <1>1 DEF MoversOK, Rounds
  <1>3. InOrder' /\ Current' /\ Answered' /\ Honest'
    BY <1>1, <1>2, OpenStands DEF InOrder, Current, Answered, Tells, Honest, Passed
  <1>4. Viewed'
    <2>1. clock <= clock /\ clock < clock + Pass
      BY SmartTestsAssumption DEF WorldOK, Moments
    <2>2. ASSUME NEW v \in bg'.todo
          PROVE  /\ v.started = log[v.row].started
                 /\ apart => /\ log[v.row].test \in DOMAIN tests
                             /\ \A t \in DOMAIN tests : ~(t > log[v.row].test)
      <3>1. PICK r \in OpenRows : v = View(r)
        BY <1>2
      <3>2. v.row = r /\ v.started = log[r].started /\ r \in DOMAIN log
        BY <3>1 DEF View, OpenRows
      <3>3. apart => log[r].test = Len(tests) /\ log[r].test \in DOMAIN tests
        BY <3>2 DEF Current, Dated
      <3> QED
        BY <3>2, <3>3, TestTyped
    <2> QED
      BY <1>1, <1>2, <2>1, <2>2 DEF Viewed
  <1> QED
    BY <1>3, <1>4

LEMMA AskFailsVerdict ==
    ASSUME SmartInv, VerdictInv, NEW v \in bg.todo, AskFails(v)
    PROVE  VerdictInv'
  <1> USE DEF SmartInv, VerdictInv
  <1>1. UNCHANGED <<clock, kind, tests, log, lock, held, req, poll, apart, behind, late>> /\ DoneWith(v, {})
        /\ bg.at = "ask"
    BY DEF AskFails, told
  <1>2. /\ bg'.todo = bg.todo \ {v} /\ bg'.at # "write"
        /\ bg'.at = "wait" => bg'.todo = {}
        /\ bg'.at # "wait" => bg'.began = bg.began
    BY <1>1, Done, NoWriteTyped
  <1>3. InOrder' /\ Current' /\ Answered' /\ Honest'
    BY <1>1, <1>2, OpenStands DEF InOrder, Current, Answered, Tells, Honest, Passed
  <1>4. Viewed'
    BY <1>1, <1>2 DEF Viewed
  <1> QED
    BY <1>3, <1>4

(* A row that the client sees open is about the last test; an answer too early to
   tell of it is not trusted, for the row is not in progress or was not when the
   drive answered. *)
LEMMA LookIsHonest ==
    ASSUME SmartInv, VerdictInv, SightInv, Timely, apart,
           NEW c \in Clients \ behind, poll[c].at = "asked", NEW r \in DOMAIN log \ late,
           NEW w \in PollWrites(r, poll[c].answer), w.result = "passed"
    PROVE  Passed(r)
  <1> USE DEF SmartInv, VerdictInv
  <1> DEFINE answer == poll[c].answer
             last == tests[Len(tests)]
  <1>1. /\ log[r].status \in Open /\ Trusted(log[r])
        /\ DriveStatus(kind, answer[1], answer[2]) = "completed"
        /\ \E e \in answer[2] : PollResult(kind, e) = "passed"
    BY LookTells
  <1>2. log[r].test = Len(tests) /\ log[r].test \in DOMAIN tests /\ tests # <<>> /\ r \in OpenRows
    BY <1>1 DEF OpenRows, Current, Dated
  <1>3. ~answer[1]
    BY <1>1 DEF DriveStatus
  <1>4. /\ poll[c].asked <= clock /\ clock < poll[c].asked + Stall
        /\ Tells(c)
    BY <1>2, <1>3 DEF Answered
  <1>5. CASE last.state # "running" /\ answer[2] = {last.entry}
    <2>1. last.state \in Outcomes /\ last.entry \in Printed(kind, last.state)
      BY <1>2, <1>5, TestTyped DEF InOrder
    <2>2. answer[1] = FALSE
      <3>1. answer \in BOOLEAN \X SUBSET Entries
        BY DEF MoversOK, Polls, Replies, Answered
      <3> QED
        BY <1>3, <3>1
    <2>3. /\ DriveStatus(kind, FALSE, {last.entry}) = "completed"
          /\ PollResult(kind, last.entry) = "passed"
      BY <1>1, <1>5, <2>2
    <2>4. last.state = "passed"
      BY <2>1, <2>3, NoFalsePass DEF WorldOK
    <2> QED
      BY <1>2, <2>4 DEF Passed
  <1>6. CASE log[r].status = "in_progress"
    BY <1>2, <1>3, <1>5, <1>6 DEF SightInv, AnswersFresh
  <1>7. CASE log[r].status # "in_progress" /\ (poll[c].asked < last.began + Lag \/ poll[c].asked <= last.began)
    <2>1. last.began <= log[r].started /\ last.began \in Nat
      BY <1>2, TestTyped DEF Current
    <2>2. log[r].started \in Nat /\ poll[c].asked \in Nat /\ clock \in Nat
      <3>1. log[r] \in RowRecords
        BY DEF TableOK
      <3> QED
        BY <3>1, SmartTestsAssumption DEF RowRecords, Moments, MoversOK, Polls, WorldOK
    <2>3. clock - log[r].started >= Estimated
      BY <1>1, <1>7 DEF Trusted
    <2>4. /\ Estimated \in Nat /\ Stall \in Nat /\ Lag \in Nat
          /\ Stall <= Estimated /\ Lag + Stall <= Estimated + 1
      BY SmartTestsAssumption DEF Timely
    <2>5. last.began + Estimated <= clock
      BY <2>1, <2>2, <2>3, <2>4
    <2> HIDE DEF last
    <2>6. FALSE
      BY <1>4, <1>7, <2>1, <2>2, <2>4, <2>5
    <2> QED
      BY <2>6
  <1> QED
    BY <1>4, <1>5, <1>6, <1>7 DEF Tells

LEMMA ReadRowVerdict ==
    ASSUME SmartInv, VerdictInv, SightInv, Timely, NEW c \in Clients, ReadRow(c)
    PROVE  VerdictInv'
  <1> USE DEF SmartInv, VerdictInv
  <1>1. /\ UNCHANGED <<clock, kind, tests, log, lock, held, req, bg, apart, late>>
        /\ poll[c].at = "asked" /\ behind' \in {behind, behind \ {c}}
    BY DEF ReadRow
  <1>2. InOrder' /\ Current' /\ Viewed'
    BY <1>1, OpenStands DEF InOrder, Current, Viewed
  <1>3. ASSUME poll'[c].at # "asked", \A d \in Clients \ {c} : poll'[d] = poll[d],
               apart /\ c \notin behind' /\ poll'[c].at = "write" /\ poll'[c].write.result = "passed"
                     /\ poll'[c].write.row \notin late
                 => Passed(poll'[c].write.row)
        PROVE  VerdictInv'
    <2>1. Answered'
      BY <1>1, <1>3 DEF Answered, Tells
    <2>2. \A r : Passed(r)' = Passed(r)
      BY <1>1 DEF Passed
    <2>3. Honest'
      BY <1>1, <1>3, <2>2 DEF Honest
    <2> QED
      BY <1>2, <2>1, <2>3
  <1>4. CASE poll' = Idle(c)
    BY <1>3, <1>4, Idles
  <1>5. ASSUME NEW r \in LatestRows,
               LET w == PollWrites(r, poll[c].answer) IN
               IF w = {} THEN poll' = Idle(c)
               ELSE /\ poll' = [poll EXCEPT ![c].at = "write", ![c].write = CHOOSE x \in w : TRUE]
                    /\ UNCHANGED behind
        PROVE  VerdictInv'
    <2>1. r \in DOMAIN log
      BY DEF LatestRows
    <2>2. CASE PollWrites(r, poll[c].answer) = {}
      BY <1>4, <1>5, <2>2
    <2>3. CASE PollWrites(r, poll[c].answer) # {}
      <3> DEFINE w == CHOOSE x \in PollWrites(r, poll[c].answer) : TRUE
      <3>1. w \in PollWrites(r, poll[c].answer)
        BY <2>3
      <3>2. poll' = [poll EXCEPT ![c].at = "write", ![c].write = w] /\ UNCHANGED behind
        BY <1>5, <2>3
      <3> HIDE DEF w
      <3>3. w.row = r
        BY <2>1, <3>1, LookTells
      <3>4. apart /\ c \notin behind /\ w.result = "passed" /\ r \notin late => Passed(r)
        BY <1>1, <2>1, <3>1, LookIsHonest
      <3>5. /\ poll'[c].at = "write" /\ poll'[c].write = w
            /\ \A d \in Clients \ {c} : poll'[d] = poll[d]
        BY <3>2 DEF MoversOK, Polls
      <3> QED
        BY <1>3, <3>2, <3>3, <3>4, <3>5
    <2> QED
      BY <2>2, <2>3
  <1> QED
    BY <1>4, <1>5 DEF ReadRow

(* The newest entry that a round finds is of its row's own test: a later one has
   begun in the round and has not had the time to end. *)
LEMMA ViewIsHonest ==
    ASSUME SmartInv, VerdictInv, SightInv, Timely, apart, bg.at = "ask",
           NEW v \in bg.todo, v.row \notin late,
           NEW a \in Answers, NEW w \in BackgroundWrites(v, a), w.result = "passed"
    PROVE  Passed(v.row)
  <1> USE DEF SmartInv, VerdictInv
  <1> DEFINE n == Len(tests)
             t == log[v.row].test
  <1>1. /\ Trusted(v) /\ DriveStatus(kind, a[1], a[2]) = "completed"
        /\ \E e \in a[2] : BackgroundResult(kind, e) = "passed"
    BY BackgroundTells
  <1>2. /\ bg.began <= clock /\ clock < bg.began + Pass /\ v.started = log[v.row].started
        /\ t \in DOMAIN tests /\ \A u \in DOMAIN tests : u > t => bg.began <= tests[u].began
    BY DEF Viewed
  <1>3. /\ n \in DOMAIN tests /\ n \in Nat /\ t \in Nat /\ t <= n /\ t # 0
        /\ DOMAIN tests = 1..n /\ tests # <<>>
    BY <1>2 DEF TableOK
  <1>4. a[1] = FALSE
    <2>1. a \in BOOLEAN \X SUBSET Entries
      BY AnswersTyped
    <2> QED
      BY <1>1, <2>1 DEF DriveStatus
  <1>5. /\ a[2] = Latest
        /\ tests[n].state = "running" => clock - tests[n].began < Lag /\ ~tests[n].shown
    BY <1>3, <1>4, AnswerFalse
  <1>6. /\ clock \in Nat /\ bg.began \in Nat /\ Pass \in Nat /\ Shortest \in Nat /\ Pass <= Shortest
    BY SmartTestsAssumption DEF WorldOK, Moments, MoversOK, Rounds, Timely
  <1>7. ASSUME NEW u \in DOMAIN tests, u > t PROVE tests[u].state = "running"
    <2>1. bg.began <= tests[u].began /\ tests[u].began \in Nat
      BY <1>2, <1>7, TestTyped
    <2>2. ~(tests[u].began + Shortest <= clock)
      BY <1>2, <1>6, <2>1
    <2> QED
      BY <2>2 DEF InOrder
  <1>8. ASSUME tests[t].state # "running", a[2] = {tests[t].entry} PROVE tests[t].state = "passed"
    <2>1. tests[t].state \in Outcomes /\ tests[t].entry \in Printed(kind, tests[t].state)
      BY <1>2, <1>8, TestTyped DEF InOrder
    <2>2. /\ DriveStatus(kind, FALSE, {tests[t].entry}) = "completed"
          /\ BackgroundResult(kind, tests[t].entry) = "passed"
      BY <1>1, <1>4, <1>8
    <2> HIDE DEF t
    <2> QED
      BY <2>1, <2>2, NoFalsePass DEF WorldOK
  <1>9. CASE t = n
    <2>1. tests[n].state # "running"
      <3> SUFFICES ASSUME tests[n].state = "running" PROVE FALSE
        OBVIOUS
      <3>0. v.status # "in_progress"
        BY <1>5, <1>9 DEF SightInv, RowsSeen, Seen
      <3>1. clock - v.started >= Estimated
        BY <1>1, <3>0 DEF Trusted
      <3>2. /\ Estimated \in Nat /\ Stall \in Nat \ {0} /\ Lag \in Nat
            /\ Lag + Stall <= Estimated + 1
        BY SmartTestsAssumption DEF Timely
      <3>3. tests[n].began <= log[v.row].started /\ tests[n].began \in Nat
        BY <1>3, <1>9, TestTyped DEF Current, Indexed
      <3>4. log[v.row].started \in Nat
        <4>1. log[v.row] \in RowRecords
          BY DEF TableOK, Indexed
        <4> QED
          BY <4>1, SmartTestsAssumption DEF RowRecords, Moments
      <3>5. clock - tests[n].began < Lag
        BY <1>5
      <3> HIDE DEF n, t
      <3> QED
        BY <1>2, <1>6, <3>1, <3>2, <3>3, <3>4, <3>5
    <2>2. a[2] = {tests[n].entry}
      BY <1>3, <1>5, <2>1, NewestEntry
    <2> QED
      BY <1>2, <1>8, <1>9, <2>1, <2>2 DEF Passed
  <1>10. CASE t < n
    <2>1. tests[n].state = "running" /\ t = n - 1
      <3>1. tests[t + 1].state = "running" /\ t + 1 \in DOMAIN tests
        BY <1>3, <1>7, <1>10
      <3>2. t + 1 = n
        BY <3>1 DEF InOrder
      <3> QED
        BY <1>3, <3>1, <3>2
    <2>2. tests[t].state # "running"
      BY <1>2, <1>3, <1>10 DEF InOrder
    <2>3. {u \in DOMAIN tests : u = n - 1} = {t}
      BY <1>2, <2>1
    <2>4. a[2] = {tests[t].entry}
      BY <1>3, <1>5, <2>1, <2>3, EntryBefore
    <2> QED
      BY <1>2, <1>8, <2>2, <2>4 DEF Passed
  <1> QED
    BY <1>3, <1>9, <1>10

LEMMA AskForVerdict ==
    ASSUME SmartInv, VerdictInv, SightInv, Timely, NEW v \in bg.todo, AskFor(v)
    PROVE  VerdictInv'
  <1> USE DEF SmartInv, VerdictInv
  <1>1. PICK a \in Answers : Shown(a) /\ DoneWith(v, BackgroundWrites(v, a))
    BY DEF AskFor
  <1>2. UNCHANGED <<clock, kind, log, lock, held, req, poll, apart, behind, late>> /\ bg.at = "ask"
    BY DEF AskFor, told
  <1>3. /\ InOrder' /\ Current' /\ \A r : Passed(r)' = Passed(r)
        /\ \A c \in Clients : poll'[c] = poll[c] /\ tests # <<>> /\ Tells(c) => Tells(c)'
        /\ (tests' = <<>>) = (tests = <<>>)
    BY <1>1, <1>2, NoticedVerdict
  <1>4. /\ DOMAIN tests' = DOMAIN tests
        /\ \A t \in DOMAIN tests : tests'[t].began = tests[t].began
    BY <1>1, Noticed
  <1> DEFINE ws == BackgroundWrites(v, a)
             w == IF ws = {} THEN NoWrite ELSE CHOOSE x \in ws : TRUE
  <1>5. ws # {} => w \in ws
    OBVIOUS
  <1>6. w \in Writes /\ (ws # {} => w.row = v.row)
    BY <1>5, BackgroundTells, NoWriteTyped
  <1>7. ws # {} /\ apart /\ w.result = "passed" /\ v.row \notin late => Passed(v.row)
    BY <1>2, <1>5, ViewIsHonest
  <1> HIDE DEF ws
  <1>8. ws = {} \/ w = CHOOSE x \in ws : TRUE
    OBVIOUS
  <1>9. DoneWith(v, ws)
    BY <1>1 DEF ws
  <1> HIDE DEF w
  <1>10. /\ bg'.todo = bg.todo \ {v}
         /\ bg'.at = "write" => ws # {} /\ bg'.write = w
         /\ bg'.at = "wait" => bg'.todo = {}
         /\ bg'.at # "wait" => bg'.began = bg.began
    BY <1>6, <1>8, <1>9, Done
  <1>11. Answered'
    BY <1>2, <1>3 DEF Answered
  <1>12. Viewed'
    BY <1>2, <1>4, <1>10 DEF Viewed
  <1>13. Honest'
    BY <1>2, <1>3, <1>6, <1>7, <1>10 DEF Honest
  <1> QED
    BY <1>3, <1>11, <1>12, <1>13

LEMMA InitVerdict == Init => VerdictInv
  <1> SUFFICES ASSUME Init PROVE VerdictInv
    OBVIOUS
  <1> USE DEF Init
  <1>1. InOrder /\ Answered /\ Viewed /\ Honest
    BY DEF InOrder, Answered, Viewed, Honest
  <1>2. Current
    BY DEF Current, OpenRows
  <1> QED
    BY <1>1, <1>2 DEF VerdictInv

-----------------------------------------------------------------------------
(* What was seen *)

(* An answer says in progress only if the drive shows a test. *)
LEMMA ShowsOnly ==
    ASSUME NEW k, NEW shown, NEW latest \in SUBSET Entries,
           DriveStatus(k, shown, latest) = "in_progress"
    PROVE  shown
  <1> SUFFICES ASSUME ~shown PROVE FALSE
    OBVIOUS
  <1>1. latest # {} /\ LogStatus(k, CHOOSE e \in latest : TRUE) = "in_progress"
    BY DEF DriveStatus
  <1> DEFINE e == CHOOSE x \in latest : TRUE
  <1>2. e \in Entries
    BY <1>1
  <1>3. ~Has(e, {"in progress", "running"}) /\ ~Has(e, {"in progress"})
    BY <1>2 DEF Entries, Past, Has
  <1>4. LogStatus(k, e) = "in_progress"
    BY <1>1
  <1> HIDE DEF e
  <1>5. AtaStatus(e) # "in_progress" /\ NvmeStatus(e) # "in_progress" /\ ScsiStatus(e) # "in_progress"
    BY <1>3 DEF AtaStatus, NvmeStatus, ScsiStatus
  <1> QED
    BY <1>4, <1>5 DEF LogStatus

(* A test that was seen stays seen, and its row names no other. *)
LEMMA SeenStays ==
    ASSUME NEW r, log'[r].test = log[r].test, DOMAIN tests \subseteq DOMAIN tests',
           \A t \in DOMAIN tests : tests[t].shown => tests'[t].shown, Seen(r)
    PROVE  Seen(r)'
  BY DEF Seen

LEMMA SightStands ==
    ASSUME RowsSeen, EndedShown, AnswersFresh, apart' => apart,
           UNCHANGED <<tests, log, poll, bg, behind, late>>
    PROVE  EndedShown' /\ RowsSeen' /\ AnswersFresh'
  <1>1. EndedShown'
    BY DEF EndedShown
  <1>2. \A r : Seen(r)' = Seen(r)
    BY DEF Seen
  <1> QED
    BY <1>1, <1>2, OpenStands DEF RowsSeen, AnswersFresh

(* A change of the table leaves no fresh answer. *)
LEMMA NoneFresh ==
    ASSUME AnswersFresh, apart' => apart, UNCHANGED tests, late \subseteq late',
           \A d \in Clients : poll'[d].at = "asked" =>
             poll'[d] = poll[d] /\ (log' # log \/ d \in behind => d \in behind')
    PROVE  AnswersFresh'
  <1>1. CASE log' # log
    BY <1>1 DEF AnswersFresh
  <1>2. CASE log' = log
    BY <1>2, OpenStands DEF AnswersFresh, Seen
  <1> QED
    BY <1>1, <1>2

(* A new test finds no open row. *)
LEMMA RunSmartTestSight ==
    ASSUME SmartInv, SightInv, NEW q \in Requests, RunSmartTest(q)
    PROVE  EndedShown' /\ RowsSeen' /\ AnswersFresh'
  <1> USE DEF SmartInv, SightInv
  <1>1. UNCHANGED <<clock, kind, log, poll, bg, apart, behind, late>> /\ req[q].at = "run"
    BY DEF RunSmartTest, told
  <1>2. CASE tests' = tests
    BY <1>1, <1>2, SightStands
  <1>3. CASE tests' = Append(tests, NewTest)
    <2>1. NewTest \in TestRecords /\ NewTest.state = "running"
      BY DEF NewTest, TestRecords, Entry, Entries, WorldOK, Words
    <2>2. /\ Len(tests) \in Nat /\ DOMAIN tests = 1..Len(tests)
          /\ DOMAIN tests' = 1..(Len(tests) + 1)
          /\ tests'[Len(tests) + 1] = NewTest /\ \A t \in DOMAIN tests : tests'[t] = tests[t]
      BY <1>3, <2>1, TestAdded
    <2>3. EndedShown'
      BY <2>1, <2>2 DEF EndedShown
    <2>4. apart => OpenRows = {}
      BY <1>1 DEF Clear
    <2>5. \A r : Seen(r) => Seen(r)'
      BY <1>1, <2>2 DEF Seen
    <2>6. RowsSeen'
      BY <1>1, <2>5, OpenStands DEF RowsSeen
    <2>7. AnswersFresh'
      BY <1>1, <2>4, OpenStands DEF AnswersFresh
    <2> QED
      BY <2>3, <2>6, <2>7
  <1> QED
    BY <1>2, <1>3 DEF RunSmartTest

LEMMA RecordRunSight ==
    ASSUME SmartInv, SightInv, NEW q \in Requests, RecordRun(q)
    PROVE  EndedShown' /\ RowsSeen' /\ AnswersFresh'
  <1> USE DEF SmartInv, SightInv
  <1>1. UNCHANGED <<clock, kind, tests, poll, bg, apart, late>> /\ Overtakes
    BY DEF RecordRun
  <1>2. EndedShown'
    BY <1>1 DEF EndedShown
  <1>3. AnswersFresh'
    BY <1>1, NoneFresh DEF Overtakes
  <1>4. CASE log' = log
    <2>1. UNCHANGED behind
      BY <1>1, <1>4 DEF Overtakes
    <2> QED
      BY <1>1, <1>4, <2>1, SightStands
  <1>5. ASSUME NEW x \in RowRecords, log' = Append(log, x), x.status # "in_progress"
        PROVE  RowsSeen'
    <2>1. /\ DOMAIN log' = DOMAIN log \cup {Len(log) + 1}
          /\ log'[Len(log) + 1] = x /\ \A r \in DOMAIN log : log'[r] = log[r]
          /\ OpenRows' \subseteq OpenRows \cup {Len(log) + 1}
      BY <1>5, RowAdded
    <2>2. \A r \in DOMAIN log : Seen(r)' = Seen(r)
      BY <1>1, <2>1 DEF Seen
    <2>3. \A r \in OpenRows' : log'[r].status = "in_progress" =>
            r \in OpenRows /\ r \in DOMAIN log /\ log'[r] = log[r]
      BY <1>5, <2>1 DEF OpenRows
    <2>4. behind \subseteq behind'
      BY <1>1 DEF Overtakes
    <2> QED
      BY <1>1, <2>2, <2>3, <2>4 DEF RowsSeen, Indexed
  <1>6. CASE log' = Append(log, Row(Len(tests), "started"))
    <2>1. Len(tests) \in Nat
      BY DEF TableOK
    <2>2. Row(Len(tests), "started") \in RowRecords
      BY <2>1 DEF Row, RowRecords, WorldOK, Statuses, Open, Results
    <2> QED
      BY <1>2, <1>3, <1>5, <1>6, <2>2 DEF Row
  <1>7. CASE log' = Append(log, Row(0, "failed"))
    <2>1. Row(0, "failed") \in RowRecords
      BY DEF Row, RowRecords, WorldOK, Statuses, Results
    <2> QED
      BY <1>2, <1>3, <1>5, <1>7, <2>1 DEF Row
  <1> QED
    BY <1>4, <1>6, <1>7 DEF RecordRun

LEMMA TestEndsSight ==
    ASSUME SmartInv, VerdictInv, SightInv, TestEnds
    PROVE  EndedShown' /\ RowsSeen' /\ AnswersFresh'
  <1> USE DEF SmartInv, VerdictInv, SightInv
  <1>1. UNCHANGED <<clock, kind, log, poll, bg, apart, behind, late>>
    BY DEF TestEnds, told
  <1>2. PICK t \in Running, o \in Outcomes : \E e \in Printed(kind, o) :
          /\ clock - tests[t].began >= Shortest
          /\ tests' \in Seq(TestRecords) /\ Len(tests') = Len(tests)
          /\ DOMAIN tests' = DOMAIN tests
          /\ \A u \in DOMAIN tests : tests'[u].began = tests[u].began
          /\ \A u \in DOMAIN tests \ {t} : tests'[u] = tests[u]
          /\ tests'[t].state = o /\ tests'[t].entry = e /\ tests'[t].shown = TRUE
    BY Concluded
  <1>3. t \in DOMAIN tests /\ tests[t].state = "running" /\ t = Len(tests)
    BY DEF Running, InOrder
  <1>4. EndedShown'
    BY <1>2, <1>3 DEF EndedShown
  <1>5. \A r : Seen(r) => Seen(r)'
    BY <1>1, <1>2 DEF Seen
  <1>6. RowsSeen'
    BY <1>1, <1>5, OpenStands DEF RowsSeen
  <1>7. AnswersFresh'
    BY <1>1, <1>2, <1>3, <1>5, OpenStands DEF AnswersFresh
  <1> QED
    BY <1>4, <1>6, <1>7

(* What an answer tells of the open row. *)
LEMMA AskDriveSight ==
    ASSUME SmartInv, VerdictInv, SightInv, NEW c \in Clients, AskDrive(c)
    PROVE  EndedShown' /\ RowsSeen' /\ AnswersFresh'
  <1> USE DEF SmartInv, VerdictInv, SightInv
  <1>1. PICK a \in Answers :
          /\ Shown(a)
          /\ poll' = [poll EXCEPT ![c].at = "asked", ![c].asked = clock, ![c].answer = a]
    BY DEF AskDrive
  <1>2. UNCHANGED <<clock, kind, log, bg, apart, behind, late>>
    BY DEF AskDrive, told
  <1>3. /\ poll'[c].at = "asked" /\ poll'[c].answer = a
        /\ \A d \in Clients \ {c} : poll'[d] = poll[d]
    BY <1>1 DEF MoversOK
  <1>4. /\ Len(tests') = Len(tests) /\ DOMAIN tests' = DOMAIN tests
        /\ \A t \in DOMAIN tests :
             /\ tests'[t].state = tests[t].state /\ tests'[t].entry = tests[t].entry
             /\ tests'[t].shown = (tests[t].shown \/ (t \in Running /\ a[1]))
    BY <1>1, Noticed
  <1>5. EndedShown'
    BY <1>4 DEF EndedShown
  <1>6. \A r : Seen(r) => Seen(r)'
    BY <1>2, <1>4 DEF Seen
  <1>7. RowsSeen'
    BY <1>2, <1>3, <1>6, OpenStands DEF RowsSeen
  <1>8. ASSUME apart, NEW r \in OpenRows
        PROVE  /\ Len(tests) \in DOMAIN tests
               /\ a[1] => Seen(r)'
               /\ ~a[1] /\ r \notin late /\ log[r].status = "in_progress" =>
                    tests[Len(tests)].state # "running" /\ a[2] = {tests[Len(tests)].entry}
    <2>1. /\ log[r].test = Len(tests) /\ Len(tests) \in DOMAIN tests /\ tests # <<>>
      BY <1>8 DEF OpenRows, Current, Dated
    <2>2. ASSUME a[1] PROVE Seen(r)'
      <3>1. PICK t \in Running : TRUE
        <4>1. <<FALSE, Latest>>[1] = FALSE
          OBVIOUS
        <4> QED
          BY <2>2, <4>1 DEF Answers
      <3>2. t = Len(tests)
        BY <3>1 DEF Running, InOrder
      <3>3. tests'[Len(tests)].shown
        BY <1>4, <2>1, <2>2, <3>1, <3>2
      <3> QED
        BY <1>2, <1>4, <2>1, <3>3 DEF Seen
    <2>3. ASSUME ~a[1], r \notin late, log[r].status = "in_progress"
          PROVE  tests[Len(tests)].state # "running" /\ a[2] = {tests[Len(tests)].entry}
      <3>1. tests[Len(tests)].shown
        BY <1>8, <2>1, <2>3 DEF RowsSeen, Seen
      <3>2. tests[Len(tests)].state # "running" /\ a[2] = Latest
        BY <2>1, <2>3, <3>1, AnswerFalse
      <3> QED
        BY <2>1, <3>2, NewestEntry
    <2> QED
      BY <2>1, <2>2, <2>3
  <1>9. AnswersFresh'
    BY <1>2, <1>3, <1>4, <1>6, <1>8, OpenStands DEF AnswersFresh
  <1> QED
    BY <1>5, <1>7, <1>9

LEMMA ReadRowSight ==
    ASSUME SmartInv, VerdictInv, SightInv, NEW c \in Clients, ReadRow(c)
    PROVE  EndedShown' /\ RowsSeen' /\ AnswersFresh'
  <1> USE DEF SmartInv, VerdictInv, SightInv
  <1>1. /\ UNCHANGED <<clock, kind, tests, log, bg, apart, late>>
        /\ poll[c].at = "asked" /\ behind' \in {behind, behind \ {c}}
    BY DEF ReadRow
  <1>2. EndedShown' /\ \A r : Seen(r)' = Seen(r)
    BY <1>1 DEF EndedShown, Seen
  <1>3. ASSUME poll'[c].at # "asked", \A d \in Clients \ {c} : poll'[d] = poll[d],
               apart /\ c \notin behind' /\ poll'[c].at = "write" /\ poll'[c].write.status = "in_progress"
                 => Seen(poll'[c].write.row)
        PROVE  RowsSeen' /\ AnswersFresh'
    BY <1>1, <1>2, <1>3, OpenStands DEF RowsSeen, AnswersFresh
  <1>4. CASE poll' = Idle(c)
    BY <1>2, <1>3, <1>4, Idles
  <1>5. ASSUME NEW r \in LatestRows,
               LET w == PollWrites(r, poll[c].answer) IN
               IF w = {} THEN poll' = Idle(c)
               ELSE /\ poll' = [poll EXCEPT ![c].at = "write", ![c].write = CHOOSE x \in w : TRUE]
                    /\ UNCHANGED behind
        PROVE  RowsSeen' /\ AnswersFresh'
    <2>1. r \in DOMAIN log
      BY DEF LatestRows
    <2>2. CASE PollWrites(r, poll[c].answer) = {}
      BY <1>4, <1>5, <2>2
    <2>3. CASE PollWrites(r, poll[c].answer) # {}
      <3> DEFINE w == CHOOSE x \in PollWrites(r, poll[c].answer) : TRUE
      <3>1. w \in PollWrites(r, poll[c].answer)
        BY <2>3
      <3>2. poll' = [poll EXCEPT ![c].at = "write", ![c].write = w] /\ UNCHANGED behind
        BY <1>5, <2>3
      <3> HIDE DEF w
      <3>3. /\ w.row = r /\ r \in OpenRows
            /\ w.status = "in_progress" =>
                 DriveStatus(kind, poll[c].answer[1], poll[c].answer[2]) = "in_progress"
        BY <2>1, <3>1, LookTells DEF OpenRows
      <3>4. w.status = "in_progress" => poll[c].answer[1]
        <4>1. poll[c].answer \in BOOLEAN \X SUBSET Entries
          BY <1>1 DEF MoversOK, Polls, Replies, Answered
        <4> QED
          BY <3>3, <4>1, ShowsOnly
      <3>5. /\ poll'[c].at = "write" /\ poll'[c].write = w
            /\ \A d \in Clients \ {c} : poll'[d] = poll[d]
        BY <3>2 DEF MoversOK, Polls
      <3>6. apart /\ c \notin behind /\ w.status = "in_progress" => Seen(r)
        BY <1>1, <3>3, <3>4 DEF AnswersFresh
      <3> QED
        BY <1>3, <3>2, <3>3, <3>5, <3>6
    <2> QED
      BY <2>2, <2>3
  <1> QED
    BY <1>2, <1>4, <1>5 DEF ReadRow

LEMMA WriteRowSight ==
    ASSUME SmartInv, VerdictInv, SightInv, NEW c \in Clients, WriteRow(c)
    PROVE  EndedShown' /\ RowsSeen' /\ AnswersFresh'
  <1> USE DEF SmartInv, VerdictInv, SightInv
  <1> DEFINE w == poll[c].write
  <1>1. /\ UNCHANGED <<clock, kind, tests, req, bg>> /\ poll[c].at = "write"
        /\ Apply(w) /\ poll' = Idle(c)
        /\ late \subseteq late' /\ (Matches(w) /\ c \in behind => w.row \in late')
        /\ behind' = (IF log' = log THEN behind
                      ELSE behind \cup {d \in Clients : poll[d].at = "asked"}) \ {c}
    BY DEF WriteRow
  <1>2. w \in Writes /\ w.row \in DOMAIN log /\ w.status \in Statuses
    BY <1>1 DEF MoversOK, Polls, Indexed
  <1>3. w = poll[c].write
    OBVIOUS
  <1> HIDE DEF w
  <1>4. /\ (apart' => apart) /\ DOMAIN log' = DOMAIN log
        /\ \A r \in DOMAIN log :
             /\ Seen(r)' = Seen(r)
             /\ log'[r] = log[r] \/ (r = w.row /\ Matches(w) /\ log'[r].status = w.status)
        /\ apart' => OpenRows' \subseteq OpenRows
    BY <1>1, <1>2, ApplyVerdict
  <1>5. poll'[c].at = "idle" /\ \A d \in Clients \ {c} : poll'[d] = poll[d]
    BY <1>1, Idles
  <1>6. EndedShown'
    BY <1>1 DEF EndedShown
  <1>7. AnswersFresh'
    BY <1>1, <1>4, <1>5, NoneFresh
  <1>8. RowsSeen'
    <2>1. ASSUME apart', NEW r \in OpenRows' \ late', log'[r].status = "in_progress" PROVE Seen(r)'
      <3>1. apart /\ r \in OpenRows \ late /\ r \in DOMAIN log
        BY <1>1, <1>4, <2>1 DEF OpenRows
      <3>2. CASE log'[r] = log[r]
        BY <1>4, <2>1, <3>1, <3>2 DEF RowsSeen
      <3>3. CASE r = w.row /\ Matches(w) /\ log'[r].status = w.status
        BY <1>1, <1>3, <1>4, <2>1, <3>1, <3>3 DEF RowsSeen
      <3> QED
        BY <1>4, <3>1, <3>2, <3>3
    <2>2. ASSUME apart', NEW d \in Clients \ behind', poll'[d].at = "write",
                 poll'[d].write.status = "in_progress"
          PROVE  poll'[d] = poll[d] /\ Seen(poll[d].write.row)'
      <3>1. d # c /\ d \notin behind
        BY <1>1, <1>5, <2>2
      <3>2. poll'[d] = poll[d]
        BY <1>5, <3>1
      <3>3. Seen(poll[d].write.row) /\ poll[d].write.row \in DOMAIN log
        BY <1>4, <2>2, <3>1, <3>2 DEF RowsSeen, Indexed
      <3> QED
        BY <1>4, <3>2, <3>3
    <2> QED
      BY <1>1, <1>4, <2>1, <2>2 DEF RowsSeen, Indexed
  <1> QED
    BY <1>6, <1>7, <1>8

LEMMA BackgroundWriteSight ==
    ASSUME SmartInv, VerdictInv, SightInv, BackgroundWrite
    PROVE  EndedShown' /\ RowsSeen' /\ AnswersFresh'
  <1> USE DEF SmartInv, VerdictInv, SightInv
  <1>1. /\ UNCHANGED <<clock, kind, tests, req, poll, late>> /\ bg.at = "write"
        /\ Apply(bg.write) /\ Overtakes /\ behind \subseteq behind'
    BY DEF BackgroundWrite, Overtakes
  <1>2. bg.write \in Writes /\ bg.write.row \in DOMAIN log /\ bg.write.status \in Statuses
    BY <1>1 DEF MoversOK, Rounds, Indexed
  <1>3. /\ (apart' => apart) /\ DOMAIN log' = DOMAIN log
        /\ \A r \in DOMAIN log :
             /\ Seen(r)' = Seen(r)
             /\ log'[r] = log[r] \/ (r = bg.write.row /\ log'[r].status = bg.write.status)
        /\ apart' => OpenRows' \subseteq OpenRows
    BY <1>1, <1>2, ApplyVerdict
  <1>4. bg'.todo = bg.todo /\ bg'.at # "write"
    BY Written
  <1>5. EndedShown'
    BY <1>1 DEF EndedShown
  <1>6. AnswersFresh'
    BY <1>1, <1>3, NoneFresh DEF Overtakes
  <1>7. ASSUME apart', NEW r \in OpenRows' \ late', log'[r].status = "in_progress" PROVE Seen(r)'
    <2>1. apart /\ r \in OpenRows \ late /\ r \in DOMAIN log
      BY <1>1, <1>3, <1>7 DEF OpenRows
    <2> QED
      BY <1>1, <1>3, <1>7, <2>1 DEF RowsSeen
  <1>8. RowsSeen'
    BY <1>1, <1>3, <1>4, <1>7 DEF RowsSeen, Indexed
  <1> QED
    BY <1>5, <1>6, <1>8

LEMMA CleanupSight ==
    ASSUME SmartInv, SightInv, Cleanup
    PROVE  EndedShown' /\ RowsSeen' /\ AnswersFresh'
  <1> USE DEF SmartInv, SightInv
  <1>1. UNCHANGED <<tests, poll, bg, apart, late>> /\ Overtakes /\ behind \subseteq behind'
    BY DEF Cleanup, Overtakes
  <1>2. /\ DOMAIN log' = DOMAIN log /\ \A r \in DOMAIN log : log'[r].test = log[r].test
        /\ OpenRows' \subseteq OpenRows /\ \A r \in OpenRows' : log'[r] = log[r]
    BY CleanupClears
  <1>3. \A r \in DOMAIN log : Seen(r)' = Seen(r)
    BY <1>1, <1>2 DEF Seen
  <1>4. EndedShown'
    BY <1>1 DEF EndedShown
  <1>5. AnswersFresh'
    BY <1>1, NoneFresh DEF Overtakes
  <1>6. OpenRows \subseteq DOMAIN log
    BY DEF OpenRows
  <1>7. RowsSeen'
    BY <1>1, <1>2, <1>3, <1>6 DEF RowsSeen, Indexed
  <1> QED
    BY <1>4, <1>5, <1>7

LEMMA TickSight ==
    ASSUME SmartInv, SightInv, Tick
    PROVE  EndedShown' /\ RowsSeen' /\ AnswersFresh'
  <1> USE DEF SmartInv, SightInv
  <1>1. UNCHANGED <<kind, tests, log, bg, apart, behind, late>>
    BY DEF Tick, told
  <1>2. \A c \in Clients :
          /\ poll'[c].at = poll[c].at /\ poll'[c].write = poll[c].write
          /\ poll'[c].answer = poll[c].answer
    BY Ticks
  <1>3. EndedShown' /\ \A r : Seen(r)' = Seen(r)
    BY <1>1 DEF EndedShown, Seen
  <1> QED
    BY <1>1, <1>2, <1>3, OpenStands DEF RowsSeen, AnswersFresh

LEMMA ListRowsSight ==
    ASSUME SmartInv, SightInv, ListRows
    PROVE  EndedShown' /\ RowsSeen' /\ AnswersFresh'
  <1> USE DEF SmartInv, SightInv
  <1>1. /\ UNCHANGED <<tests, log, poll, apart, behind, late>>
        /\ bg' = [bg EXCEPT !.at = "ask", !.began = clock, !.todo = {View(r) : r \in OpenRows}]
    BY DEF ListRows, told
  <1>2. bg'.at = "ask" /\ bg'.todo = {View(r) : r \in OpenRows}
    BY <1>1 DEF MoversOK, Rounds
  <1>3. EndedShown' /\ \A r : Seen(r)' = Seen(r)
    BY <1>1 DEF EndedShown, Seen
  <1>4. ASSUME apart, NEW v \in bg'.todo, v.status = "in_progress", v.row \notin late PROVE Seen(v.row)
    <2>1. PICK r \in OpenRows : v = View(r)
      BY <1>2, <1>4
    <2>2. v.row = r /\ v.status = log[r].status
      BY <2>1 DEF View
    <2> QED
      BY <1>4, <2>2 DEF RowsSeen
  <1>5. RowsSeen'
    BY <1>1, <1>2, <1>3, <1>4, OpenStands DEF RowsSeen
  <1>6. AnswersFresh'
    BY <1>1, <1>3, OpenStands DEF AnswersFresh
  <1> QED
    BY <1>3, <1>5, <1>6

LEMMA AskFailsSight ==
    ASSUME SmartInv, SightInv, NEW v \in bg.todo, AskFails(v)
    PROVE  EndedShown' /\ RowsSeen' /\ AnswersFresh'
  <1> USE DEF SmartInv, SightInv
  <1>1. UNCHANGED <<tests, log, poll, apart, behind, late>> /\ DoneWith(v, {})
    BY DEF AskFails, told
  <1>2. bg'.todo = bg.todo \ {v} /\ bg'.at # "write"
    BY <1>1, Done, NoWriteTyped
  <1>3. EndedShown' /\ \A r : Seen(r)' = Seen(r)
    BY <1>1 DEF EndedShown, Seen
  <1> QED
    BY <1>1, <1>2, <1>3, OpenStands DEF RowsSeen, AnswersFresh

(* The thread makes a row in progress if the drive shows a test; its own is that
   one, or has ended. *)
LEMMA AskForSight ==
    ASSUME SmartInv, VerdictInv, SightInv, NEW v \in bg.todo, AskFor(v)
    PROVE  EndedShown' /\ RowsSeen' /\ AnswersFresh'
  <1> USE DEF SmartInv, VerdictInv, SightInv
  <1>1. PICK a \in Answers : Shown(a) /\ DoneWith(v, BackgroundWrites(v, a))
    BY DEF AskFor
  <1>2. UNCHANGED <<clock, kind, log, poll, apart, behind, late>>
    BY DEF AskFor, told
  <1>3. /\ Len(tests') = Len(tests) /\ DOMAIN tests' = DOMAIN tests
        /\ \A t \in DOMAIN tests :
             /\ tests'[t].state = tests[t].state /\ tests'[t].entry = tests[t].entry
             /\ tests'[t].shown = (tests[t].shown \/ (t \in Running /\ a[1]))
    BY <1>1, Noticed
  <1>4. EndedShown'
    BY <1>3 DEF EndedShown
  <1>5. \A r : Seen(r) => Seen(r)'
    BY <1>2, <1>3 DEF Seen
  <1> DEFINE ws == BackgroundWrites(v, a)
             w == IF ws = {} THEN NoWrite ELSE CHOOSE x \in ws : TRUE
  <1>6. ws # {} => w \in ws
    OBVIOUS
  <1>7. /\ w \in Writes /\ (ws # {} => w.row = v.row)
        /\ ws # {} /\ w.status = "in_progress" => DriveStatus(kind, a[1], a[2]) = "in_progress"
    BY <1>6, BackgroundTells, NoWriteTyped
  <1> HIDE DEF ws
  <1>8. ws = {} \/ w = CHOOSE x \in ws : TRUE
    OBVIOUS
  <1>9. DoneWith(v, ws)
    BY <1>1 DEF ws
  <1> HIDE DEF w
  <1>10. bg'.todo = bg.todo \ {v} /\ (bg'.at = "write" => ws # {} /\ bg'.write = w)
    BY <1>7, <1>8, <1>9, Done
  <1>11. ASSUME apart, a[1] PROVE Seen(v.row)'
    <2>1. log[v.row].test \in DOMAIN tests
      BY <1>11 DEF Viewed
    <2>2. CASE tests[log[v.row].test].state = "running"
      BY <1>2, <1>3, <1>11, <2>1, <2>2 DEF Seen, Running
    <2>3. CASE tests[log[v.row].test].state # "running"
      BY <1>2, <1>3, <2>1, <2>3 DEF Seen, EndedShown
    <2> QED
      BY <2>2, <2>3
  <1>12. ws # {} /\ w.status = "in_progress" => a[1]
    <2>1. a \in BOOLEAN \X SUBSET Entries
      BY AnswersTyped
    <2> QED
      BY <1>7, <2>1, ShowsOnly
  <1>13. RowsSeen'
    BY <1>2, <1>5, <1>7, <1>10, <1>11, <1>12, OpenStands DEF RowsSeen
  <1>14. AnswersFresh'
    <2>1. \A r \in OpenRows : apart => Len(tests) \in DOMAIN tests
      BY DEF OpenRows, Current, Dated
    <2> QED
      BY <1>2, <1>3, <1>5, <2>1, OpenStands DEF AnswersFresh
  <1> QED
    BY <1>4, <1>13, <1>14

LEMMA InitSight == Init => SightInv
  BY DEF Init, SightInv, ToldOK, EndedShown, RowsSeen, AnswersFresh, OpenRows

LEMMA SightInvariant == TestInv /\ [Next]_vars => SightInv'
  <1> SUFFICES ASSUME TestInv, [Next]_vars PROVE SightInv'
    OBVIOUS
  <1> USE DEF TestInv
  <1>1. ToldOK'
    BY ToldKeeps DEF SightInv
  <1>2. EndedShown' /\ RowsSeen' /\ AnswersFresh'
    <2>1. CASE \E q \in Requests : RequestStep(q)
      <3>1. PICK q \in Requests : RequestStep(q)
        BY <2>1
      <3>2. CASE EnsureLock(q) \/ LookupLock(q) \/ AcquireLock(q) \/ CheckDrive(q)
                 \/ ReleaseLock(q) \/ PopLock(q)
        BY <3>2, Steps, SightStands DEF SmartInv, SightInv
      <3> QED
        BY <3>1, <3>2, RunSmartTestSight, RecordRunSight DEF RequestStep
    <2>2. CASE \E c \in Clients : PollStep(c)
      BY <2>2, AskDriveSight, ReadRowSight, WriteRowSight DEF PollStep
    <2>3. CASE BackgroundStep
      BY <2>3, ListRowsSight, AskForSight, AskFailsSight, BackgroundWriteSight DEF BackgroundStep
    <2>4. CASE Cleanup \/ TestEnds \/ Tick
      BY <2>4, CleanupSight, TestEndsSight, TickSight
    <2>5. CASE UNCHANGED vars
      BY <2>5, SightStands DEF vars, SightInv
    <2> QED
      BY <2>1, <2>2, <2>3, <2>4, <2>5 DEF Next
  <1> QED
    BY <1>1, <1>2 DEF SightInv

-----------------------------------------------------------------------------
(* The invariant of the verdict *)

LEMMA VerdictInvariant == Timely /\ TestInv /\ [Next]_vars => VerdictInv'
  <1> SUFFICES ASSUME Timely, TestInv, [Next]_vars PROVE VerdictInv'
    OBVIOUS
  <1> USE DEF TestInv
  <1>1. CASE \E q \in Requests : RequestStep(q)
    <2>1. PICK q \in Requests : RequestStep(q)
      BY <1>1
    <2>2. CASE RunSmartTest(q)
      BY <2>2, RunSmartTestVerdict
    <2>3. CASE RecordRun(q)
      BY <2>3, RecordRunVerdict
    <2>4. CASE EnsureLock(q) \/ LookupLock(q) \/ AcquireLock(q) \/ CheckDrive(q)
               \/ ReleaseLock(q) \/ PopLock(q)
      BY <2>4, Steps, VerdictStands DEF SmartInv
    <2> QED
      BY <2>1, <2>2, <2>3, <2>4 DEF RequestStep
  <1>2. CASE \E c \in Clients : PollStep(c)
    BY <1>2, AskDriveVerdict, ReadRowVerdict, WriteRowVerdict DEF PollStep
  <1>3. CASE BackgroundStep
    BY <1>3, ListRowsVerdict, AskForVerdict, AskFailsVerdict, BackgroundWriteVerdict DEF BackgroundStep
  <1>4. CASE Cleanup \/ TestEnds \/ Tick
    BY <1>4, CleanupVerdict, TestEndsVerdict, TickVerdict
  <1>5. CASE UNCHANGED vars
    BY <1>5, VerdictStands DEF vars, told
  <1> QED
    BY <1>1, <1>2, <1>3, <1>4, <1>5 DEF Next

(* However late the drive shows a new test, within the test's estimated time, a
   row that says passed belongs to a test that the drive passed: neither the
   entry that an earlier test left in the drive's log nor that of a later one,
   nor a failure worded with "completed", is taken for it, for every kind of
   drive, unless a poll that was overtaken has moved the row. *)
THEOREM PassIsTheDrives == Timely => (Spec => []VerdictIsTheDrives)
  <1> SUFFICES ASSUME Timely PROVE Spec => []VerdictIsTheDrives
    OBVIOUS
  <1>1. Init => TestInv
    BY InitSmart, InitVerdict, InitSight DEF TestInv
  <1>2. TestInv /\ [Next]_vars => TestInv'
    BY SmartInvariant, VerdictInvariant, SightInvariant DEF TestInv
  <1>3. TestInv => VerdictIsTheDrives
    BY DEF TestInv, VerdictInv, Honest, VerdictIsTheDrives, Passed
  <1> QED
    BY <1>1, <1>2, <1>3, PTL DEF Spec
=============================================================================
