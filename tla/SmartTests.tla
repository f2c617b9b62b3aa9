----------------------------- MODULE SmartTests -----------------------------
(***************************************************************************)
(* The SMART self tests of one drive: requests that start a test under the *)
(* per-device lock of SMART_TEST_LOCKS, the rows of smart_test_log, and    *)
(* the three that move a row: the background thread of app.py, the status  *)
(* endpoint that a client polls, and the cleanup of stale rows.            *)
(*                                                                         *)
(* The clock counts in the resolution of the table's timestamps (seconds): *)
(* two updates within one tick carry the same updated_at.  Its durations   *)
(* are CONSTANTS.  Other drives, the estimated percentages, the wording of *)
(* errors and the history views are left out.                              *)
(***************************************************************************)
EXTENDS SmartStatus, Sequences, FiniteSets

CONSTANTS
    Requests,   \* requests to start a test, each made once
    Clients,    \* clients that poll the status endpoint
    DriveKinds, \* what the drive may be
    Grace,      \* SMART_TEST_GRACE_PERIOD_SECONDS
    Estimated,  \* ESTIMATED_TEST_DURATION_SECONDS of the test's type
    Stale,      \* the age at which a row is taken for stale
    Lag,        \* drive: how long a new test may not show in its answers
    Shortest,   \* drive: no test ends in less
    DbFails,    \* how the table may fail a request: "unseen" rows, a row "lost"
    Stall,      \* bound: a poll reads the table this soon after the drive
    Pass,       \* bound: the background thread goes over its rows this fast
    LastStart,  \* bound: no test starts or is recorded later
    MaxTime     \* bound on the clock

ASSUME SmartTestsAssumption ==
    /\ {Grace, Estimated, Stale, Lag, Shortest, LastStart, MaxTime} \subseteq Nat
    /\ {Stall, Pass} \subseteq Nat \ {0}
    /\ DbFails \subseteq {"unseen", "lost"} /\ DriveKinds \subseteq Kinds

VARIABLES
    clock,
    kind,    \* what the drive is
    tests,   \* the drive's tests: [began, state, entry, shown or ended]
    log,     \* smart_test_log: [test, started, updated, status, result]
    lock,    \* SMART_TEST_LOCKS[device]: the request that made it, or "none"
    held,    \* locks that are acquired
    req,     \* requests: [at, mine], mine the lock that was looked up
    poll,    \* clients: [at, asked, answer, write]
    bg,      \* background thread: [at, began, todo, write]
    apart,   \* history: nothing has yet let two rows be open together
    behind,  \* history: clients whose answer is older than the rows they find
    late     \* history: rows that such a client has moved

told == <<behind, late>>
vars == <<clock, kind, tests, log, lock, held, req, poll, bg, apart, behind, late>>

Open == {"started", "in_progress"}
None == "none"
Never == MaxTime + 1
NoWrite == [row |-> 0, stamp |-> 0, status |-> None, result |-> None]

Init ==
    /\ clock = 0 /\ kind \in DriveKinds
    /\ tests = <<>> /\ log = <<>>
    /\ lock = None /\ held = {}
    /\ req = [q \in Requests |-> [at |-> "idle", mine |-> None]]
    /\ poll = [c \in Clients |-> [at |-> "idle", asked |-> Never, answer |-> <<>>, write |-> NoWrite]]
    /\ bg = [at |-> "wait", began |-> 0, todo |-> {}, write |-> NoWrite]
    /\ apart = TRUE /\ behind = {} /\ late = {}

(***************************************************************************)
(* The drive.  It runs one test at a time.  A test that runs shows in its  *)
(* answers, for some drives only after Lag; the log holds the tests that   *)
(* have ended, the last one first.                                         *)
(***************************************************************************)
Running == {t \in DOMAIN tests : tests[t].state = "running"}
Ended   == {t \in DOMAIN tests : tests[t].state # "running"}

\* The possible answers: <<shown, newest log entry>>; "error" for a query
\* that fails or cannot be read.
Latest == {tests[t].entry : t \in {u \in Ended : u = Cardinality(Ended)}}
Answers ==
    {<<TRUE, Latest>> : t \in Running}
    \cup {<<FALSE, Latest>> : t \in {u \in {Len(tests)} :
            u \in Running => clock - tests[u].began < Lag /\ ~tests[u].shown}}

\* Once a test has shown, it shows until it ends.
Shown(a) == tests' = [t \in DOMAIN tests |->
                        IF t \in Running /\ a[1] THEN [tests[t] EXCEPT !.shown = TRUE] ELSE tests[t]]

TestEnds ==
    \E t \in Running, outcome \in {"passed", "failed", "aborted"} :
      \E e \in Printed(kind, outcome) :
        /\ clock - tests[t].began >= Shortest
        /\ tests' = [tests EXCEPT ![t].state = outcome, ![t].entry = e, ![t].shown = TRUE]
        /\ UNCHANGED <<clock, kind, log, lock, held, req, poll, bg, apart, told>>

(***************************************************************************)
(* run_smart_test_endpoint.                                                *)
(***************************************************************************)
Go(q, at) == req' = [req EXCEPT ![q].at = at]

\* No wipe of the device is queued or running, or 409.  The entry of
\* SMART_TEST_LOCKS is made if there is none.
EnsureLock(q) ==
    /\ req[q].at = "idle" /\ clock <= LastStart
    /\ \/ Go(q, "done") /\ UNCHANGED lock
       \/ Go(q, "lookup") /\ lock' = IF lock = None THEN q ELSE lock
    /\ UNCHANGED <<clock, kind, tests, log, held, poll, bg, apart, told>>

\* SMART_TEST_LOCKS[device_path], outside SMART_TEST_LOCKS_LOCK: KeyError, and
\* a 500, if the entry was popped meanwhile.
LookupLock(q) ==
    /\ req[q].at = "lookup"
    /\ req' = [req EXCEPT ![q] = IF lock = None THEN [@ EXCEPT !.at = "done"]
                                 ELSE [at |-> "acquire", mine |-> lock]]
    /\ UNCHANGED <<clock, kind, tests, log, lock, held, poll, bg, apart, told>>

Inside == {"check", "run", "started", "refused", "release"}   \* holding a lock
Acquirable(q) == req[q].mine \notin held

AcquireLock(q) ==
    /\ req[q].at = "acquire"
    /\ IF Acquirable(q)
       THEN /\ Go(q, "check") /\ held' = held \cup {req[q].mine}
            /\ apart' = (apart /\ \A p \in Requests : req[p].at \notin Inside)
       ELSE Go(q, "done") /\ UNCHANGED <<held, apart>>
    /\ UNCHANGED <<clock, kind, tests, log, lock, poll, bg, told>>

\* Mutant of NoOpenRow: the rows of the device are not looked at.
AnyRows == TRUE

NoOpenRow == \A r \in DOMAIN log : log[r].status \notin Open

\* Mutant of CheckDrive: a refusal returns without the finally clause.
CheckDriveReturns(q) ==
    /\ req[q].at = "check"
    /\ \/ (NoOpenRow \/ "unseen" \in DbFails) /\ Go(q, "run") /\ apart' = (apart /\ NoOpenRow)
       \/ Go(q, "done") /\ UNCHANGED apart
    /\ UNCHANGED <<clock, kind, tests, log, lock, held, poll, bg, told>>

\* The rows of the device, then the OS, mounted, secondary-path and locked
\* checks, any of which may refuse.  A look at the rows that fails refuses
\* nothing.
CheckDrive(q) ==
    /\ req[q].at = "check"
    /\ \/ (NoOpenRow \/ "unseen" \in DbFails) /\ Go(q, "run") /\ apart' = (apart /\ NoOpenRow)
       \/ Go(q, "release") /\ UNCHANGED apart
    /\ UNCHANGED <<clock, kind, tests, log, lock, held, poll, bg, told>>

NewTest == [began |-> clock, state |-> "running", entry |-> Entry({}, "absent"), shown |-> FALSE]

\* run_smart_test: smartctl -t starts the test, or refuses: always while one
\* runs, and for any reason of its own.  One that is taken for refused, because
\* it timed out or worded its success differently, may have started the test.
RunSmartTest(q) ==
    /\ req[q].at = "run" /\ clock <= LastStart
    /\ \/ Running = {} /\ tests' = Append(tests, NewTest)
          /\ \E at \in {"started", "refused"} : Go(q, at)
       \/ Go(q, "refused") /\ UNCHANGED tests
    /\ UNCHANGED <<clock, kind, log, lock, held, poll, bg, apart, told>>

Row(test, status) ==
    [test |-> test, started |-> clock, updated |-> clock, status |-> status, result |-> None]

\* A change of the table overtakes the polls that have their answer and have
\* not read it.
Overtakes ==
    behind' = IF log' = log THEN behind ELSE behind \cup {c \in Clients : poll[c].at = "asked"}

\* record_smart_test_run, which may fail and is then only logged.
RecordRun(q) ==
    /\ req[q].at \in {"started", "refused"} /\ clock <= LastStart
    /\ Go(q, "release")
    /\ \/ log' = Append(log, IF req[q].at = "started" THEN Row(Len(tests), "started")
                             ELSE Row(0, "failed"))
       \/ "lost" \in DbFails /\ UNCHANGED log
    /\ Overtakes
    /\ UNCHANGED <<clock, kind, tests, lock, held, poll, bg, apart, late>>

\* The finally clause: the lock is released, then whatever entry the device
\* has is popped.
ReleaseLock(q) ==
    /\ req[q].at = "release"
    /\ Go(q, "pop") /\ held' = held \ {req[q].mine}
    /\ UNCHANGED <<clock, kind, tests, log, lock, poll, bg, apart, told>>

PopLock(q) ==
    /\ req[q].at = "pop"
    /\ Go(q, "done") /\ lock' = None
    /\ UNCHANGED <<clock, kind, tests, log, held, poll, bg, apart, told>>

RequestStep(q) ==
    \/ EnsureLock(q) \/ LookupLock(q) \/ AcquireLock(q) \/ CheckDrive(q)
    \/ RunSmartTest(q) \/ RecordRun(q) \/ ReleaseLock(q) \/ PopLock(q)

(***************************************************************************)
(* Moving a row.                                                           *)
(***************************************************************************)
\* Mutant of Trusted: no grace period, the answer is taken as it comes.
TrustedAtOnce(row) == TRUE

\* should_trust_completion_status: the old entry of the log is not taken for
\* the verdict of a test that was never seen running.
Trusted(row) == clock - row.started >= (IF row.status = "in_progress" THEN Grace ELSE Estimated)

To(status, result) == [status |-> status, result |-> result]

\* Mutant of Change: an aborted test is not looked for.
ChangeNoAbort(row, answer, result) ==
    LET status == DriveStatus(kind, answer[1], answer[2]) IN
    IF status = "in_progress"
    THEN IF row.status = "started" THEN {To("in_progress", None)} ELSE {}
    ELSE IF ~Trusted(row) \/ status = "aborted" THEN {}
    ELSE IF status = "completed" THEN {To("completed", result)}
    ELSE IF status = "failed" THEN {To("failed", "failed")} ELSE {To("completed", "unknown")}

\* The change the drive's answer asks of a row with status Open; none is {}.
Change(row, answer, result) ==
    LET status == DriveStatus(kind, answer[1], answer[2]) IN
    IF status = "in_progress"
    THEN IF row.status = "started" THEN {To("in_progress", None)} ELSE {}
    ELSE IF ~Trusted(row) THEN {}
    ELSE {CASE status = "completed" -> To("completed", result)
            [] status = "failed" -> To("failed", "failed")
            [] status = "aborted" -> To("failed", "aborted")
            [] OTHER -> To("completed", "unknown")}

ResultOf(answer, R(_, _)) ==
    IF answer[2] = {} THEN "unknown" ELSE R(kind, CHOOSE e \in answer[2] : TRUE)

Update(r, stamp, to) == [row |-> r, stamp |-> stamp, status |-> to.status, result |-> to.result]

\* Mutant of Matches: the row is found by its id alone.
MatchesId(w) == w.row \in DOMAIN log

\* update_smart_test_run with optimistic locking.
Matches(w) == log[w.row].updated = w.stamp

\* A row that the cleanup failed is reopened by a view of the same second.
Reopens(w) == Matches(w) /\ w.status \in Open /\ log[w.row].status \notin Open

Apply(w) ==
    /\ log' = IF Matches(w)
              THEN [log EXCEPT ![w.row].status = w.status, ![w.row].result = w.result,
                               ![w.row].updated = clock]
              ELSE log
    /\ apart' = (apart /\ ~Reopens(w))

(***************************************************************************)
(* The status endpoint: it asks the drive, then reads the latest row, then *)
(* writes.  The bound on asked: a client polls once per tick.                *)
(***************************************************************************)
AskDrive(c) ==
    /\ poll[c].at = "idle" /\ poll[c].asked = Never
    /\ \E a \in Answers :
         /\ Shown(a)
         /\ poll' = [poll EXCEPT ![c].at = "asked", ![c].asked = clock, ![c].answer = a]
    /\ UNCHANGED <<clock, kind, log, lock, held, req, bg, apart, told>>

\* ORDER BY started_at DESC LIMIT 1: rows of one second tie.
LatestRows == {r \in DOMAIN log : \A s \in DOMAIN log : log[s].started <= log[r].started}

PollWrites(r, answer) ==
    {Update(r, log[r].updated, to) :
        to \in IF log[r].status \in Open
               THEN Change(log[r], answer, ResultOf(answer, PollResult)) ELSE {}}

Idle(c) == [poll EXCEPT ![c].at = "idle", ![c].answer = <<>>, ![c].write = NoWrite]

ReadRow(c) ==
    /\ poll[c].at = "asked"
    /\ \/ log = <<>> /\ poll' = Idle(c) /\ behind' = behind \ {c}
       \/ \E r \in LatestRows :
            LET w == PollWrites(r, poll[c].answer) IN
            IF w = {} THEN poll' = Idle(c) /\ behind' = behind \ {c}
            ELSE /\ poll' = [poll EXCEPT ![c].at = "write", ![c].write = CHOOSE x \in w : TRUE]
                 /\ UNCHANGED behind
    /\ UNCHANGED <<clock, kind, tests, log, lock, held, req, bg, apart, late>>

WriteRow(c) ==
    /\ poll[c].at = "write"
    /\ LET w == poll[c].write IN
       /\ Apply(w) /\ poll' = Idle(c)
       /\ late' = IF Matches(w) /\ c \in behind THEN late \cup {w.row} ELSE late
    /\ behind' = (IF log' = log THEN behind
                  ELSE behind \cup {d \in Clients : poll[d].at = "asked"}) \ {c}
    /\ UNCHANGED <<clock, kind, tests, lock, held, req, bg>>

PollStep(c) == AskDrive(c) \/ ReadRow(c) \/ WriteRow(c)

(***************************************************************************)
(* The background thread: it reads all open rows, then asks the drive and  *)
(* writes for one after the other.                                         *)
(***************************************************************************)
OpenRows == {r \in DOMAIN log : log[r].status \in Open}
View(r) == [row |-> r, started |-> log[r].started, updated |-> log[r].updated,
            status |-> log[r].status]

ListRows ==
    /\ bg.at = "wait" /\ OpenRows # {}
    /\ bg' = [bg EXCEPT !.at = "ask", !.began = clock, !.todo = {View(r) : r \in OpenRows}]
    /\ UNCHANGED <<clock, kind, tests, log, lock, held, req, poll, apart, told>>

BackgroundWrites(v, answer) ==
    {Update(v.row, v.updated, to) : to \in Change(v, answer, ResultOf(answer, BackgroundResult))}

\* The thread is done with view v; it writes w, if there is something to write.
DoneWith(v, w) ==
    LET rest == bg.todo \ {v} IN
    bg' = [bg EXCEPT !.todo = rest, !.began = IF rest = {} /\ w = {} THEN 0 ELSE @,
             !.at = IF w # {} THEN "write" ELSE IF rest = {} THEN "wait" ELSE "ask",
             !.write = IF w = {} THEN NoWrite ELSE CHOOSE x \in w : TRUE]

AskFor(v) ==
    /\ bg.at = "ask"
    /\ \E a \in Answers : Shown(a) /\ DoneWith(v, BackgroundWrites(v, a))
    /\ UNCHANGED <<clock, kind, log, lock, held, req, poll, apart, told>>

\* The query fails: the row is left for the next round.
AskFails(v) ==
    /\ bg.at = "ask"
    /\ DoneWith(v, {})
    /\ UNCHANGED <<clock, kind, tests, log, lock, held, req, poll, apart, told>>

BackgroundWrite ==
    /\ bg.at = "write"
    /\ Apply(bg.write)
    /\ bg' = [bg EXCEPT !.at = IF bg.todo = {} THEN "wait" ELSE "ask", !.write = NoWrite,
                        !.began = IF bg.todo = {} THEN 0 ELSE @]
    /\ Overtakes
    /\ UNCHANGED <<clock, kind, tests, lock, held, req, poll, late>>

BackgroundStep ==
    \/ ListRows \/ BackgroundWrite
    \/ \E v \in bg.todo : AskFails(v) \/ AskFor(v)

(***************************************************************************)
(* cleanup_stale_smart_tests, from the batch status of the drive listing.  *)
(* It leaves updated_at as it is.                                          *)
(***************************************************************************)
Cleanup ==
    /\ \E r \in OpenRows : clock - log[r].started > Stale
    /\ log' = [r \in DOMAIN log |->
                 IF r \in OpenRows /\ clock - log[r].started > Stale
                 THEN [log[r] EXCEPT !.status = "failed", !.result = "timed out"] ELSE log[r]]
    /\ Overtakes
    /\ UNCHANGED <<clock, kind, tests, lock, held, req, poll, bg, apart, late>>

\* Time passes, within the bounds on a poll and on a round of the thread.
Tick ==
    /\ clock < MaxTime /\ clock' = clock + 1
    /\ \A c \in Clients : poll[c].at # "idle" => clock' - poll[c].asked < Stall
    /\ bg.at # "wait" => clock' - bg.began < Pass
    /\ poll' = [c \in Clients |-> IF poll[c].at = "idle" THEN [poll[c] EXCEPT !.asked = Never]
                                 ELSE poll[c]]
    /\ UNCHANGED <<kind, tests, log, lock, held, req, bg, apart, told>>

Next ==
    \/ \E q \in Requests : RequestStep(q)
    \/ \E c \in Clients : PollStep(c)
    \/ BackgroundStep \/ Cleanup \/ TestEnds \/ Tick

\* The background thread runs, and does not see every query fail.  A client
\* that has asked is served.  Tests end.  Time passes: the bounds on a poll and a
\* round only hold it up.  Nobody need poll, or list drives.
Fairness ==
    /\ WF_vars(BackgroundStep)
    /\ SF_vars(\E v \in bg.todo : AskFor(v))
    /\ \A c \in Clients : WF_vars(ReadRow(c) \/ WriteRow(c))
    /\ WF_vars(TestEnds) /\ SF_vars(Tick)

Spec == Init /\ [][Next]_vars /\ Fairness

Places == {"idle", "lookup", "acquire", "check", "run", "started", "refused",
           "release", "pop", "done"}
Statuses == Open \cup {"completed", "failed"}
Results  == {None, "passed", "failed", "aborted", "unknown", "timed out"}
Writes   == [row : Nat, stamp : 0..MaxTime, status : Statuses \cup {None}, result : Results]

TypeOK ==
    /\ clock \in 0..MaxTime /\ kind \in Kinds
    /\ \A t \in DOMAIN tests :
         /\ tests[t].began \in 0..MaxTime /\ tests[t].shown \in BOOLEAN
         /\ tests[t].state \in {"running", "passed", "failed", "aborted"}
    /\ \A r \in DOMAIN log :
         /\ log[r].test \in {0} \cup DOMAIN tests /\ log[r].status \in Statuses
         /\ log[r].result \in Results /\ log[r].updated \in log[r].started..clock
    /\ lock \in Requests \cup {None}
    /\ \A l \in held : \E q \in Requests : req[q].mine = l /\ req[q].at \in Inside
    /\ req \in [Requests -> [at : Places, mine : Requests \cup {None}]]
    /\ \A c \in Clients :
         poll[c].at \in {"idle", "asked", "write"} /\ poll[c].write \in Writes
    /\ bg.at \in {"wait", "ask", "write"} /\ bg.write \in Writes
    /\ apart \in BOOLEAN /\ behind \in SUBSET Clients /\ late \in SUBSET DOMAIN log

\* A row that says passed belongs to a test that the drive itself passed: the
\* entry an earlier test left in the drive's log, or a failure worded with
\* "completed", is never taken for it, although a drive may show a new test
\* much later than the grace period ends.  Not covered is a row once moved by a
\* poll whose answer was older than the row it found: the code stores that.
VerdictIsTheDrives ==
    apart => \A r \in DOMAIN log \ late : log[r].result = "passed" =>
        log[r].test \in DOMAIN tests /\ tests[log[r].test].state = "passed"

\* The device has one open row, whatever requests, stale rows and failures of
\* smartctl come together, and the status endpoint and the background thread
\* move the same one, so long as requests were kept apart, their looks at the
\* rows did not fail and no row was reopened.
OneOpenRow == apart => Cardinality(OpenRows) <= 1

\* A row once completed keeps its status and its result, although a poll and
\* the background thread may both hold an older view of it; not covered are, again,
\* the rows that an overtaken poll has moved.
CompletedStands ==
    [][\A r \in DOMAIN log \ late' : log[r].status = "completed" =>
         log'[r].status = "completed" /\ log'[r].result = log[r].result]_vars

\* No card shows a running test for ever: in the end no row is open, though
\* nobody polls, queries fail and a row may have been reopened.
TestsConclude == <>[](OpenRows = {})
=============================================================================
