----------------------------- MODULE ZeroCheck -----------------------------
(***************************************************************************)
(* ZeroCheckManager: the background checks that tell whether a drive is    *)
(* already zeroed.  Callers (discovery cycles, the start and cancel        *)
(* endpoints, a wipe that is starting, a removed drive) and the manager's  *)
(* own worker threads share a queue, a status and a generation token per   *)
(* bay, and a semaphore, all under one lock that is not reentrant.  Every  *)
(* action is one critical section, or one step outside the lock.           *)
(*                                                                         *)
(* Devices, serials, SocketIO events and the contents of a result are left *)
(* out, and so is start_check's refusal of a malformed device path, which  *)
(* discovery never yields.  A queue entry is its bay.                      *)
(***************************************************************************)
EXTENDS Integers, Sequences, FiniteSets

CONSTANTS
    Bays,
    Callers,      \* threads that call the manager
    Starters,     \* those that look for checks to start
    Workers,      \* bound: worker threads that may exist at a time
    Nobody,       \* no worker, no bay
    Limits,       \* values zero_detection_concurrency_limit may take
    Ops,          \* bound: which of "cancel", "wipe", "clear", "limit" the
                  \* callers use
    Rechecks,     \* callers may check a bay again (the manual endpoint)
    MaxTokens,    \* bound: generation tokens handed out
    MaxTimeouts   \* bound: joins that time out before the worker has ended

ASSUME ZeroCheckAssumption ==
    /\ IsFiniteSet(Workers)
    /\ Callers \cap Workers = {}
    /\ Nobody \notin Workers \cup Bays
    /\ Limits \subseteq Nat \ {0} /\ Limits # {}
    /\ Starters \subseteq Callers
    /\ Ops \subseteq {"cancel", "wipe", "clear", "limit"}
    /\ Rechecks \in BOOLEAN
    /\ MaxTokens \in Nat /\ MaxTimeouts \in Nat

VARIABLES
    queue,      \* _queue
    running,    \* _running: the worker registered for each bay
    status,     \* _status[bay]["status"]
    gen,        \* _generations, 0 for none
    counter,    \* _generation_counter
    limit,      \* _max_concurrency
    capacity,   \* _semaphore_capacity
    permits,    \* value of the current _semaphore
    proc,       \* callers and workers: where each stands, with its locals
    wedged,     \* a thread waits for the lock that it holds itself
    wiping,     \* bays whose wipe went past on_wipe_starting
    timeouts    \* joins that timed out

book == <<queue, running, status, gen, counter>>
sem  == <<limit, capacity, permits>>
past == <<wedged, wiping, timeouts>>
vars == <<book, sem, past, proc>>

\* Places of a worker that is registered in _running.
Registered == {"created", "started", "reading", "leaving"}
Places     == Registered \cup {"idle", "start", "publish", "drain", "announce",
                 "launch", "signal", "join", "record", "releasing", "wedged"}
Verdicts   == {"completed", "failed"}
Statuses   == Verdicts \cup {"absent", "queued", "running", "cancelled"}

\* mine: the worker holds a permit of the current semaphore.
Locals == [at : Places, op : {"none", "start", "cancel", "wipe", "clear"},
           bay : Bays \cup {Nobody}, token : 0..MaxTokens,
           child : Workers \cup {Nobody}, event : BOOLEAN, mine : BOOLEAN]

Resting == [at |-> "idle", op |-> "none", bay |-> Nobody, token |-> 0,
            child |-> Nobody, event |-> FALSE, mine |-> FALSE]

BookOK ==
    /\ queue \in Seq(Bays)
    /\ running \in [Bays -> Workers \cup {Nobody}]
    /\ status \in [Bays -> Statuses]
    /\ gen \in [Bays -> 0..MaxTokens]
    /\ counter \in 0..MaxTokens

SemOK  == limit \in Limits /\ capacity \in Limits /\ permits \in Nat

PastOK ==
    /\ wedged \in BOOLEAN
    /\ wiping \subseteq Bays
    /\ timeouts \in 0..MaxTimeouts

ProcOK == proc \in [Callers \cup Workers -> Locals]

TypeOK == BookOK /\ SemOK /\ PastOK /\ ProcOK

Init ==
    /\ queue = <<>>
    /\ running = [b \in Bays |-> Nobody]
    /\ status = [b \in Bays |-> "absent"]
    /\ gen = [b \in Bays |-> 0]
    /\ counter = 0
    /\ limit \in Limits /\ capacity = limit /\ permits = limit
    /\ proc = [p \in Callers \cup Workers |-> Resting]
    /\ wedged = FALSE
    /\ wiping = {}
    /\ timeouts = 0

\* Taking self._lock: nobody may while a thread deadlocks on it.
Lock == ~wedged

Queued(b) == \E i \in DOMAIN queue : queue[i] = b

\* The queue without the entries of a bay: it has one at most (EntriesFresh).
Without(b) ==
    IF Queued(b)
    THEN LET i == CHOOSE k \in DOMAIN queue : queue[k] = b
         IN  SubSeq(queue, 1, i - 1) \o SubSeq(queue, i + 1, Len(queue))
    ELSE queue

\* _next_generation: bounded by MaxTokens.
NewToken(b) ==
    /\ counter < MaxTokens
    /\ counter' = counter + 1
    /\ gen' = [gen EXCEPT ![b] = counter + 1]

\* Mutant of SetIfCurrent: _set_status, without the generation check.
SetAnyway(b, token, s) == status' = [status EXCEPT ![b] = s]

\* _set_status_if_current
SetIfCurrent(b, token, s) ==
    status' = IF gen[b] = token THEN [status EXCEPT ![b] = s] ELSE status

\* Mutant of NewSemaphore: the old semaphore stays when the limit changes.
OldSemaphore(n, procs) ==
    /\ capacity' = n
    /\ proc' = procs
    /\ UNCHANGED permits

\* threading.Semaphore(n) replaces the one whose permits are still out.
NewSemaphore(n, procs) ==
    /\ capacity' = n
    /\ permits' = n
    /\ proc' = [p \in DOMAIN procs |-> [procs[p] EXCEPT !.mine = FALSE]]

Put(p, r)   == proc' = [proc EXCEPT ![p] = r]
Step(p, at) == Put(p, [proc[p] EXCEPT !.at = at])
Return(p)   == Put(p, Resting)

(***************************************************************************)
(* start_check, with the eligibility test its callers make first.          *)
(***************************************************************************)
Blocked == IF Rechecks THEN {"queued", "running"}
                       ELSE {"queued", "running", "cancelled"} \cup Verdicts

FindEligible(c, b) ==
    /\ Lock
    /\ c \in Starters
    /\ proc[c].at = "idle"
    /\ status[b] \notin Blocked
    /\ b \notin wiping
    /\ Put(c, [proc[c] EXCEPT !.at = "start", !.op = "start", !.bay = b])
    /\ UNCHANGED <<book, sem, past>>

\* Mutant of Duplicate: only the queue is searched.
DuplicateEntry(b) == Queued(b)

Duplicate(b) == running[b] # Nobody \/ Queued(b)

\* A duplicate calls _get_status, which takes the lock once more.
StartCheck(c) ==
    /\ Lock
    /\ proc[c].at = "start"
    /\ LET b == proc[c].bay
       IN  IF Duplicate(b)
           THEN /\ wedged' = TRUE
                /\ Step(c, "wedged")
                /\ UNCHANGED <<queue, gen, counter>>
           ELSE /\ NewToken(b)
                /\ queue' = Append(queue, b)
                /\ Put(c, [proc[c] EXCEPT !.at = "publish", !.token = counter'])
                /\ UNCHANGED wedged
    /\ UNCHANGED <<running, status, sem, wiping, timeouts>>

PublishQueued(c) ==
    /\ Lock
    /\ proc[c].at = "publish"
    /\ SetIfCurrent(proc[c].bay, proc[c].token, "queued")
    /\ Step(c, "drain")
    /\ UNCHANGED <<queue, running, gen, counter, sem, past>>

(***************************************************************************)
(* _process_queue, run by start_check and by every worker that ends.       *)
(***************************************************************************)
\* Bound: a worker identity nobody refers to any more.
Spare == {w \in Workers : /\ proc[w].at = "idle"
                          /\ \A p \in Callers \cup Workers : proc[p].child # w}

\* Mutant of NothingToRun: the result of acquire(blocking=False) is ignored.
NothingQueued == queue = <<>>

NothingToRun == queue = <<>> \/ permits = 0

Drained(p) ==
    /\ Lock
    /\ proc[p].at = "drain"
    /\ NothingToRun
    /\ Return(p)
    /\ UNCHANGED <<book, sem, past>>

\* The loop also drops an entry whose bay is running or has no token: there
\* is none (EntriesFresh).
CreateWorker(p, w) ==
    /\ Lock
    /\ proc[p].at = "drain"
    /\ ~NothingToRun
    /\ w \in Spare \ {p}
    /\ LET b == Head(queue)
       IN  /\ running' = [running EXCEPT ![b] = w]
           /\ proc' = [proc EXCEPT
                 ![p] = [@ EXCEPT !.at = "announce", !.child = w],
                 ![w] = [Resting EXCEPT !.at = "created", !.bay = b,
                                        !.token = gen[b], !.mine = TRUE]]
    /\ queue' = Tail(queue)
    /\ permits' = permits - 1
    /\ UNCHANGED <<status, gen, counter, limit, capacity, past>>

\* Mutant of AnnounceRunning: the thread of a cancelled check is not started.
AnnounceOrSkip(p) ==
    /\ Lock
    /\ proc[p].at = "announce"
    /\ LET w == proc[p].child
       IN  /\ SetIfCurrent(proc[w].bay, proc[w].token, "running")
           /\ IF gen[proc[w].bay] = proc[w].token
              THEN Step(p, "launch")
              ELSE Put(p, [proc[p] EXCEPT !.at = "drain", !.child = Nobody])
    /\ UNCHANGED <<queue, running, gen, counter, sem, past>>

AnnounceRunning(p) ==
    /\ Lock
    /\ proc[p].at = "announce"
    /\ LET w == proc[p].child
       IN  SetIfCurrent(proc[w].bay, proc[w].token, "running")
    /\ Step(p, "launch")
    /\ UNCHANGED <<queue, running, gen, counter, sem, past>>

Launch(p) ==
    /\ proc[p].at = "launch"
    /\ proc' = [proc EXCEPT ![p] = [@ EXCEPT !.at = "drain", !.child = Nobody],
                            ![proc[p].child] = [@ EXCEPT !.at = "started"]]
    /\ UNCHANGED <<book, sem, past>>

ProcessQueue(p) ==
    \/ Drained(p) \/ AnnounceRunning(p) \/ Launch(p)
    \/ \E w \in Workers : CreateWorker(p, w)

(***************************************************************************)
(* _worker                                                                 *)
(***************************************************************************)
BeginRead(w) ==
    /\ Lock
    /\ proc[w].at = "started"
    /\ Step(w, IF gen[proc[w].bay] = proc[w].token /\ ~proc[w].event
               THEN "reading" ELSE "leaving")
    /\ UNCHANGED <<book, sem, past>>

\* The read ends: with a result, cancelled, timed out, or with an exception.
FinishRead(w) ==
    /\ Lock
    /\ proc[w].at = "reading"
    /\ \E v \in Verdicts : SetIfCurrent(proc[w].bay, proc[w].token, v)
    /\ Step(w, "leaving")
    /\ UNCHANGED <<queue, running, gen, counter, sem, past>>

\* The finally clause, under the lock.
Leave(w) ==
    /\ Lock
    /\ proc[w].at = "leaving"
    /\ running' = [running EXCEPT ![proc[w].bay] = Nobody]
    /\ LET procs == [proc EXCEPT ![w].at = "releasing"]
       IN  IF capacity # limit /\ \A b \in Bays : running'[b] = Nobody
           THEN NewSemaphore(limit, procs)
           ELSE proc' = procs /\ UNCHANGED <<capacity, permits>>
    /\ UNCHANGED <<queue, status, gen, counter, limit, past>>

\* Mutant of Release: the worker ends without _process_queue.
ReleaseAndEnd(w) ==
    /\ proc[w].at = "releasing"
    /\ permits' = IF proc[w].mine THEN permits + 1 ELSE permits
    /\ Return(w)
    /\ UNCHANGED <<book, limit, capacity, past>>

\* acquired_semaphore.release(): it may have been replaced since.
Release(w) ==
    /\ proc[w].at = "releasing"
    /\ permits' = IF proc[w].mine THEN permits + 1 ELSE permits
    /\ Put(w, [proc[w] EXCEPT !.at = "drain", !.mine = FALSE])
    /\ UNCHANGED <<book, limit, capacity, past>>

WorkerStep(w) == BeginRead(w) \/ FinishRead(w) \/ Leave(w) \/ Release(w)

(***************************************************************************)
(* cancel_check and clear_state.  A wipe goes on whatever cancel_check     *)
(* returns or raises.                                                      *)
(***************************************************************************)
WipeGoesOn(op, b) == wiping' = IF op = "wipe" THEN wiping \cup {b} ELSE wiping

Cancel(c, b, op) ==
    /\ Lock
    /\ op \in Ops \cap {"cancel", "wipe"}
    /\ proc[c].at = "idle"
    /\ op = "wipe" => b \notin wiping
    /\ \/ /\ status[b] \in Verdicts
          /\ WipeGoesOn(op, b)
          /\ UNCHANGED <<queue, gen, counter, proc>>
       \/ /\ status[b] = "absent" /\ running[b] = Nobody
          /\ queue' = Without(b)
          /\ WipeGoesOn(op, b)
          /\ UNCHANGED <<gen, counter, proc>>
       \/ /\ status[b] \notin Verdicts
          /\ status[b] # "absent" \/ running[b] # Nobody
          /\ queue' = Without(b)
          /\ NewToken(b)
          /\ Put(c, [proc[c] EXCEPT
                !.op = op, !.bay = b, !.token = counter', !.child = running[b],
                !.at = IF running[b] = Nobody THEN "record" ELSE "signal"])
          /\ UNCHANGED wiping
    /\ UNCHANGED <<running, status, sem, wedged, timeouts>>

Clear(c, b) ==
    /\ Lock
    /\ "clear" \in Ops
    /\ proc[c].at = "idle"
    /\ status' = [status EXCEPT ![b] = "absent"]
    /\ queue' = Without(b)
    /\ NewToken(b)
    /\ IF running[b] = Nobody
       THEN UNCHANGED proc
       ELSE Put(c, [proc[c] EXCEPT !.at = "signal", !.op = "clear", !.bay = b,
                                   !.child = running[b]])
    /\ UNCHANGED <<running, sem, wedged, wiping, timeouts>>

\* cancel_event.set()
SignalWorker(c) ==
    /\ proc[c].at = "signal"
    /\ proc' = [proc EXCEPT ![c] = [@ EXCEPT !.at = "join"],
                            ![proc[c].child] = [@ EXCEPT !.event = TRUE]]
    /\ UNCHANGED <<book, sem, past>>

\* thread.join(timeout): raises when the thread was not started yet.
JoinWorker(c) ==
    /\ proc[c].at = "join"
    /\ proc[proc[c].child].at # "created"
    /\ \/ proc[proc[c].child].at = "idle" /\ UNCHANGED timeouts
       \/ timeouts < MaxTimeouts /\ timeouts' = timeouts + 1
    /\ IF proc[c].op = "clear"
       THEN Return(c)
       ELSE Put(c, [proc[c] EXCEPT !.at = "record", !.child = Nobody])
    /\ UNCHANGED <<book, sem, wedged, wiping>>

JoinRaises(c) ==
    /\ proc[c].at = "join"
    /\ proc[proc[c].child].at = "created"
    /\ Return(c)
    /\ WipeGoesOn(proc[c].op, proc[c].bay)
    /\ UNCHANGED <<book, sem, wedged, timeouts>>

RecordCancelled(c) ==
    /\ Lock
    /\ proc[c].at = "record"
    /\ SetIfCurrent(proc[c].bay, proc[c].token, "cancelled")
    /\ Return(c)
    /\ WipeGoesOn(proc[c].op, proc[c].bay)
    /\ UNCHANGED <<queue, running, gen, counter, sem, wedged, timeouts>>

\* The policy endpoint calls it with every policy that names a limit, a new
\* one or not.
SetConcurrency(n) ==
    /\ Lock
    /\ "limit" \in Ops
    /\ limit' = n
    /\ IF \A b \in Bays : running[b] = Nobody
       THEN NewSemaphore(n, proc)
       ELSE UNCHANGED <<capacity, permits, proc>>
    /\ UNCHANGED <<book, past>>

Proceed(c) ==
    \/ StartCheck(c) \/ PublishQueued(c) \/ SignalWorker(c)
    \/ JoinWorker(c) \/ JoinRaises(c) \/ RecordCancelled(c)

Next ==
    \/ \E c \in Callers :
        \/ Proceed(c)
        \/ \E b \in Bays :
            \/ FindEligible(c, b) \/ Clear(c, b)
            \/ \E op \in {"cancel", "wipe"} : Cancel(c, b, op)
    \/ \E w \in Workers : WorkerStep(w)
    \/ \E p \in Callers \cup Workers : ProcessQueue(p)
    \/ \E n \in Limits : SetConcurrency(n)

Spec == Init /\ [][Next]_vars

\* Threads run on.  That a read ends is not assumed: dd may hang, and killing
\* it may be refused (ZoneRead).
Fairness ==
    /\ \A c \in Callers : WF_vars(Proceed(c))
    /\ \A w \in Workers : WF_vars(BeginRead(w) \/ Leave(w) \/ Release(w))
    /\ \A p \in Callers \cup Workers : WF_vars(ProcessQueue(p))

FairSpec == Spec /\ Fairness

(***************************************************************************)
(* Properties.                                                             *)
(***************************************************************************)

\* Permits of the current semaphore are free or held by a worker that will
\* give them back to this very semaphore, across every replacement of it by
\* set_concurrency or by the last worker to leave.
SlotsKept ==
    permits + Cardinality({w \in Workers : proc[w].mine}) = capacity

\* The registered checks never exceed the capacity they were admitted under.
LimitKept ==
    Cardinality({b \in Bays : running[b] # Nobody}) <= capacity

\* A drive is read by one check at a time: _running names the only worker of
\* its bay, and the finally clause of an old one never unregisters a new one.
OneReaderPerBay ==
    \A w \in Workers :
        /\ proc[w].at \in Registered => running[proc[w].bay] = w
        /\ \A b \in Bays : running[b] = w =>
              proc[w].bay = b /\ proc[w].at \in Registered

\* An entry of the queue is its bay's only one, has a token, and its bay has
\* no worker: what _process_queue would drop is never queued.
EntriesFresh ==
    \A i \in DOMAIN queue :
        /\ running[queue[i]] = Nobody /\ gen[queue[i]] # 0
        /\ \A k \in DOMAIN queue : queue[k] = queue[i] => k = i

\* A check that was cancelled, or whose drive was removed, never reports: a
\* verdict is published only by the bay's registered worker, unsignalled.
CancelledNeverReports ==
    [][\A b \in Bays :
         status'[b] # status[b] /\ status'[b] \in Verdicts =>
            running[b] # Nobody /\ ~proc[running[b]].event]_vars

\* The read of worker w never ends.
Hangs(w) == [](proc[w].at = "reading")

\* No wakeup is lost: a queued check is taken from the queue in the end,
\* whatever changes of the limit and cancellations happen meanwhile, unless a
\* read that hangs keeps its permit for ever, or the manager has deadlocked
\* (DuplicateIgnored).
QueueDrains ==
    \A b \in Bays :
        Queued(b) ~> ~Queued(b) \/ wedged \/ \E w \in Workers : Hangs(w)

\* Every worker thread ends unless its own read hangs, also with the manager's
\* deadlock excepted: no worker is kept by the read of another.
WorkersEnd ==
    \A w \in Workers :
        proc[w].at # "idle" ~> proc[w].at = "idle" \/ wedged \/ Hangs(w)

(***************************************************************************)
(* What comments and documents say and the code does not do.               *)
(***************************************************************************)

\* Comments in start_check: a duplicate is ignored.  It deadlocks instead.
DuplicateIgnored == ~wedged
=============================================================================
