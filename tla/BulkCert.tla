------------------------------ MODULE BulkCert ------------------------------
(***************************************************************************)
(* Bulk certificates: the request that validates a list of erase jobs, the *)
(* worker that certifies them one by one, the interruption flag that all   *)
(* workers share, the sweep of orphaned rows and the recovery on startup.  *)
(*                                                                         *)
(* An entry of the list names an erase job by its id, by its friendly id,  *)
(* or with blanks around it.  persist_job may raise wherever it is called: *)
(* the worker dies of it, the sweep gives up its round, and the recovery   *)
(* lets the process start.  Progress and notifications are left out.       *)
(***************************************************************************)
EXTENDS Naturals, Sequences, FiniteSets, SequencesExt

CONSTANTS
    Bulks,      \* bulk jobs, each requested once
    Completed,  \* erase jobs whose row is completed
    Others,     \* erase jobs whose row has another status
    Lists,      \* the lists that a request may name
    MaxBatch,   \* max_bulk_cert_batch_size
    MaxFaults,  \* bound: how often something raises
    MaxSignals  \* bound: signals and crashes that end the process

Forms == {"id", "friendly", "blanks"}
Names == [job: Completed \cup Others, form: Forms]

ASSUME BulkCertAssumption ==
    /\ Lists \subseteq Seq(Names)
    /\ {MaxBatch, MaxFaults, MaxSignals} \subseteq Nat
    /\ Completed \cap Others = {}

VARIABLES
    up,     \* "serving", "stopping" after a signal, "starting" while rows are recovered
    list,   \* the names a bulk job was requested for
    mem,    \* BULK_CERT_JOBS: [status, certs, failed], or Gone
    row,    \* erase_jobs: the same, or Gone
    worker, \* the thread that makes or runs the job: [at, next, certs, failed]
    flag,   \* _bulk_cert_interrupted
    sweep,  \* the sweep: [at, todo, job, copy]
    abandoned, \* history: jobs that an exception in this process left to the sweep
    left    \* what the bounds leave: [faults, signals]

vars == <<up, list, mem, row, worker, flag, sweep, abandoned, left>>

Open == {"queued", "running"}
Record(status, certs, failed) == [status |-> status, certs |-> certs, failed |-> failed]
Gone == Record("none", {}, {})
NoWorker == [at |-> "gone", next |-> 1, certs |-> {}, failed |-> {}]
Resting == [at |-> "rest", todo |-> {}, job |-> Gone, copy |-> Gone]

Init ==
    /\ up = "serving" /\ flag = FALSE /\ sweep = Resting /\ abandoned = {}
    /\ list \in [Bulks -> Lists]
    /\ mem = [j \in Bulks |-> Gone] /\ row = [j \in Bulks |-> Gone]
    /\ worker = [j \in Bulks |-> [NoWorker EXCEPT !.at = "new"]]
    /\ left = [faults |-> MaxFaults, signals |-> MaxSignals]

At(j, at) == up # "starting" /\ worker[j].at = at
Goes(j, at) == worker' = [worker EXCEPT ![j].at = at]
Remember(j, record) == mem' = [mem EXCEPT ![j] = record]
Persist(j, record) == row' = [row EXCEPT ![j] = record]
Fault == left.faults > 0 /\ left' = [left EXCEPT !.faults = @ - 1]

-----------------------------------------------------------------------------
(* create_bulk_cert_job *)

(* Names are compared as they are written, and looked up without blanks.   *)
Valid(names) ==
    /\ Len(names) \in 1..MaxBatch
    /\ IsInjective(names)
    /\ \A i \in DOMAIN names : names[i].job \in Completed

(* The job is in memory, and its row was written or was not.               *)
Saved(j, record, at) ==
    /\ Remember(j, record) /\ Persist(j, record)
    /\ Goes(j, at)
    /\ UNCHANGED <<abandoned, left>>

(* What raises ends the thread, which changed the job in memory only.      *)
Dies(j) == Fault /\ Goes(j, "gone") /\ abandoned' = abandoned \cup {j}

Lost(j, record) == Dies(j) /\ Remember(j, record) /\ UNCHANGED row

Refuse(j) ==
    /\ At(j, "new")
    /\ \/ ~Valid(list[j]) /\ UNCHANGED left
       \/ Fault
    /\ Goes(j, "gone")
    /\ UNCHANGED <<up, list, mem, row, flag, sweep, abandoned>>

Create(j) ==
    /\ At(j, "new") /\ Valid(list[j])
    /\ Remember(j, Record("queued", {}, {}))
    /\ Goes(j, "made")
    /\ UNCHANGED <<up, list, row, flag, sweep, abandoned, left>>

(* The row is written and the worker started after the lock is released.   *)
PersistQueued(j) ==
    /\ At(j, "made")
    /\ Saved(j, mem[j], "thread") \/ Lost(j, mem[j])
    /\ UNCHANGED <<up, list, flag, sweep>>

(* The thread cannot be started: the request fails and its row is queued.  *)
NoThread(j) ==
    /\ At(j, "thread") /\ Dies(j)
    /\ UNCHANGED <<up, list, mem, row, flag, sweep>>

-----------------------------------------------------------------------------
(* run_bulk_cert_job; memory and row are moved under BULK_CERT_JOBS_LOCK,  *)
(* in one step.                                                            *)

ResetFlag(j) ==
    /\ At(j, "thread")
    /\ flag' = FALSE /\ Goes(j, "begin")
    /\ UNCHANGED <<up, list, mem, row, sweep, abandoned, left>>

Running(j) ==
    LET now == [mem[j] EXCEPT !.status = "running"] IN
    /\ At(j, "begin")
    /\ Saved(j, now, "check") \/ Lost(j, now)
    /\ UNCHANGED <<up, list, flag, sweep>>

Interrupt(j) ==
    LET now == Record("interrupted", worker[j].certs, worker[j].failed) IN
    /\ At(j, "check") /\ worker[j].next <= Len(list[j]) /\ flag
    /\ Saved(j, now, "gone") \/ Lost(j, now)
    /\ UNCHANGED <<up, list, flag, sweep>>

(* The progress is persisted before each certificate. *)
Progress(j) ==
    /\ At(j, "check") /\ worker[j].next <= Len(list[j]) /\ ~flag
    /\ Saved(j, mem[j], "certify") \/ Lost(j, mem[j])
    /\ UNCHANGED <<up, list, flag, sweep>>

(* The worker's lookup does not strip the blanks. *)
Found(name) == name.form # "blanks"

Certified(j) ==
    [worker EXCEPT ![j].at = "check", ![j].next = @ + 1, ![j].certs = @ \cup {worker[j].next}]

(* Mutant: a certificate that cannot be made is only logged. *)
SkippedFailure(j) ==
    [worker EXCEPT ![j].at = "check", ![j].next = @ + 1]

FailedOne(j) ==
    [worker EXCEPT ![j].at = "check", ![j].next = @ + 1, ![j].failed = @ \cup {worker[j].next}]

Certify(j) ==
    /\ At(j, "certify")
    /\ \/ /\ Found(list[j][worker[j].next])
          /\ worker' = Certified(j) /\ UNCHANGED left
       \/ /\ ~Found(list[j][worker[j].next])
          /\ worker' = FailedOne(j) /\ UNCHANGED left
       \/ /\ Found(list[j][worker[j].next]) /\ Fault
          /\ worker' = FailedOne(j)
    /\ UNCHANGED <<up, list, mem, row, flag, sweep, abandoned>>

EndOfList(j) ==
    /\ At(j, "check") /\ worker[j].next > Len(list[j])
    /\ Saved(j, mem[j], "page") \/ Lost(j, mem[j])
    /\ UNCHANGED <<up, list, flag, sweep>>

(* A page that cannot be written is logged, and the job goes on as if it   *)
(* had been.                                                               *)
WritePage(j) ==
    /\ At(j, "page") /\ Goes(j, "finish")
    /\ UNCHANGED <<up, list, mem, row, flag, sweep, abandoned, left>>

(* Mutant: only a list without any certificate counts as failed. *)
Lenient(w) == IF w.certs = {} THEN "partial_success" ELSE "completed"

Verdict(w) == IF w.failed # {} THEN "partial_success" ELSE "completed"

Finish(j) ==
    LET w == worker[j]
        now == Record(Verdict(w), w.certs, w.failed)
    IN
    /\ At(j, "finish")
    /\ Saved(j, now, "gone") \/ Lost(j, now)
    /\ UNCHANGED <<up, list, flag, sweep>>

Work(j) ==
    \/ Refuse(j) \/ Create(j) \/ PersistQueued(j) \/ NoThread(j) \/ ResetFlag(j) \/ Running(j)
    \/ Interrupt(j) \/ Progress(j) \/ Certify(j) \/ EndOfList(j) \/ WritePage(j) \/ Finish(j)

-----------------------------------------------------------------------------
(* sweep_orphaned_jobs_background, check 1: the rows that are open and not *)
(* in ERASE_JOBS, where no bulk job ever is.                               *)

OpenRows == {j \in Bulks : row[j].status \in Open}

(* Mutant: only the rows that were running are looked for. *)
RunningRows == {j \in Bulks : row[j].status = "running"}

Listed == OpenRows

(* A round begins unless the signal handler has stopped the thread. *)
Scan ==
    /\ up = "serving" /\ sweep.at = "rest"
    /\ sweep' = [Resting EXCEPT !.at = "sweep", !.todo = Listed]
    /\ UNCHANGED <<up, list, mem, row, worker, flag, abandoned, left>>

Load(j) ==
    /\ up # "starting" /\ sweep.at = "sweep" /\ j \in sweep.todo
    /\ sweep' = IF row[j].status \in Open
                THEN [at |-> "mark", todo |-> sweep.todo \ {j}, job |-> j, copy |-> row[j]]
                ELSE [sweep EXCEPT !.todo = @ \ {j}]
    /\ UNCHANGED <<up, list, mem, row, worker, flag, abandoned, left>>

(* The copy that was loaded is written back as failed. *)
Mark(j) ==
    /\ up # "starting" /\ sweep.at = "mark" /\ sweep.job = j
    /\ Persist(j, [sweep.copy EXCEPT !.status = "failed"])
    /\ sweep' = [sweep EXCEPT !.at = "sweep", !.job = Gone, !.copy = Gone]
    /\ UNCHANGED <<up, list, mem, worker, flag, abandoned, left>>

(* A row that cannot be loaded or written ends the round. *)
SweepFails ==
    /\ up # "starting" /\ sweep.at # "rest" /\ Fault
    /\ sweep' = Resting
    /\ UNCHANGED <<up, list, mem, row, worker, flag, abandoned>>

Rest ==
    /\ up # "starting" /\ sweep.at = "sweep" /\ sweep.todo = {}
    /\ sweep' = Resting
    /\ UNCHANGED <<up, list, mem, row, worker, flag, abandoned, left>>

-----------------------------------------------------------------------------
Strike == left.signals > 0 /\ left' = [left EXCEPT !.signals = @ - 1]

(* _centralized_signal_handler raises the flag and stops the sweep, then   *)
(* the process ends; the threads run on until it is gone.                  *)
Signal ==
    /\ up = "serving" /\ Strike
    /\ up' = "stopping" /\ flag' = TRUE
    /\ UNCHANGED <<list, mem, row, worker, sweep, abandoned>>

(* The process ends, after a signal or of a crash. *)
Exit ==
    /\ \/ up = "stopping" /\ UNCHANGED left
       \/ up = "serving" /\ Strike
    /\ up' = "starting" /\ flag' = FALSE /\ sweep' = Resting /\ abandoned' = {}
    /\ mem' = [j \in Bulks |-> Gone]
    /\ worker' = [j \in Bulks |-> IF worker[j].at = "new" THEN worker[j] ELSE NoWorker]
    /\ UNCHANGED <<list, row>>

(* recover_orphaned_jobs_on_startup *)
Orphans == OpenRows

Recover(j) ==
    /\ up = "starting" /\ j \in Orphans
    /\ Persist(j, [row[j] EXCEPT !.status = "failed"])
    /\ UNCHANGED <<up, list, mem, worker, flag, sweep, abandoned, left>>

(* What the recovery could not read or write is logged and left to the     *)
(* sweep.                                                                  *)
Started ==
    /\ up = "starting"
    /\ \/ Orphans = {} /\ UNCHANGED <<abandoned, left>>
       \/ Fault /\ abandoned' = OpenRows
    /\ up' = "serving"
    /\ UNCHANGED <<list, mem, row, worker, flag, sweep>>

-----------------------------------------------------------------------------
SweepStep == Scan \/ Rest \/ SweepFails \/ \E j \in Bulks : Load(j) \/ Mark(j)
StartStep == Started \/ \E j \in Bulks : Recover(j)

Next ==
    \/ \E j \in Bulks : Work(j)
    \/ SweepStep \/ Signal \/ Exit \/ StartStep

(* Threads are scheduled, the sweep among them, which comes round every 60 *)
(* seconds; a signal ends the process, and systemd starts it again.        *)
Fairness ==
    /\ \A j \in Bulks : WF_vars(Work(j))
    /\ WF_vars(SweepStep) /\ WF_vars(StartStep)
    /\ WF_vars(up = "stopping" /\ Exit)

Spec == Init /\ [][Next]_vars /\ Fairness

-----------------------------------------------------------------------------
Records ==
    [status: {"none", "queued", "running", "interrupted", "completed", "partial_success", "failed"},
     certs: SUBSET (1..MaxBatch), failed: SUBSET (1..MaxBatch)]

(* The values of the variables; while the process starts there is no       *)
(* worker of an earlier one and nothing in memory.                         *)
TypeOK ==
    /\ up \in {"serving", "stopping", "starting"} /\ flag \in BOOLEAN
    /\ mem \in [Bulks -> Records] /\ row \in [Bulks -> Records]
    /\ \A j \in Bulks :
        /\ worker[j].at \in {"new", "made", "thread", "begin", "check", "certify", "page", "finish", "gone"}
        /\ worker[j].certs \cap worker[j].failed = {}
        /\ worker[j].certs \cup worker[j].failed = 1..(worker[j].next - 1)
        /\ up = "starting" => mem[j] = Gone /\ worker[j].at \in {"new", "gone"}
    /\ sweep.at \in {"rest", "sweep", "mark"} /\ sweep.todo \subseteq Bulks
    /\ abandoned \subseteq Bulks

(* A row that says completed holds a certificate for every name on the     *)
(* list, and one that says partial success accounts for every name, after  *)
(* whatever the sweep, a signal or a restart wrote over it before.         *)
CompletedCertified ==
    \A j \in Bulks :
        /\ row[j].status = "completed" => row[j].certs = DOMAIN list[j]
        /\ row[j].status = "partial_success" =>
              row[j].failed # {} /\ row[j].certs \cup row[j].failed = DOMAIN list[j]

(* Between start-up and the end of a process, a row that is open belongs   *)
(* to a worker of this process, unless an exception came in between: one   *)
(* that the request, the worker or the recovery ended with.                *)
NoGhost ==
    up # "starting" => \A j \in OpenRows : worker[j].at # "gone" \/ j \in abandoned

(* The row of a job that was persisted comes to rest, whether its worker   *)
(* ends, dies of a write that fails or goes with its process, and though   *)
(* the recovery may fail as well: the sweep then closes the row.           *)
RowSettles == \A j \in Bulks : row[j].status # "none" ~> [](row[j].status \notin Open \cup {"none"})
=============================================================================
