----------------------------- MODULE EraseJobs -----------------------------
(***************************************************************************)
(* The life of an erase job: the start, cancel and kill-all endpoints, the *)
(* worker thread of each job, the orphan sweep, the signal handler and the *)
(* recovery at start-up, over three pieces of state that can disagree:     *)
(* the job dictionaries in ERASE_JOBS, the rows of the erase_jobs table,   *)
(* and the wipe subprocesses.                                              *)
(*                                                                         *)
(* A job dictionary is reduced to its status, the certificate it holds and *)
(* whether its error says the user cancelled it.  A dictionary outlives    *)
(* its removal from ERASE_JOBS while a thread still refers to it, so       *)
(* membership (listed) is kept apart from contents (dict).  Every step     *)
(* that persists takes a parameter ok: persist_job may raise, at most      *)
(* MaxFaults times.  Log files, notifications, progress figures and the    *)
(* discovery cache are left out.                                           *)
(***************************************************************************)
EXTENDS Integers, Sequences, FiniteSets

CONSTANTS
    Jobs,        \* job identifiers that may be used (uuid4)
    Devices,     \* block devices of the bays
    Requests,    \* HTTP threads that may run start_erase
    Batches,     \* bodies a start request may carry: sequences of targets
    Actors,      \* bound: which of "cancel", "kill", "sweep", "policy" act
    MaxWipes,    \* max_concurrent_wipes of the policy
    MaxCrashes,  \* bound: how often the server dies
    MaxFaults    \* bound: how often persist_job, or a worker helper, raises

\* One validated bay of a request: its device, whether its method is finished
\* by the drive's firmware, and whether its health gate was overridden.
Target == [dev : Devices, firmware : BOOLEAN, overridden : BOOLEAN]

ASSUME ErasableAssumption ==
    /\ IsFiniteSet(Jobs)
    /\ Devices # {}
    /\ Actors \subseteq {"cancel", "kill", "sweep", "policy"}
    /\ MaxWipes \in Nat \ {0}
    /\ MaxCrashes \in Nat
    /\ MaxFaults \in Nat
    /\ Batches \subseteq Seq(Target) \ {<<>>}

VARIABLES
    dict,      \* contents of the job dictionaries
    listed,    \* keys of ERASE_JOBS
    target,    \* what the job was created for
    row,       \* rows of erase_jobs
    pc,        \* where the job's worker thread stands
    proc,      \* the job's wipe subprocess, as the OS sees it
    attached,  \* job["_process"] holds the subprocess
    lost,      \* the worker's local variable job is None
    age,       \* 1: timeout passed since started_at, 2: since start_time
    stale,     \* workers whose captured interrupt generation is behind
    permits,   \* value of WIPE_SEMAPHORE
    req,       \* the start_erase requests
    toKill,    \* cancelled jobs whose subprocess is still to be terminated
    kill,      \* the kill-all request
    sweep,     \* the orphan sweep thread
    strict,    \* policy: overriding the health gate is not allowed
    server,    \* state of the server process
    crashes,   \* times the server died
    faults     \* times persist_job or a worker helper raised

memory  == <<dict, listed, target, attached>>
threads == <<pc, lost, age, stale, permits>>
admin   == <<toKill, kill>>
env     == <<strict, server, crashes>>
vars    == <<memory, threads, admin, env, row, proc, req, sweep, faults>>

Live  == {"queued", "running"}
Final == {"completed", "failed", "interrupted"}

Nothing == [status |-> "absent", cert |-> "none", cancelled |-> FALSE]
Queued  == [Nothing EXCEPT !.status = "queued"]

Idle      == [at |-> "idle", todo |-> <<>>, job |-> {}, image |-> Nothing]
NoKill    == [at |-> "idle", pending |-> {}, doomed |-> {}]
NoSweep   == [at |-> "idle", todo |-> {}, job |-> {}]

\* Worker locations at which a thread exists and has captured a generation.
Working == {"gate", "capture", "prepare", "spawn", "register", "monitor",
            "interrupt", "expire", "poll", "verify", "certify", "reject"}
\* Locations from which the job holds a permit of the semaphore.
Holding == Working \cup {"starting", "init"}

JobRecord == [status : Live \cup Final \cup {"absent"},
           cert : {"none", "pass", "fail"}, cancelled : BOOLEAN]

MemoryOK ==
    /\ dict \in [Jobs -> JobRecord]
    /\ listed \subseteq Jobs
    /\ target \in [Jobs -> Target]
    /\ attached \in [Jobs -> BOOLEAN]

StoreOK ==
    /\ row \in [Jobs -> JobRecord]
    /\ faults \in 0..MaxFaults

ThreadsOK ==
    /\ pc \in [Jobs -> Holding \cup {"unborn", "done"}]
    /\ lost \in [Jobs -> BOOLEAN]
    /\ age \in [Jobs -> 0..2]
    /\ stale \subseteq Jobs
    /\ permits \in Nat

RequestRecord == [at : {"idle", "acquire", "published", "writing"},
                  todo : Seq(Target), job : SUBSET Jobs, image : JobRecord]

RequestsOK == req \in [Requests -> RequestRecord]

AdminOK ==
    /\ toKill \subseteq Jobs
    /\ kill \in [at : {"idle", "busy"}, pending : SUBSET Jobs,
                 doomed : SUBSET Jobs]

SweepOK ==
    sweep \in [at : {"idle", "rows", "tested", "loaded", "stuck"},
               todo : SUBSET Jobs, job : SUBSET Jobs]

WorldOK ==
    /\ proc \in [Jobs -> {"none", "alive", "exited"}]
    /\ strict \in BOOLEAN
    /\ server \in {"up", "stopping", "down", "recovering"}
    /\ crashes \in 0..MaxCrashes

TypeOK ==
    MemoryOK /\ StoreOK /\ ThreadsOK /\ RequestsOK /\ AdminOK /\ SweepOK /\ WorldOK

Init ==
    /\ dict = [j \in Jobs |-> Nothing]
    /\ row = [j \in Jobs |-> Nothing]
    /\ listed = {}
    /\ target = [j \in Jobs |-> CHOOSE t \in Target : TRUE]
    /\ pc = [j \in Jobs |-> "unborn"]
    /\ proc = [j \in Jobs |-> "none"]
    /\ attached = [j \in Jobs |-> FALSE]
    /\ lost = [j \in Jobs |-> FALSE]
    /\ age = [j \in Jobs |-> 0]
    /\ stale = {}
    /\ permits = MaxWipes
    /\ req = [r \in Requests |-> Idle]
    /\ toKill = {}
    /\ kill = NoKill
    /\ sweep = NoSweep
    /\ strict = FALSE
    /\ server = "up"
    /\ crashes = 0
    /\ faults = 0

Running == server \in {"up", "stopping"}
Unborn  == {j \in Jobs : pc[j] = "unborn"}

(***************************************************************************)
(* Persisting.  persist_job writes the dictionary over the job's row; when *)
(* it raises nothing is written.                                           *)
(***************************************************************************)
Outcome(ok) ==
    /\ ok \/ faults < MaxFaults
    /\ faults' = IF ok THEN faults ELSE faults + 1

Persist(j, ok) ==
    /\ Outcome(ok)
    /\ row' = IF ok THEN [row EXCEPT ![j] = dict'[j]] ELSE row

\* Mutant of Update: the job is changed in memory and not persisted.
UpdateUnsaved(j, d, ok) ==
    /\ ok
    /\ dict' = IF j \in listed THEN [dict EXCEPT ![j] = d] ELSE dict
    /\ UNCHANGED <<row, faults>>

\* Mutant of Update: the job is not looked up in ERASE_JOBS again.
UpdateUnlisted(j, d, ok) ==
    /\ dict' = [dict EXCEPT ![j] = d]
    /\ Persist(j, ok)

\* Under ERASE_JOBS_LOCK: if the job is still listed, give its dictionary the
\* contents d and persist it; otherwise leave everything as it is.
Update(j, d, ok) ==
    IF j \in listed
    THEN /\ dict' = [dict EXCEPT ![j] = d]
         /\ Persist(j, ok)
    ELSE /\ ok
         /\ UNCHANGED <<dict, row, faults>>

\* Mutant of EndWorker: no finally clause, the permit is not released.
EndWorkerLeak(j) ==
    /\ pc' = [pc EXCEPT ![j] = "done"]
    /\ lost' = [lost EXCEPT ![j] = FALSE]
    /\ age' = [age EXCEPT ![j] = 0]
    /\ stale' = stale \ {j}
    /\ UNCHANGED permits

\* worker_with_cleanup's finally clause: the thread and its local variables
\* are gone, the permit returns.  (Time still counts for a job left running:
\* Clock may tick again at once.)
EndWorker(j) ==
    /\ pc' = [pc EXCEPT ![j] = "done"]
    /\ permits' = permits + 1
    /\ lost' = [lost EXCEPT ![j] = FALSE]
    /\ age' = [age EXCEPT ![j] = 0]
    /\ stale' = stale \ {j}

Goto(j, at) ==
    /\ pc' = [pc EXCEPT ![j] = at]
    /\ UNCHANGED <<permits, lost, age, stale>>

Failed(j) == [dict[j] EXCEPT !.status = "failed", !.cancelled = FALSE]

\* finalize_failed_job followed by the return of run_erase_job.
FinalizeFailed(j, ok) ==
    /\ Update(j, Failed(j), ok)
    /\ EndWorker(j)

\* The two interruption branches: status interrupted, then return.
Interrupt(j, ok) ==
    /\ Update(j, [dict[j] EXCEPT !.status = "interrupted",
                                  !.cancelled = FALSE], ok)
    /\ EndWorker(j)

Stop(j) == proc' = [proc EXCEPT ![j] = "exited"]

(***************************************************************************)
(* start_erase.  Validation and the health gate leave no trace when they   *)
(* refuse, so a request appears here once every bay of its batch passed.   *)
(* Nothing in them asks whether a device already has a job.                *)
(***************************************************************************)
\* Bound: the batch fits the identifiers that remain.
Reserved == UNION {{r} \X DOMAIN req[r].todo : r \in Requests}
Room(b)  == Cardinality(Reserved) + Len(b) <= Cardinality(Unborn)

Accept(r, b) ==
    /\ server = "up"
    /\ req[r].at = "idle"
    /\ Room(b)
    /\ strict => \A i \in 1..Len(b) : ~b[i].overridden
    /\ req' = [req EXCEPT ![r] = [Idle EXCEPT !.at = "acquire", !.todo = b]]
    /\ UNCHANGED <<memory, threads, admin, env, row, proc, sweep, faults>>

\* Mutant of SlotFree: acquire(blocking=False), its result ignored.
SlotIgnored == TRUE

\* semaphore.acquire() blocks until a permit is free.
SlotFree == permits > 0

\* semaphore.acquire(), create_erase_job, ERASE_JOBS[job["id"]] = job
Publish(r, j) ==
    /\ Running
    /\ req[r].at = "acquire"
    /\ SlotFree
    /\ j \in Unborn
    /\ permits' = permits - 1
    /\ dict' = [dict EXCEPT ![j] = Queued]
    /\ listed' = listed \cup {j}
    /\ target' = [target EXCEPT ![j] = Head(req[r].todo)]
    /\ pc' = [pc EXCEPT ![j] = "starting"]
    /\ req' = [req EXCEPT ![r].at = "published", ![r].job = {j},
                          ![r].todo = Tail(req[r].todo)]
    /\ UNCHANGED <<attached, lost, age, stale, admin, env, row, proc, sweep,
                   faults>>

\* persist_job(job) outside the lock: the values are read from the dictionary
\* before SQLite grants the write.
ReadJob(r, j) ==
    /\ Running
    /\ req[r].at = "published"
    /\ req[r].job = {j}
    /\ req' = [req EXCEPT ![r].at = "writing", ![r].image = dict[j]]
    /\ UNCHANGED <<memory, threads, admin, env, row, proc, sweep, faults>>

NextBay(r) ==
    IF req[r].todo = <<>>
    THEN Idle
    ELSE [Idle EXCEPT !.at = "acquire", !.todo = req[r].todo]

\* The row is written and the worker thread started; when persist_job raises
\* the permit is released and the request abandoned, the job staying listed.
WriteJob(r, j, ok) ==
    /\ Running
    /\ req[r].at = "writing"
    /\ req[r].job = {j}
    /\ Outcome(ok)
    /\ IF ok
       THEN /\ row' = [row EXCEPT ![j] = req[r].image]
            /\ Goto(j, "init")
            /\ req' = [req EXCEPT ![r] = NextBay(r)]
       ELSE /\ EndWorker(j)
            /\ req' = [req EXCEPT ![r] = Idle]
            /\ UNCHANGED row
    /\ UNCHANGED <<memory, admin, env, proc, sweep>>

NextStep(r) ==
    \E j \in Jobs :
        \/ Publish(r, j)
        \/ ReadJob(r, j)
        \/ \E ok \in BOOLEAN : WriteJob(r, j, ok)

StartErase ==
    \E r \in Requests :
        \/ \E b \in Batches : Accept(r, b)
        \/ NextStep(r)

(***************************************************************************)
(* The worker thread: run_erase_job and the phases it calls.               *)
(***************************************************************************)
At(j, loc) == Running /\ pc[j] = loc

WorkerUnchanged == UNCHANGED <<listed, target, admin, env, req, sweep>>

\* _init_job: the generation is captured afresh, so the job is not stale.
InitJob(j, ok) ==
    /\ At(j, "init")
    /\ Update(j, [dict[j] EXCEPT !.status = "running"], ok)
    /\ IF j \in listed /\ ok THEN Goto(j, "gate") ELSE EndWorker(j)
    /\ UNCHANGED <<attached, proc>>
    /\ WorkerUnchanged

\* _check_health_gate: the cached result is kept, the policy is read again.
CheckHealthGate(j, ok) ==
    /\ At(j, "gate")
    /\ \/ /\ ~target[j].overridden
          /\ ok
          /\ Goto(j, "capture")
          /\ UNCHANGED <<dict, row, faults>>
       \/ /\ target[j].overridden /\ ~strict
          /\ Update(j, dict[j], ok)
          /\ IF ok THEN Goto(j, "capture") ELSE EndWorker(j)
       \/ /\ target[j].overridden /\ strict
          /\ FinalizeFailed(j, ok)
    /\ UNCHANGED <<attached, proc>>
    /\ WorkerUnchanged

\* _capture_pre_wipe_state: persists only when the before-state was read.
CapturePreWipeState(j, ok) ==
    /\ At(j, "capture")
    /\ \/ /\ ok
          /\ Goto(j, "prepare")
          /\ UNCHANGED <<dict, row, faults>>
       \/ /\ Update(j, dict[j], ok)
          /\ IF ok THEN Goto(j, "prepare") ELSE EndWorker(j)
    /\ UNCHANGED <<attached, proc>>
    /\ WorkerUnchanged

\* _prepare_erase_command: password, command or log file may be refused.
PrepareEraseCommand(j, ok) ==
    /\ At(j, "prepare")
    /\ \/ /\ ok
          /\ Goto(j, "spawn")
          /\ UNCHANGED <<dict, row, faults>>
       \/ FinalizeFailed(j, ok)
    /\ UNCHANGED <<attached, proc>>
    /\ WorkerUnchanged

\* subprocess.Popen succeeds, or raises and the job is failed.
Spawn(j, ok) ==
    /\ At(j, "spawn")
    /\ \/ /\ ok
          /\ proc' = [proc EXCEPT ![j] = "alive"]
          /\ Goto(j, "register")
          /\ UNCHANGED <<dict, row, faults>>
       \/ /\ FinalizeFailed(j, ok)
          /\ UNCHANGED proc
    /\ UNCHANGED attached
    /\ WorkerUnchanged

\* job = ERASE_JOBS.get(job_id); if job: job["_process"] = process
Register(j) ==
    /\ At(j, "register")
    /\ attached' = [attached EXCEPT ![j] = j \in listed]
    /\ lost' = [lost EXCEPT ![j] = j \notin listed]
    /\ pc' = [pc EXCEPT ![j] = "monitor"]
    /\ UNCHANGED <<dict, age, stale, permits, row, proc, faults>>
    /\ WorkerUnchanged

\* One round of the monitoring loop refreshes the local variable job.
ReportProgress(j) ==
    /\ At(j, "monitor")
    /\ proc[j] = "alive"
    /\ j \notin listed /\ ~lost[j]
    /\ lost' = [lost EXCEPT ![j] = TRUE]
    /\ UNCHANGED <<dict, attached, pc, age, stale, permits, row, proc, faults>>
    /\ WorkerUnchanged


TimedOut(j) == age[j] = 2

\* Interrupted or overdue while the subprocess runs.  Both branches log
\* job['request'] first, which raises with job None; and terminate or kill
\* raises when the service's user may not signal the sudo child.  Either way
\* the thread ends there, leaving the subprocess and the job as they are.
\* Otherwise the signal is sent and the worker waits for the subprocess.
StopErase(j) ==
    /\ At(j, "monitor")
    /\ proc[j] = "alive"
    /\ j \in stale \/ TimedOut(j)
    /\ \/ EndWorker(j)
       \/ /\ ~lost[j]
          /\ Goto(j, IF j \in stale THEN "interrupt" ELSE "expire")
    /\ UNCHANGED <<dict, attached, row, proc, faults>>
    /\ WorkerUnchanged

\* The second kill-and-wait has no timeout: the worker goes on once the
\* signalled subprocess has ended, and not before.
Stopped(j, ok) ==
    /\ proc[j] = "exited"
    /\ \/ /\ At(j, "interrupt")
          /\ Interrupt(j, ok)
          /\ UNCHANGED attached
       \/ /\ At(j, "expire")
          /\ FinalizeFailed(j, ok)
          /\ attached' = [attached EXCEPT
                             ![j] = attached[j] /\ j \notin listed]
    /\ UNCHANGED proc
    /\ WorkerUnchanged

\* Mutant of HasExited: the result of poll() is misread.
Started(j) == proc[j] # "none"

\* process.poll() is not None
HasExited(j) == proc[j] = "exited"

\* The loop sees the exit; firmware methods are polled, others verified.
Reap(j) ==
    /\ At(j, "monitor")
    /\ HasExited(j)
    /\ attached' = [attached EXCEPT ![j] = attached[j] /\ j \notin listed]
    /\ Goto(j, IF target[j].firmware THEN "poll" ELSE "verify")
    /\ UNCHANGED <<dict, row, proc, faults>>
    /\ WorkerUnchanged

\* _poll_firmware_completion ends: interrupted; or timed out or out of
\* retries; or complete.  A round that finds it in progress changes nothing.
PollFirmware(j, ok) ==
    /\ At(j, "poll")
    /\ \/ /\ j \in stale
          /\ Interrupt(j, ok)
       \/ /\ j \notin stale
          /\ FinalizeFailed(j, ok)
       \/ /\ j \notin stale
          /\ ok
          /\ Goto(j, "verify")
          /\ UNCHANGED <<dict, row, faults>>
    /\ UNCHANGED <<attached, proc>>
    /\ WorkerUnchanged

\* _verify_sanitization: None when the job was removed, else a verdict.
VerifySanitization(j) ==
    /\ At(j, "verify")
    /\ IF j \in listed
       THEN \/ Goto(j, "certify")
            \/ Goto(j, "reject")
       ELSE EndWorker(j)
    /\ UNCHANGED <<dict, attached, row, proc, faults>>
    /\ WorkerUnchanged

\* _finalize_job: the certificate of either outcome may fail to be built.
FinalizeJob(j, ok) ==
    /\ \/ /\ At(j, "certify")
          /\ \E c \in {"pass", "none"} :
                Update(j, [status |-> "completed", cert |-> c,
                            cancelled |-> FALSE], ok)
       \/ /\ At(j, "reject")
          /\ \E c \in {"fail", "none"} :
                Update(j, [status |-> "failed", cert |-> c,
                            cancelled |-> FALSE], ok)
    /\ EndWorker(j)
    /\ UNCHANGED <<attached, proc>>
    /\ WorkerUnchanged

\* An exception no phase catches ends the thread where it stands.
WorkerRaises(j) ==
    /\ Running
    /\ pc[j] \in Working
    /\ faults < MaxFaults
    /\ faults' = faults + 1
    /\ EndWorker(j)
    /\ UNCHANGED <<dict, attached, row, proc>>
    /\ WorkerUnchanged

WorkerStep(j) ==
    \/ Register(j) \/ ReportProgress(j) \/ Reap(j) \/ VerifySanitization(j)
    \/ StopErase(j)
    \/ \E ok \in BOOLEAN :
        \/ InitJob(j, ok) \/ CheckHealthGate(j, ok)
        \/ CapturePreWipeState(j, ok) \/ PrepareEraseCommand(j, ok)
        \/ Spawn(j, ok) \/ Stopped(j, ok)
        \/ PollFirmware(j, ok) \/ FinalizeJob(j, ok)

(***************************************************************************)
(* The operating system and the clock.                                     *)
(***************************************************************************)
ProcessExits(j) ==
    /\ proc[j] = "alive"
    /\ Stop(j)
    /\ UNCHANGED <<memory, threads, admin, env, row, req, sweep, faults>>

\* Wall-clock time: the erase timeout passes, measured from started_at (which
\* the sweep reads while the job is running) and later from start_time (which
\* the worker reads while it monitors the subprocess).
Clock(j) ==
    /\ Running
    /\ \/ age[j] = 0 /\ j \in listed /\ dict[j].status = "running"
       \/ age[j] < 2 /\ pc[j] = "monitor" /\ proc[j] = "alive"
    /\ age' = [age EXCEPT ![j] = age[j] + 1]
    /\ UNCHANGED <<memory, pc, lost, stale, permits, admin, env, row, proc,
                   req, sweep, faults>>

(***************************************************************************)
(* cancel_erase_job: under the lock, then terminate outside it.  When      *)
(* persist_job raises, the dictionary says failed and nothing else is done.*)
(* A client knows the job from its publication on: /api/drives shows it.   *)
(***************************************************************************)
\* Mutant of Cancellable: a concluded job can be cancelled too.
CancellableAlways(j) == j \in listed

Cancellable(j) == j \in listed /\ dict[j].status \in Live

CancelJob(j, ok) ==
    /\ "cancel" \in Actors /\ server = "up"
    /\ Cancellable(j)
    /\ Update(j, [dict[j] EXCEPT !.status = "failed", !.cancelled = TRUE], ok)
    /\ IF ok
       THEN /\ listed' = listed \ {j}
            /\ toKill' = IF attached[j] THEN toKill \cup {j} ELSE toKill
       ELSE UNCHANGED <<listed, toKill>>
    /\ UNCHANGED <<target, attached, threads, kill, env, proc, req, sweep>>

\* terminate, or kill after ten seconds, and wait for the end.  An exception,
\* as when the signal is not permitted, is logged and the process runs on.
Terminate(j) ==
    \/ proc[j] = "alive" /\ Stop(j)
    \/ UNCHANGED proc

TerminateCancelled(j) ==
    /\ Running
    /\ j \in toKill
    /\ toKill' = toKill \ {j}
    /\ Terminate(j)
    /\ UNCHANGED <<memory, threads, kill, env, row, req, sweep, faults>>

(***************************************************************************)
(* kill_all_jobs: a snapshot under the lock, the hardware check and the    *)
(* termination of each job outside it, the verdicts under the lock again.  *)
(***************************************************************************)
KillSnapshot ==
    /\ "kill" \in Actors /\ server = "up"
    /\ kill.at = "idle"
    /\ \E j \in listed : dict[j].status \in Live
    /\ kill' = [NoKill EXCEPT !.at = "busy",
                   !.pending = {j \in listed : dict[j].status \in Live}]
    /\ UNCHANGED <<memory, threads, toKill, env, row, proc, req, sweep, faults>>

\* A firmware method may report active hardware, and the job is skipped.
KillCheck(j) ==
    /\ Running
    /\ j \in kill.pending
    /\ \/ /\ target[j].firmware
          /\ kill' = [kill EXCEPT !.pending = @ \ {j}]
          /\ UNCHANGED proc
       \/ /\ kill' = [kill EXCEPT !.pending = @ \ {j}, !.doomed = @ \cup {j}]
          /\ IF attached[j] THEN Terminate(j) ELSE UNCHANGED proc
    /\ UNCHANGED <<memory, threads, toKill, env, row, req, sweep, faults>>

\* Mutant of StillLive: jobs that concluded meanwhile are not skipped.
StillListed(js) == js \cap listed

\* Jobs that were removed or concluded meanwhile are skipped.
StillLive(js) == {j \in js \cap listed : dict[j].status \in Live}

KillApply ==
    /\ Running
    /\ kill.at = "busy"
    /\ kill.pending = {}
    /\ LET js == StillLive(kill.doomed)
       IN  /\ dict' = [j \in Jobs |-> IF j \in js THEN Failed(j) ELSE dict[j]]
           /\ row' = [j \in Jobs |-> IF j \in js THEN dict'[j] ELSE row[j]]
           /\ listed' = listed \ js
    /\ kill' = NoKill
    /\ UNCHANGED <<target, attached, threads, toKill, env, proc, req, sweep,
                   faults>>

\* persist_job raises for job j after the verdicts on done were applied.
KillApplyRaises(done, j) ==
    /\ Running
    /\ kill.at = "busy"
    /\ kill.pending = {}
    /\ faults < MaxFaults
    /\ done \subseteq StillLive(kill.doomed) \ {j}
    /\ j \in StillLive(kill.doomed)
    /\ dict' = [i \in Jobs |-> IF i \in done \cup {j} THEN Failed(i) ELSE dict[i]]
    /\ row' = [i \in Jobs |-> IF i \in done THEN dict'[i] ELSE row[i]]
    /\ listed' = listed \ done
    /\ faults' = faults + 1
    /\ kill' = NoKill
    /\ UNCHANGED <<target, attached, threads, toKill, env, proc, req, sweep>>

KillProceed ==
    \/ KillApply
    \/ \E j \in Jobs :
        \/ KillCheck(j)
        \/ \E done \in SUBSET Jobs : KillApplyRaises(done, j)

(***************************************************************************)
(* sweep_orphaned_jobs_background: rows of live jobs missing from          *)
(* ERASE_JOBS, then running jobs older than their timeout.                 *)
(***************************************************************************)
SweepUnchanged ==
    UNCHANGED <<target, attached, threads, admin, env, proc, req>>

\* Mutant of OpenRows: queued rows are overlooked.
RunningRows == {j \in Jobs : row[j].status = "running"}

OpenRows == {j \in Jobs : row[j].status \in Live}

SweepRows ==
    /\ "sweep" \in Actors /\ server = "up"
    /\ sweep.at = "idle"
    /\ sweep' = [NoSweep EXCEPT !.at = "rows",
                     !.todo = OpenRows]
    /\ UNCHANGED <<dict, listed, row, faults>>
    /\ SweepUnchanged

\* Mutant of Orphaned: every open row is taken for an orphan.
TakenForOrphan(j) == TRUE

Orphaned(j) == j \notin listed

SweepTest(j) ==
    /\ Running
    /\ sweep.at = "rows"
    /\ j \in sweep.todo
    /\ sweep' = IF Orphaned(j)
                THEN [at |-> "tested", todo |-> sweep.todo \ {j}, job |-> {j}]
                ELSE [sweep EXCEPT !.todo = @ \ {j}]
    /\ UNCHANGED <<dict, listed, row, faults>>
    /\ SweepUnchanged

SweepLoad(j) ==
    /\ Running
    /\ sweep.at = "tested"
    /\ sweep.job = {j}
    /\ sweep' = IF row[j].status \in Live
                THEN [sweep EXCEPT !.at = "loaded"]
                ELSE [sweep EXCEPT !.at = "rows", !.job = {}]
    /\ UNCHANGED <<dict, listed, row, faults>>
    /\ SweepUnchanged

RowFailed(j) == [row[j] EXCEPT !.status = "failed", !.cancelled = FALSE]

\* An exception ends the first check and the second one follows.
SweepWrite(j, ok) ==
    /\ Running
    /\ sweep.at = "loaded"
    /\ sweep.job = {j}
    /\ Outcome(ok)
    /\ row' = IF ok THEN [row EXCEPT ![j] = RowFailed(j)] ELSE row
    /\ sweep' = [sweep EXCEPT !.at = "rows", !.job = {},
                              !.todo = IF ok THEN @ ELSE {}]
    /\ UNCHANGED <<dict, listed>>
    /\ SweepUnchanged

Overdue(j) == j \in listed /\ dict[j].status = "running" /\ age[j] > 0

SweepCollect ==
    /\ Running
    /\ sweep.at = "rows"
    /\ sweep.todo = {}
    /\ sweep' = [NoSweep EXCEPT !.at = "stuck",
                                !.todo = {j \in Jobs : Overdue(j)}]
    /\ UNCHANGED <<dict, listed, row, faults>>
    /\ SweepUnchanged

\* The copy is persisted before the dictionary is changed and removed.
SweepReap(j, ok) ==
    /\ Running
    /\ sweep.at = "stuck"
    /\ j \in sweep.todo
    /\ IF Overdue(j)
       THEN /\ Outcome(ok)
            /\ IF ok
               THEN /\ dict' = [dict EXCEPT ![j] = Failed(j)]
                    /\ row' = [row EXCEPT ![j] = dict'[j]]
                    /\ listed' = listed \ {j}
               ELSE UNCHANGED <<dict, row, listed>>
       ELSE /\ ok
            /\ UNCHANGED <<dict, row, listed, faults>>
    /\ sweep' = [sweep EXCEPT !.todo = IF ok THEN @ \ {j} ELSE {}]
    /\ SweepUnchanged

SweepRest ==
    /\ Running
    /\ sweep.at = "stuck"
    /\ sweep.todo = {}
    /\ sweep' = NoSweep
    /\ UNCHANGED <<dict, listed, row, faults>>
    /\ SweepUnchanged

Sweep ==
    \/ SweepRows \/ SweepCollect \/ SweepRest
    \/ \E j \in Jobs :
        \/ SweepTest(j) \/ SweepLoad(j)
        \/ \E ok \in BOOLEAN : SweepWrite(j, ok) \/ SweepReap(j, ok)

(***************************************************************************)
(* Policy edits, signals, crashes and start-up.                            *)
(***************************************************************************)
SetPolicy ==
    /\ "policy" \in Actors /\ server = "up"
    /\ strict' = ~strict
    /\ UNCHANGED <<memory, threads, admin, server, crashes, row, proc, req,
                   sweep, faults>>

\* _centralized_signal_handler bumps the generation and calls sys.exit; the
\* threads run on until the interpreter is gone.
Signal ==
    /\ server = "up"
    /\ crashes < MaxCrashes
    /\ server' = "stopping"
    /\ stale' = {j \in Jobs : pc[j] \in Working}
    /\ UNCHANGED <<memory, pc, lost, age, permits, admin, strict, crashes, row,
                   proc, req, sweep, faults>>

\* The process is gone: memory and threads are lost, and systemd kills what
\* is left of the unit's control group.
Die ==
    /\ Running
    /\ crashes < MaxCrashes
    /\ crashes' = crashes + 1
    /\ server' = "down"
    /\ dict' = [j \in Jobs |-> Nothing]
    /\ listed' = {}
    /\ attached' = [j \in Jobs |-> FALSE]
    /\ pc' = [j \in Jobs |-> IF pc[j] = "unborn" THEN "unborn" ELSE "done"]
    /\ lost' = [j \in Jobs |-> FALSE]
    /\ age' = [j \in Jobs |-> 0]
    /\ stale' = {}
    /\ permits' = MaxWipes
    /\ proc' = [j \in Jobs |-> IF proc[j] = "alive" THEN "exited" ELSE proc[j]]
    /\ req' = [r \in Requests |-> Idle]
    /\ toKill' = {}
    /\ kill' = NoKill
    /\ sweep' = NoSweep
    /\ UNCHANGED <<target, row, strict, faults>>

Restart ==
    /\ server = "down"
    /\ server' = "recovering"
    /\ UNCHANGED <<memory, threads, admin, strict, crashes, row, proc, req,
                   sweep, faults>>

\* recover_orphaned_jobs_on_startup, one row at a time; an exception ends it.
Recover(j, ok) ==
    /\ server = "recovering"
    /\ row[j].status \in Live
    /\ Outcome(ok)
    /\ row' = IF ok THEN [row EXCEPT ![j] = RowFailed(j)] ELSE row
    /\ server' = IF ok THEN "recovering" ELSE "up"
    /\ UNCHANGED <<memory, threads, admin, strict, crashes, proc, req, sweep>>

RecoveryDone ==
    /\ server = "recovering"
    /\ \A j \in Jobs : row[j].status \notin Live
    /\ server' = "up"
    /\ UNCHANGED <<memory, threads, admin, strict, crashes, row, proc, req,
                   sweep, faults>>

Startup ==
    \/ Restart \/ RecoveryDone
    \/ \E j \in Jobs, ok \in BOOLEAN : Recover(j, ok)

Next ==
    \/ StartErase \/ KillSnapshot \/ KillProceed \/ Sweep
    \/ SetPolicy \/ Signal \/ Die \/ Startup
    \/ \E j \in Jobs :
        \/ WorkerStep(j) \/ WorkerRaises(j)
        \/ ProcessExits(j) \/ Clock(j)
        \/ TerminateCancelled(j)
        \/ \E ok \in BOOLEAN : CancelJob(j, ok)

Spec == Init /\ [][Next]_vars

(***************************************************************************)
(* Fairness.  A thread that can run does run; time passes; systemd         *)
(* restarts the service (Restart=on-failure) and the interpreter exits     *)
(* after sys.exit.  Nothing is assumed of the wipe subprocess, which may   *)
(* hang and, once signalled, may never end, nor of the operators and what  *)
(* they wait for, nor of the commands the worker runs without a timeout:   *)
(* hdparm, the status queries, the verification commands, and the wait     *)
(* after kill.                                                             *)
(***************************************************************************)
Untimed == {"prepare", "interrupt", "expire", "poll", "verify"}

WorkerRuns(j) == pc[j] \notin Untimed /\ WorkerStep(j)

Fairness ==
    /\ \A j \in Jobs : WF_vars(WorkerRuns(j)) /\ WF_vars(Clock(j))
    /\ \A r \in Requests : WF_vars(NextStep(r))
    /\ WF_vars(Sweep)
    /\ WF_vars(server = "stopping" /\ Die)
    /\ WF_vars(Startup)

FairSpec == Spec /\ Fairness

(***************************************************************************)
(* Safety.                                                                 *)
(***************************************************************************)

\* Every permit of the wipe semaphore is either free or held by exactly one
\* job: no path through start_erase, the worker or their exceptions leaks a
\* slot or releases one twice.
PermitsConserved ==
    permits + Cardinality({j \in Jobs : pc[j] \in Holding}) = MaxWipes

\* A job is recorded as completed only after its own wipe subprocess was
\* started and has ended: whatever cancels, kills, sweeps and restarts did
\* meanwhile, _finalize_job never certifies a wipe that is still running or
\* that never ran.
CompletedAfterErase ==
    \A j \in Jobs : row[j].status = "completed" => proc[j] = "exited"

\* The certificate stored with a job agrees with the status stored with it:
\* a pass certificate belongs to a completed job, a failure certificate to a
\* failed one, and jobs that are open or interrupted carry none.
CertificateAgrees ==
    \A j \in Jobs :
        /\ row[j].cert = "pass" => row[j].status = "completed"
        /\ row[j].cert = "fail" => row[j].status = "failed"

\* While a job is listed, its dictionary (what the API answers from) and its
\* row (what history and certificates answer from) say the same, from the
\* moment its worker thread exists.  Only runs without faults promise this.
RowMirrorsMemory ==
    \A j \in listed : pc[j] # "starting" => row[j] = dict[j]

\* A completed row is final: no late persist, sweep, kill, recovery or second
\* worker ever overwrites it.
CompletedKept ==
    [][\A j \in Jobs : row[j].status = "completed" => row'[j] = row[j]]_vars

\* Once a job has left ERASE_JOBS its row can only become failed or, through
\* the accepting request's late write, queued: a cancelled, killed or swept
\* job is never recorded as running, interrupted or completed.
WithdrawnRefused ==
    [][\A j \in Jobs :
         pc[j] # "unborn" /\ j \notin listed =>
            row'[j] = row[j] \/ row'[j].status \in {"queued", "failed"}]_vars

\* In memory a verdict is final: once a listed job's dictionary shows one, no
\* thread gives it another.  Only runs without faults promise this.
VerdictFinalInMemory ==
    [][\A j \in listed :
         dict[j].status \in Final => dict'[j] \in {dict[j], Nothing}]_vars

\* The table keeps the promise of JobLedger.
Ledger == INSTANCE JobLedger WITH
    ledger    <- [j \in Jobs |-> row[j].status],
    withdrawn <- {j \in Jobs : pc[j] # "unborn" /\ j \notin listed}

LedgerKept == Ledger!Spec

(***************************************************************************)
(* Liveness, without faults.                                               *)
(***************************************************************************)



=============================================================================
