-------------------------- MODULE EraseJobsProofs --------------------------
(***************************************************************************)
(* Proofs about EraseJobs, for every set of jobs, devices and requests,    *)
(* every batch, any number of slots, and any number of crashes and faults. *)
(***************************************************************************)
EXTENDS EraseJobs, FiniteSetTheorems, TLAPS

(***************************************************************************)
(* The parts of the inductive invariant.                                   *)
(***************************************************************************)

\* A request waiting for a slot has a bay left; one that persists a job has
\* published it, alone, and its worker is not started.
RequestInv ==
    /\ \A r \in Requests :
        /\ req[r].at = "acquire" => req[r].todo # <<>>
        /\ req[r].at \in {"idle", "acquire"} => req[r].job = {}
        /\ \A j \in req[r].job : pc[j] = "starting"
        /\ req[r].image.status \in {"absent", "queued", "failed"}
        /\ req[r].at = "writing" => req[r].image.status # "absent"
        /\ req[r].image.cert = "none"
    /\ \A q, r \in Requests : q # r => req[q].job \cap req[r].job = {}

\* Jobs that were never published have left no trace.
BirthInv ==
    \A j \in Jobs : pc[j] = "unborn" =>
        /\ j \notin listed
        /\ row[j] = Nothing
        /\ \A r \in Requests : j \notin req[r].job
        /\ j \notin sweep.todo \cup sweep.job

\* What a job's dictionary may say at each stage of its worker.
StageInv ==
    \A j \in Jobs :
        /\ pc[j] = "starting" => dict[j].status \in {"queued", "failed"}
        /\ dict[j].status = "completed" => pc[j] = "done"
        /\ dict[j].cert # "none" => pc[j] = "done"
        /\ pc[j] \in {"poll", "verify", "certify", "reject"} =>
              proc[j] = "exited"

\* The sweep writes only rows of jobs that have left memory.
SweepInv == sweep.job \cap listed = {}

\* A completed row: its worker and its subprocess have ended, memory agrees,
\* and the sweep has not it in hand, nor, once memory forgot it, on its list.
CompletedInv ==
    \A j \in Jobs : row[j].status = "completed" =>
        /\ pc[j] = "done"
        /\ proc[j] = "exited"
        /\ j \in listed => dict[j].status = "completed"
        /\ j \notin sweep.job
        /\ j \in sweep.todo => j \in listed

Agrees(rec) == /\ rec.cert = "pass" => rec.status = "completed"
               /\ rec.cert = "fail" => rec.status = "failed"

CertificateInv == \A j \in Jobs : Agrees(dict[j]) /\ Agrees(row[j])

IInv == /\ TypeOK
        /\ RequestInv /\ BirthInv /\ StageInv /\ SweepInv
        /\ CompletedInv /\ CertificateInv

(***************************************************************************)
(* Type correctness.  The operators that several actions share come first. *)
(***************************************************************************)

LEMMA UpdateTyped ==
    ASSUME MemoryOK, StoreOK, NEW j \in Jobs, NEW d \in JobRecord,
           NEW ok \in BOOLEAN, Update(j, d, ok)
    PROVE  dict' \in [Jobs -> JobRecord] /\ StoreOK'
<1>1. dict' \in [Jobs -> JobRecord]
  BY DEF Update, MemoryOK
<1>2. dict'[j] \in JobRecord
  BY <1>1
<1>3. faults' \in 0..MaxFaults
  BY ErasableAssumption DEF Update, Persist, Outcome, StoreOK
<1>4. row' \in [Jobs -> JobRecord]
  BY <1>2 DEF Update, Persist, StoreOK
<1> QED
  BY <1>1, <1>3, <1>4 DEF StoreOK

LEMMA FailedTyped ==
    ASSUME MemoryOK, NEW j \in Jobs
    PROVE  Failed(j) \in JobRecord
BY DEF MemoryOK, Failed, JobRecord, Final

LEMMA RowFailedTyped ==
    ASSUME StoreOK, NEW j \in Jobs
    PROVE  RowFailed(j) \in JobRecord
BY DEF StoreOK, RowFailed, JobRecord, Final

LEMMA ConstantsTyped ==
    Nothing \in JobRecord /\ Queued \in JobRecord /\ Idle \in RequestRecord
<1>1. Nothing \in JobRecord /\ Queued \in JobRecord
  BY DEF Nothing, Queued, JobRecord, Live
<1>2. <<>> \in Seq(Target)
  OBVIOUS
<1> QED
  BY <1>1 DEF Idle, RequestRecord

LEMMA EndWorkerTyped ==
    ASSUME ThreadsOK, NEW j \in Jobs, EndWorker(j)
    PROVE  ThreadsOK'
BY DEF ThreadsOK, EndWorker

LEMMA GotoTyped ==
    ASSUME ThreadsOK, NEW j \in Jobs, NEW at \in Working \cup {"init"}, Goto(j, at)
    PROVE  ThreadsOK'
BY DEF ThreadsOK, Goto, Holding

LEMMA FinalizeFailedTyped ==
    ASSUME MemoryOK, StoreOK, ThreadsOK, NEW j \in Jobs, NEW ok \in BOOLEAN,
           FinalizeFailed(j, ok)
    PROVE  dict' \in [Jobs -> JobRecord] /\ StoreOK' /\ ThreadsOK'
BY FailedTyped, UpdateTyped, EndWorkerTyped DEF FinalizeFailed

LEMMA InterruptTyped ==
    ASSUME MemoryOK, StoreOK, ThreadsOK, NEW j \in Jobs, NEW ok \in BOOLEAN,
           Interrupt(j, ok)
    PROVE  dict' \in [Jobs -> JobRecord] /\ StoreOK' /\ ThreadsOK'
<1>1. [dict[j] EXCEPT !.status = "interrupted", !.cancelled = FALSE]
         \in JobRecord
  BY DEF MemoryOK, JobRecord, Final
<1> QED
  BY <1>1, UpdateTyped, EndWorkerTyped DEF Interrupt

\* The parts of TypeOK that a worker's step cannot disturb.
LEMMA WorkerKeepsTypes ==
    ASSUME TypeOK, WorkerUnchanged
    PROVE  /\ listed' \subseteq Jobs /\ target' \in [Jobs -> Target]
           /\ RequestsOK' /\ AdminOK' /\ SweepOK'
           /\ strict' \in BOOLEAN /\ crashes' \in 0..MaxCrashes
           /\ server' \in {"up", "stopping", "down", "recovering"}
BY DEF TypeOK, MemoryOK, RequestsOK, AdminOK, SweepOK, WorldOK,
       WorkerUnchanged, admin, env

\* Each step of a worker keeps the types.
LEMMA WorkerStepTyped ==
    ASSUME TypeOK, NEW j \in Jobs, WorkerStep(j) \/ WorkerRaises(j)
    PROVE  TypeOK'
<1> USE DEF Working, Holding
<1>0. /\ MemoryOK /\ StoreOK /\ ThreadsOK /\ WorldOK
      /\ dict[j] \in JobRecord
  BY DEF TypeOK, MemoryOK
<1>1. ASSUME NEW ok \in BOOLEAN, InitJob(j, ok) PROVE TypeOK'
  <2>1. [dict[j] EXCEPT !.status = "running"] \in JobRecord
    BY <1>0 DEF JobRecord, Live
  <2>2. dict' \in [Jobs -> JobRecord] /\ StoreOK'
    BY <1>0, <1>1, UpdateTyped, <2>1 DEF InitJob
  <2>3. ThreadsOK'
    BY <1>0, <1>1, GotoTyped, EndWorkerTyped DEF InitJob
  <2>4. /\ attached' \in [Jobs -> BOOLEAN]
        /\ proc' \in [Jobs -> {"none", "alive", "exited"}]
    BY <1>0, <1>1 DEF InitJob, MemoryOK, WorldOK
  <2> QED
    BY <1>1, <2>2, <2>3, WorkerKeepsTypes
       DEF InitJob, TypeOK, MemoryOK, WorldOK
<1>2. ASSUME NEW ok \in BOOLEAN, CheckHealthGate(j, ok) PROVE TypeOK'
  <2>1. dict' \in [Jobs -> JobRecord] /\ StoreOK'
    BY <1>0, <1>2, UpdateTyped, FinalizeFailedTyped
       DEF CheckHealthGate, MemoryOK, StoreOK
  <2>2. ThreadsOK'
    BY <1>0, <1>2, GotoTyped, EndWorkerTyped, FinalizeFailedTyped
       DEF CheckHealthGate
  <2>3. /\ attached' \in [Jobs -> BOOLEAN]
        /\ proc' \in [Jobs -> {"none", "alive", "exited"}]
    BY <1>0, <1>2 DEF CheckHealthGate, MemoryOK, WorldOK
  <2> QED
    BY <1>2, <2>1, <2>2, WorkerKeepsTypes
       DEF CheckHealthGate, TypeOK, MemoryOK, WorldOK
<1>3. ASSUME NEW ok \in BOOLEAN, CapturePreWipeState(j, ok) PROVE TypeOK'
  <2>1. dict' \in [Jobs -> JobRecord] /\ StoreOK'
    BY <1>0, <1>3, UpdateTyped DEF CapturePreWipeState, MemoryOK, StoreOK
  <2>2. ThreadsOK'
    BY <1>0, <1>3, GotoTyped, EndWorkerTyped DEF CapturePreWipeState
  <2>3. /\ attached' \in [Jobs -> BOOLEAN]
        /\ proc' \in [Jobs -> {"none", "alive", "exited"}]
    BY <1>0, <1>3 DEF CapturePreWipeState, MemoryOK, WorldOK
  <2> QED
    BY <1>3, <2>1, <2>2, WorkerKeepsTypes
       DEF CapturePreWipeState, TypeOK, MemoryOK, WorldOK
<1>4. ASSUME NEW ok \in BOOLEAN, PrepareEraseCommand(j, ok) PROVE TypeOK'
  <2>1. dict' \in [Jobs -> JobRecord] /\ StoreOK'
    BY <1>0, <1>4, FinalizeFailedTyped
       DEF PrepareEraseCommand, MemoryOK, StoreOK
  <2>2. ThreadsOK'
    BY <1>0, <1>4, GotoTyped, FinalizeFailedTyped DEF PrepareEraseCommand
  <2>3. /\ attached' \in [Jobs -> BOOLEAN]
        /\ proc' \in [Jobs -> {"none", "alive", "exited"}]
    BY <1>0, <1>4 DEF PrepareEraseCommand, MemoryOK, WorldOK
  <2> QED
    BY <1>4, <2>1, <2>2, WorkerKeepsTypes
       DEF PrepareEraseCommand, TypeOK, MemoryOK, WorldOK
<1>5. ASSUME NEW ok \in BOOLEAN, Spawn(j, ok) PROVE TypeOK'
  <2>1. dict' \in [Jobs -> JobRecord] /\ StoreOK'
    BY <1>0, <1>5, FinalizeFailedTyped DEF Spawn, MemoryOK, StoreOK
  <2>2. ThreadsOK'
    BY <1>0, <1>5, GotoTyped, FinalizeFailedTyped DEF Spawn
  <2>3. /\ attached' \in [Jobs -> BOOLEAN]
        /\ proc' \in [Jobs -> {"none", "alive", "exited"}]
    BY <1>0, <1>5 DEF Spawn, MemoryOK, WorldOK
  <2> QED
    BY <1>5, <2>1, <2>2, WorkerKeepsTypes DEF Spawn, TypeOK, MemoryOK, WorldOK
<1>6. ASSUME Register(j) PROVE TypeOK'
  <2>1. dict' \in [Jobs -> JobRecord] /\ StoreOK'
    BY <1>0, <1>6 DEF Register, MemoryOK, StoreOK
  <2>2. ThreadsOK'
    BY <1>0, <1>6 DEF Register, ThreadsOK
  <2>3. /\ attached' \in [Jobs -> BOOLEAN]
        /\ proc' \in [Jobs -> {"none", "alive", "exited"}]
    BY <1>0, <1>6 DEF Register, MemoryOK, WorldOK
  <2> QED
    BY <1>6, <2>1, <2>2, WorkerKeepsTypes
       DEF Register, TypeOK, MemoryOK, WorldOK
<1>7. ASSUME ReportProgress(j) PROVE TypeOK'
  <2>1. dict' \in [Jobs -> JobRecord] /\ StoreOK'
    BY <1>0, <1>7 DEF ReportProgress, MemoryOK, StoreOK
  <2>2. ThreadsOK'
    BY <1>0, <1>7 DEF ReportProgress, ThreadsOK
  <2>3. /\ attached' \in [Jobs -> BOOLEAN]
        /\ proc' \in [Jobs -> {"none", "alive", "exited"}]
    BY <1>0, <1>7 DEF ReportProgress, MemoryOK, WorldOK
  <2> QED
    BY <1>7, <2>1, <2>2, WorkerKeepsTypes
       DEF ReportProgress, TypeOK, MemoryOK, WorldOK
<1>8. ASSUME StopErase(j) PROVE TypeOK'
  <2>1. dict' \in [Jobs -> JobRecord] /\ StoreOK'
    BY <1>0, <1>8 DEF StopErase, MemoryOK, StoreOK
  <2>2. ThreadsOK'
    BY <1>0, <1>8, GotoTyped, EndWorkerTyped DEF StopErase
  <2>3. /\ attached' \in [Jobs -> BOOLEAN]
        /\ proc' \in [Jobs -> {"none", "alive", "exited"}]
    BY <1>0, <1>8 DEF StopErase, MemoryOK, WorldOK
  <2> QED
    BY <1>8, <2>1, <2>2, <2>3, WorkerKeepsTypes
       DEF StopErase, TypeOK, MemoryOK, WorldOK
<1>14. ASSUME NEW ok \in BOOLEAN, Stopped(j, ok) PROVE TypeOK'
  <2>1. dict' \in [Jobs -> JobRecord] /\ StoreOK' /\ ThreadsOK'
    BY <1>0, <1>14, FinalizeFailedTyped, InterruptTyped DEF Stopped
  <2>2. /\ attached' \in [Jobs -> BOOLEAN]
        /\ proc' \in [Jobs -> {"none", "alive", "exited"}]
    BY <1>0, <1>14 DEF Stopped, MemoryOK, WorldOK
  <2> QED
    BY <1>14, <2>1, <2>2, WorkerKeepsTypes
       DEF Stopped, TypeOK, MemoryOK, WorldOK
<1>9. ASSUME Reap(j) PROVE TypeOK'
  <2>1. dict' \in [Jobs -> JobRecord] /\ StoreOK'
    BY <1>0, <1>9 DEF Reap, MemoryOK, StoreOK
  <2>2. ThreadsOK'
    BY <1>0, <1>9, GotoTyped DEF Reap
  <2>3. /\ attached' \in [Jobs -> BOOLEAN]
        /\ proc' \in [Jobs -> {"none", "alive", "exited"}]
    BY <1>0, <1>9 DEF Reap, MemoryOK, WorldOK
  <2> QED
    BY <1>9, <2>1, <2>2, WorkerKeepsTypes DEF Reap, TypeOK, MemoryOK, WorldOK
<1>10. ASSUME NEW ok \in BOOLEAN, PollFirmware(j, ok) PROVE TypeOK'
  <2>1. dict' \in [Jobs -> JobRecord] /\ StoreOK'
    BY <1>0, <1>10, FinalizeFailedTyped, InterruptTyped
       DEF PollFirmware, MemoryOK, StoreOK
  <2>2. ThreadsOK'
    BY <1>0, <1>10, GotoTyped, FinalizeFailedTyped, InterruptTyped
       DEF PollFirmware
  <2>3. /\ attached' \in [Jobs -> BOOLEAN]
        /\ proc' \in [Jobs -> {"none", "alive", "exited"}]
    BY <1>0, <1>10 DEF PollFirmware, MemoryOK, WorldOK
  <2> QED
    BY <1>10, <2>1, <2>2, WorkerKeepsTypes
       DEF PollFirmware, TypeOK, MemoryOK, WorldOK
<1>11. ASSUME VerifySanitization(j) PROVE TypeOK'
  <2>1. dict' \in [Jobs -> JobRecord] /\ StoreOK'
    BY <1>0, <1>11 DEF VerifySanitization, MemoryOK, StoreOK
  <2>2. ThreadsOK'
    BY <1>0, <1>11, GotoTyped, EndWorkerTyped DEF VerifySanitization
  <2>3. /\ attached' \in [Jobs -> BOOLEAN]
        /\ proc' \in [Jobs -> {"none", "alive", "exited"}]
    BY <1>0, <1>11 DEF VerifySanitization, MemoryOK, WorldOK
  <2> QED
    BY <1>11, <2>1, <2>2, WorkerKeepsTypes
       DEF VerifySanitization, TypeOK, MemoryOK, WorldOK
<1>12. ASSUME NEW ok \in BOOLEAN, FinalizeJob(j, ok) PROVE TypeOK'
  <2>1. \A s \in {"completed", "failed"}, c \in {"pass", "fail", "none"} :
          [status |-> s, cert |-> c, cancelled |-> FALSE] \in JobRecord
    BY DEF JobRecord, Final
  <2>2. dict' \in [Jobs -> JobRecord] /\ StoreOK'
    BY <1>0, <1>12, UpdateTyped, <2>1 DEF FinalizeJob
  <2>3. ThreadsOK'
    BY <1>0, <1>12, EndWorkerTyped DEF FinalizeJob
  <2>4. /\ attached' \in [Jobs -> BOOLEAN]
        /\ proc' \in [Jobs -> {"none", "alive", "exited"}]
    BY <1>0, <1>12 DEF FinalizeJob, MemoryOK, WorldOK
  <2> QED
    BY <1>12, <2>2, <2>3, WorkerKeepsTypes
       DEF FinalizeJob, TypeOK, MemoryOK, WorldOK
<1>13. ASSUME WorkerRaises(j) PROVE TypeOK'
  <2>1. dict' \in [Jobs -> JobRecord] /\ StoreOK'
    BY <1>0, <1>13, ErasableAssumption DEF WorkerRaises, MemoryOK, StoreOK
  <2>2. ThreadsOK'
    BY <1>0, <1>13, EndWorkerTyped DEF WorkerRaises
  <2>3. /\ attached' \in [Jobs -> BOOLEAN]
        /\ proc' \in [Jobs -> {"none", "alive", "exited"}]
    BY <1>0, <1>13 DEF WorkerRaises, MemoryOK, WorldOK
  <2> QED
    BY <1>13, <2>1, <2>2, WorkerKeepsTypes
       DEF WorkerRaises, TypeOK, MemoryOK, WorldOK
<1> QED
  BY <1>1, <1>2, <1>3, <1>4, <1>5, <1>6, <1>7, <1>8, <1>9, <1>10, <1>11,
     <1>12, <1>13, <1>14 DEF WorkerStep

LEMMA TypePreserved ==
    ASSUME TypeOK, RequestInv, [Next]_vars
    PROVE  TypeOK'
<1>0. /\ MemoryOK /\ StoreOK /\ ThreadsOK /\ RequestsOK /\ AdminOK
      /\ SweepOK /\ WorldOK
  BY DEF TypeOK
<1>1. ASSUME NEW r \in Requests, NEW b \in Batches,
             Accept(r, b)
      PROVE  TypeOK'
  <2>1. RequestsOK'
    <3>1. b \in Seq(Target)
      BY ErasableAssumption
    <3>2. [Idle EXCEPT !.at = "acquire", !.todo = b] \in RequestRecord
      BY <3>1, ConstantsTyped DEF RequestRecord
    <3> QED
      BY <1>0, <1>1, <3>2 DEF Accept, RequestsOK
  <2>2. MemoryOK' /\ StoreOK' /\ ThreadsOK' /\ AdminOK' /\ SweepOK' /\ WorldOK'
    BY <1>0, <1>1
       DEF Accept, MemoryOK, StoreOK, ThreadsOK, AdminOK, SweepOK, WorldOK,
           memory, threads, admin, env
  <2> QED
    BY <2>1, <2>2 DEF TypeOK
<1>2. ASSUME NEW r \in Requests, NEW j \in Jobs,
             Publish(r, j)
      PROVE  TypeOK'
  <2>1. MemoryOK'
    <3>1. req[r] \in RequestRecord /\ req[r].todo # <<>>
      BY <1>0, <1>2 DEF Publish, RequestsOK, RequestInv
    <3>2. Head(req[r].todo) \in Target
      BY <3>1 DEF RequestRecord
    <3> QED
      BY <1>0, <1>2, <3>2, ConstantsTyped DEF Publish, MemoryOK
  <2>2. ThreadsOK'
    BY <1>0, <1>2, ErasableAssumption
       DEF Publish, SlotFree, Unborn, ThreadsOK, memory, threads, Holding
  <2>3. RequestsOK'
    <3>1. req[r] \in RequestRecord /\ req[r].todo # <<>>
      BY <1>0, <1>2 DEF Publish, RequestsOK, RequestInv
    <3>2. Tail(req[r].todo) \in Seq(Target)
      BY <3>1 DEF RequestRecord
    <3>3. [req[r] EXCEPT !.at = "published", !.job = {j},
                         !.todo = Tail(req[r].todo)] \in RequestRecord
      BY <3>1, <3>2 DEF RequestRecord
    <3> QED
      BY <1>0, <1>2, <3>3 DEF Publish, RequestsOK
  <2>4. StoreOK' /\ AdminOK' /\ SweepOK' /\ WorldOK'
    BY <1>0, <1>2 DEF Publish, StoreOK, AdminOK, SweepOK, WorldOK, admin, env
  <2> QED
    BY <2>1, <2>2, <2>3, <2>4 DEF TypeOK
<1>3. ASSUME NEW r \in Requests, NEW j \in Jobs,
             ReadJob(r, j)
      PROVE  TypeOK'
  <2>1. RequestsOK'
    <3>1. [req[r] EXCEPT !.at = "writing", !.image = dict[j]] \in RequestRecord
      BY <1>0 DEF RequestsOK, MemoryOK, RequestRecord
    <3> QED
      BY <1>0, <1>3, <3>1 DEF ReadJob, RequestsOK
  <2>2. MemoryOK' /\ StoreOK' /\ ThreadsOK' /\ AdminOK' /\ SweepOK' /\ WorldOK'
    BY <1>0, <1>3
       DEF ReadJob, MemoryOK, StoreOK, ThreadsOK, AdminOK, SweepOK, WorldOK,
           memory, threads, admin, env
  <2> QED
    BY <2>1, <2>2 DEF TypeOK
<1>4. ASSUME NEW r \in Requests, NEW j \in Jobs, NEW ok \in BOOLEAN,
             WriteJob(r, j, ok)
      PROVE  TypeOK'
  <2>1. StoreOK'
    <3>1. req[r].image \in JobRecord
      BY <1>0 DEF RequestsOK, RequestRecord
    <3> QED
      BY <1>0, <1>4, <3>1, ErasableAssumption DEF WriteJob, Outcome, StoreOK
  <2>2. ThreadsOK'
    BY <1>0, <1>4, GotoTyped, EndWorkerTyped DEF WriteJob
  <2>3. RequestsOK'
    <3>1. req[r].todo \in Seq(Target)
      BY <1>0 DEF RequestsOK, RequestRecord
    <3>2. NextBay(r) \in RequestRecord
      BY <3>1, ConstantsTyped DEF NextBay, RequestRecord
    <3> QED
      BY <1>0, <1>4, <3>2, ConstantsTyped DEF WriteJob, RequestsOK
  <2>4. MemoryOK' /\ AdminOK' /\ SweepOK' /\ WorldOK'
    BY <1>0, <1>4
       DEF WriteJob, MemoryOK, AdminOK, SweepOK, WorldOK, memory, admin, env
  <2> QED
    BY <2>1, <2>2, <2>3, <2>4 DEF TypeOK
<1>5. ASSUME NEW j \in Jobs,
             ProcessExits(j)
      PROVE  TypeOK'
  <2>1. WorldOK'
    BY <1>0, <1>5 DEF ProcessExits, Stop, WorldOK, memory, threads, env
  <2>2. MemoryOK' /\ StoreOK' /\ ThreadsOK' /\ RequestsOK' /\ AdminOK' /\ SweepOK'
    BY <1>0, <1>5
       DEF ProcessExits, MemoryOK, StoreOK, ThreadsOK, RequestsOK, AdminOK,
           SweepOK, memory, threads, admin
  <2> QED
    BY <2>1, <2>2 DEF TypeOK
<1>6. ASSUME NEW j \in Jobs,
             Clock(j)
      PROVE  TypeOK'
  <2>1. ThreadsOK'
    BY <1>0, <1>6 DEF Clock, Running, ThreadsOK, memory, threads, admin
  <2>2. MemoryOK' /\ StoreOK' /\ RequestsOK' /\ AdminOK' /\ SweepOK' /\ WorldOK'
    BY <1>0, <1>6
       DEF Clock, MemoryOK, StoreOK, RequestsOK, AdminOK, SweepOK, WorldOK,
           memory, admin, env
  <2> QED
    BY <2>1, <2>2 DEF TypeOK
<1>7. ASSUME NEW j \in Jobs, NEW ok \in BOOLEAN,
             CancelJob(j, ok)
      PROVE  TypeOK'
  <2>0. [dict[j] EXCEPT !.status = "failed", !.cancelled = TRUE] \in JobRecord
    BY <1>0 DEF MemoryOK, JobRecord, Final
  <2>1. MemoryOK'
    BY <1>0, <1>7, <2>0, UpdateTyped
       DEF CancelJob, Outcome, MemoryOK, memory, threads
  <2>2. StoreOK'
    BY <1>0, <1>7, <2>0, UpdateTyped
       DEF CancelJob, Outcome, StoreOK, memory, threads, admin
  <2>3. AdminOK'
    BY <1>0, <1>7 DEF CancelJob, AdminOK, memory
  <2>4. ThreadsOK' /\ RequestsOK' /\ SweepOK' /\ WorldOK'
    BY <1>0, <1>7
       DEF CancelJob, ThreadsOK, RequestsOK, SweepOK, WorldOK, threads, env
  <2> QED
    BY <2>1, <2>2, <2>3, <2>4 DEF TypeOK
<1>8. ASSUME NEW j \in Jobs,
             TerminateCancelled(j)
      PROVE  TypeOK'
  <2>1. AdminOK'
    BY <1>0, <1>8 DEF TerminateCancelled, Running, AdminOK, memory
  <2>2. WorldOK'
    BY <1>0, <1>8 DEF TerminateCancelled, Terminate, Stop, Running, WorldOK, memory, env
  <2>3. MemoryOK' /\ StoreOK' /\ ThreadsOK' /\ RequestsOK' /\ SweepOK'
    BY <1>0, <1>8
       DEF TerminateCancelled, MemoryOK, StoreOK, ThreadsOK, RequestsOK,
           SweepOK, memory, threads
  <2> QED
    BY <2>1, <2>2, <2>3 DEF TypeOK
<1>9. CASE KillSnapshot
  <2>1. AdminOK'
    BY <1>0, <1>9 DEF KillSnapshot, NoKill, AdminOK, MemoryOK
  <2>2. MemoryOK' /\ StoreOK' /\ ThreadsOK' /\ RequestsOK' /\ SweepOK' /\ WorldOK'
    BY <1>0, <1>9
       DEF KillSnapshot, MemoryOK, StoreOK, ThreadsOK, RequestsOK, SweepOK,
           WorldOK, memory, threads, env
  <2> QED
    BY <2>1, <2>2 DEF TypeOK
<1>10. ASSUME NEW j \in Jobs,
             KillCheck(j)
      PROVE  TypeOK'
  <2>1. AdminOK'
    <3>1. /\ toKill' = toKill
          /\ \/ kill' = [kill EXCEPT !.pending = @ \ {j}]
             \/ kill' = [kill EXCEPT !.pending = @ \ {j}, !.doomed = @ \cup {j}]
      BY <1>10 DEF KillCheck
    <3> QED
      BY <1>0, <3>1 DEF AdminOK
  <2>2. WorldOK'
    BY <1>0, <1>10 DEF KillCheck, Terminate, Stop, Running, WorldOK, memory, env
  <2>3. MemoryOK' /\ StoreOK' /\ ThreadsOK' /\ RequestsOK' /\ SweepOK'
    BY <1>0, <1>10
       DEF KillCheck, MemoryOK, StoreOK, ThreadsOK, RequestsOK, SweepOK,
           memory, threads
  <2> QED
    BY <2>1, <2>2, <2>3 DEF TypeOK
<1>11. CASE KillApply
  <2>1. MemoryOK'
    BY <1>0, <1>11, FailedTyped DEF KillApply, Running, MemoryOK, memory
  <2>2. StoreOK'
    BY <1>0, <1>11, FailedTyped
       DEF KillApply, StillLive, NoKill, Running, StoreOK, memory, threads
  <2>3. AdminOK'
    BY <1>0, <1>11 DEF KillApply, StillLive, NoKill, Running, AdminOK, memory
  <2>4. ThreadsOK' /\ RequestsOK' /\ SweepOK' /\ WorldOK'
    BY <1>0, <1>11
       DEF KillApply, ThreadsOK, RequestsOK, SweepOK, WorldOK, threads, env
  <2> QED
    BY <2>1, <2>2, <2>3, <2>4 DEF TypeOK
<1>12. ASSUME NEW j \in Jobs, NEW done \in SUBSET Jobs,
             KillApplyRaises(done, j)
      PROVE  TypeOK'
  <2>1. MemoryOK'
    BY <1>0, <1>12, FailedTyped DEF KillApplyRaises, Running, MemoryOK, memory
  <2>2. StoreOK'
    BY <1>0, <1>12, ErasableAssumption, FailedTyped
       DEF KillApplyRaises, StillLive, NoKill, Running, StoreOK, memory,
           threads
  <2>3. AdminOK'
    BY <1>0, <1>12
       DEF KillApplyRaises, StillLive, NoKill, Running, AdminOK, memory
  <2>4. ThreadsOK' /\ RequestsOK' /\ SweepOK' /\ WorldOK'
    BY <1>0, <1>12
       DEF KillApplyRaises, ThreadsOK, RequestsOK, SweepOK, WorldOK, threads,
           env
  <2> QED
    BY <2>1, <2>2, <2>3, <2>4 DEF TypeOK
<1>13. CASE SweepRows
  <2>1. SweepOK'
    BY <1>13
       DEF SweepRows, OpenRows, Running, SweepUnchanged, NoSweep, Outcome,
           Overdue, SweepOK
  <2>2. MemoryOK' /\ StoreOK' /\ ThreadsOK' /\ RequestsOK' /\ AdminOK' /\ WorldOK'
    BY <1>0, <1>13
       DEF SweepRows, SweepUnchanged, MemoryOK, StoreOK, ThreadsOK,
           RequestsOK, AdminOK, WorldOK, threads, admin, env
  <2> QED
    BY <2>1, <2>2 DEF TypeOK
<1>14. ASSUME NEW j \in Jobs,
             SweepTest(j)
      PROVE  TypeOK'
  <2>1. SweepOK'
    BY <1>0, <1>14
       DEF SweepTest, Orphaned, Running, SweepUnchanged, NoSweep, Outcome,
           Overdue, SweepOK
  <2>2. MemoryOK' /\ StoreOK' /\ ThreadsOK' /\ RequestsOK' /\ AdminOK' /\ WorldOK'
    BY <1>0, <1>14
       DEF SweepTest, SweepUnchanged, MemoryOK, StoreOK, ThreadsOK,
           RequestsOK, AdminOK, WorldOK, threads, admin, env
  <2> QED
    BY <2>1, <2>2 DEF TypeOK
<1>15. ASSUME NEW j \in Jobs,
             SweepLoad(j)
      PROVE  TypeOK'
  <2>1. SweepOK'
    BY <1>0, <1>15
       DEF SweepLoad, Running, SweepUnchanged, NoSweep, Outcome, Overdue,
           SweepOK
  <2>2. MemoryOK' /\ StoreOK' /\ ThreadsOK' /\ RequestsOK' /\ AdminOK' /\ WorldOK'
    BY <1>0, <1>15
       DEF SweepLoad, SweepUnchanged, MemoryOK, StoreOK, ThreadsOK,
           RequestsOK, AdminOK, WorldOK, threads, admin, env
  <2> QED
    BY <2>1, <2>2 DEF TypeOK
<1>16. ASSUME NEW j \in Jobs, NEW ok \in BOOLEAN,
             SweepWrite(j, ok)
      PROVE  TypeOK'
  <2>1. StoreOK'
    BY <1>0, <1>16, ErasableAssumption, RowFailedTyped
       DEF SweepWrite, Running, SweepUnchanged, NoSweep, Outcome, Overdue,
           StoreOK, memory
  <2>2. SweepOK'
    BY <1>0, <1>16
       DEF SweepWrite, Running, SweepUnchanged, NoSweep, Outcome, Overdue,
           SweepOK
  <2>3. MemoryOK' /\ ThreadsOK' /\ RequestsOK' /\ AdminOK' /\ WorldOK'
    BY <1>0, <1>16
       DEF SweepWrite, SweepUnchanged, MemoryOK, ThreadsOK, RequestsOK,
           AdminOK, WorldOK, threads, admin, env
  <2> QED
    BY <2>1, <2>2, <2>3 DEF TypeOK
<1>17. CASE SweepCollect
  <2>1. SweepOK'
    BY <1>17
       DEF SweepCollect, Running, SweepUnchanged, NoSweep, Outcome, Overdue,
           SweepOK
  <2>2. MemoryOK' /\ StoreOK' /\ ThreadsOK' /\ RequestsOK' /\ AdminOK' /\ WorldOK'
    BY <1>0, <1>17
       DEF SweepCollect, SweepUnchanged, MemoryOK, StoreOK, ThreadsOK,
           RequestsOK, AdminOK, WorldOK, threads, admin, env
  <2> QED
    BY <2>1, <2>2 DEF TypeOK
<1>18. ASSUME NEW j \in Jobs, NEW ok \in BOOLEAN,
             SweepReap(j, ok)
      PROVE  TypeOK'
  <2>1. MemoryOK'
    BY <1>0, <1>18, FailedTyped
       DEF SweepReap, Running, SweepUnchanged, NoSweep, Outcome, Overdue,
           MemoryOK
  <2>2. StoreOK'
    BY <1>0, <1>18, ErasableAssumption, FailedTyped
       DEF SweepReap, Running, SweepUnchanged, NoSweep, Outcome, Overdue,
           StoreOK, memory, MemoryOK
  <2>3. SweepOK'
    BY <1>0, <1>18
       DEF SweepReap, Running, SweepUnchanged, NoSweep, Outcome, Overdue,
           SweepOK
  <2>4. ThreadsOK' /\ RequestsOK' /\ AdminOK' /\ WorldOK'
    BY <1>0, <1>18
       DEF SweepReap, SweepUnchanged, ThreadsOK, RequestsOK, AdminOK, WorldOK,
           threads, admin, env
  <2> QED
    BY <2>1, <2>2, <2>3, <2>4 DEF TypeOK
<1>19. CASE SweepRest
  <2>1. SweepOK'
    BY <1>19
       DEF SweepRest, Running, SweepUnchanged, NoSweep, Outcome, Overdue,
           SweepOK
  <2>2. MemoryOK' /\ StoreOK' /\ ThreadsOK' /\ RequestsOK' /\ AdminOK' /\ WorldOK'
    BY <1>0, <1>19
       DEF SweepRest, SweepUnchanged, MemoryOK, StoreOK, ThreadsOK,
           RequestsOK, AdminOK, WorldOK, threads, admin, env
  <2> QED
    BY <2>1, <2>2 DEF TypeOK
<1>20. CASE SetPolicy
  <2>1. WorldOK'
    BY <1>0, <1>20 DEF SetPolicy, WorldOK, memory, threads
  <2>2. MemoryOK' /\ StoreOK' /\ ThreadsOK' /\ RequestsOK' /\ AdminOK' /\ SweepOK'
    BY <1>0, <1>20
       DEF SetPolicy, MemoryOK, StoreOK, ThreadsOK, RequestsOK, AdminOK,
           SweepOK, memory, threads, admin
  <2> QED
    BY <2>1, <2>2 DEF TypeOK
<1>21. CASE Signal
  <2>1. ThreadsOK'
    BY <1>0, <1>21 DEF Signal, Running, ThreadsOK, memory, threads, admin
  <2>2. WorldOK'
    BY <1>0, <1>21 DEF Signal, WorldOK, memory, threads
  <2>3. MemoryOK' /\ StoreOK' /\ RequestsOK' /\ AdminOK' /\ SweepOK'
    BY <1>0, <1>21
       DEF Signal, MemoryOK, StoreOK, RequestsOK, AdminOK, SweepOK, memory,
           admin
  <2> QED
    BY <2>1, <2>2, <2>3 DEF TypeOK
<1>22. CASE Die
  <2>1. MemoryOK'
    BY <1>0, <1>22
       DEF Die, Nothing, Idle, NoKill, NoSweep, Running, Target, MemoryOK,
           JobRecord
  <2>2. ThreadsOK'
    BY <1>22, ErasableAssumption
       DEF Die, Nothing, Idle, NoKill, NoSweep, Running, Target, ThreadsOK
  <2>3. RequestsOK'
    BY <1>22, ConstantsTyped DEF Die, RequestsOK
  <2>4. AdminOK'
    BY <1>22 DEF Die, Nothing, Idle, NoKill, NoSweep, Running, Target, AdminOK
  <2>5. SweepOK'
    BY <1>22 DEF Die, Nothing, Idle, NoKill, NoSweep, Running, Target, SweepOK
  <2>6. WorldOK'
    BY <1>0, <1>22, ErasableAssumption
       DEF Die, Nothing, Idle, NoKill, NoSweep, Running, Target, WorldOK
  <2>7. StoreOK'
    BY <1>0, <1>22 DEF Die, StoreOK
  <2> QED
    BY <2>1, <2>2, <2>3, <2>4, <2>5, <2>6, <2>7 DEF TypeOK
<1>23. CASE Restart
  <2>1. WorldOK'
    BY <1>0, <1>23 DEF Restart, WorldOK, memory, threads
  <2>2. MemoryOK' /\ StoreOK' /\ ThreadsOK' /\ RequestsOK' /\ AdminOK' /\ SweepOK'
    BY <1>0, <1>23
       DEF Restart, MemoryOK, StoreOK, ThreadsOK, RequestsOK, AdminOK,
           SweepOK, memory, threads, admin
  <2> QED
    BY <2>1, <2>2 DEF TypeOK
<1>24. ASSUME NEW j \in Jobs, NEW ok \in BOOLEAN,
             Recover(j, ok)
      PROVE  TypeOK'
  <2>1. StoreOK'
    BY <1>0, <1>24, ErasableAssumption, RowFailedTyped
       DEF Recover, Outcome, StoreOK, memory, threads, admin
  <2>2. WorldOK'
    BY <1>0, <1>24 DEF Recover, Outcome, WorldOK, memory, threads
  <2>3. MemoryOK' /\ ThreadsOK' /\ RequestsOK' /\ AdminOK' /\ SweepOK'
    BY <1>0, <1>24
       DEF Recover, MemoryOK, ThreadsOK, RequestsOK, AdminOK, SweepOK, memory,
           threads, admin
  <2> QED
    BY <2>1, <2>2, <2>3 DEF TypeOK
<1>25. CASE RecoveryDone
  <2>1. WorldOK'
    BY <1>0, <1>25 DEF RecoveryDone, WorldOK, memory, threads
  <2>2. MemoryOK' /\ StoreOK' /\ ThreadsOK' /\ RequestsOK' /\ AdminOK' /\ SweepOK'
    BY <1>0, <1>25
       DEF RecoveryDone, MemoryOK, StoreOK, ThreadsOK, RequestsOK, AdminOK,
           SweepOK, memory, threads, admin
  <2> QED
    BY <2>1, <2>2 DEF TypeOK
<1>26. CASE UNCHANGED vars
  BY <1>0, <1>26
     DEF TypeOK, MemoryOK, StoreOK, ThreadsOK, RequestsOK, AdminOK, SweepOK,
         WorldOK, vars, memory, threads, admin, env
<1> QED
  BY WorkerStepTyped, <1>1, <1>2, <1>3, <1>4, <1>5, <1>6, <1>7, <1>8, <1>9,
     <1>10, <1>11, <1>12, <1>13, <1>14, <1>15, <1>16, <1>17, <1>18, <1>19,
     <1>20, <1>21, <1>22, <1>23, <1>24, <1>25, <1>26
     DEF Next, StartErase, NextStep, KillProceed, Sweep, Startup

(***************************************************************************)
(* What one step of the worker of job j can do, whatever phase it is in:   *)
(* where it takes the worker, and what it leaves in dictionary and row.    *)
(***************************************************************************)
WorkerMoves(j) ==
    /\ pc[j] \in Working \cup {"init"}
    /\ pc'[j] \in Working \cup {"done"}
    /\ UNCHANGED <<listed, req, sweep>>
    /\ \A i \in Jobs \ {j} : pc'[i] = pc[i] /\ proc'[i] = proc[i]
    /\ pc'[j] \in {"poll", "verify", "certify", "reject"} => proc'[j] = "exited"

WorkerWrites(j) ==
    /\ \A i \in Jobs \ {j} : dict'[i] = dict[i] /\ row'[i] = row[i]
    /\ j \notin listed => dict'[j] = dict[j] /\ row'[j] = row[j]
    /\ row'[j] \in {row[j], dict'[j]}

WorkerVerdict(j) ==
    /\ dict'[j].status = "completed" => pc'[j] = "done" /\ proc'[j] = "exited"
    /\ dict'[j].cert # "none" => pc'[j] = "done"
    /\ Agrees(dict'[j])

WorkerEffect(j) == WorkerMoves(j) /\ WorkerWrites(j) /\ WorkerVerdict(j)

\* The contents a phase other than _finalize_job may leave.
Uncertified(j) ==
    {dict[j], Failed(j),
     [dict[j] EXCEPT !.status = "interrupted", !.cancelled = FALSE],
     [dict[j] EXCEPT !.status = "running"]}

\* A job whose worker is still at work has no verdict that certifies it.
LEMMA WorkingUncertified ==
    ASSUME TypeOK, StageInv, NEW j \in Jobs,
           pc[j] \in Working \cup {"init"}
    PROVE  /\ dict[j].cert = "none" /\ dict[j].status # "completed"
           /\ Agrees(dict[j])
BY DEF StageInv, Working, Agrees

LEMMA UpdateEffect ==
    ASSUME MemoryOK, StoreOK, NEW j \in Jobs, NEW d, NEW ok \in BOOLEAN,
           Update(j, d, ok)
    PROVE  (dict'[j] = d \/ dict'[j] = dict[j]) /\ WorkerWrites(j)
BY DEF Update, Persist, MemoryOK, StoreOK, WorkerWrites

LEMMA EndWorkerEffect ==
    ASSUME ThreadsOK, NEW j \in Jobs, EndWorker(j)
    PROVE  pc'[j] = "done" /\ \A i \in Jobs \ {j} : pc'[i] = pc[i]
BY DEF EndWorker, ThreadsOK

LEMMA GotoEffect ==
    ASSUME ThreadsOK, NEW j \in Jobs, NEW at, Goto(j, at)
    PROVE  pc'[j] = at /\ \A i \in Jobs \ {j} : pc'[i] = pc[i]
BY DEF Goto, ThreadsOK

LEMMA FinalizeFailedEffect ==
    ASSUME MemoryOK, StoreOK, ThreadsOK, NEW j \in Jobs, NEW ok \in BOOLEAN,
           FinalizeFailed(j, ok)
    PROVE  /\ dict'[j] \in Uncertified(j) /\ WorkerWrites(j)
           /\ pc'[j] = "done" /\ \A i \in Jobs \ {j} : pc'[i] = pc[i]
BY UpdateEffect, EndWorkerEffect DEF FinalizeFailed, Uncertified

LEMMA InterruptEffect ==
    ASSUME MemoryOK, StoreOK, ThreadsOK, NEW j \in Jobs, NEW ok \in BOOLEAN,
           Interrupt(j, ok)
    PROVE  /\ dict'[j] \in Uncertified(j) /\ WorkerWrites(j)
           /\ pc'[j] = "done" /\ \A i \in Jobs \ {j} : pc'[i] = pc[i]
BY UpdateEffect, EndWorkerEffect DEF Interrupt, Uncertified

LEMMA NoWriteEffect ==
    ASSUME NEW j \in Jobs, UNCHANGED <<dict, row>>
    PROVE  dict'[j] \in Uncertified(j) /\ WorkerWrites(j)
BY DEF Uncertified, WorkerWrites

\* Without _finalize_job, a step cannot certify.
LEMMA UncertifiedVerdict ==
    ASSUME TypeOK, StageInv, NEW j \in Jobs, WorkerMoves(j),
           dict'[j] \in Uncertified(j)
    PROVE  WorkerVerdict(j)
<1>1. dict[j] \in JobRecord
  BY DEF TypeOK, MemoryOK
<1>2. dict'[j].cert = "none" /\ dict'[j].status # "completed"
  BY <1>1, WorkingUncertified DEF WorkerMoves, Uncertified, Failed, JobRecord
<1> QED
  BY <1>2 DEF WorkerVerdict, Agrees

LEMMA WorkerEffects ==
    ASSUME TypeOK, StageInv, NEW j \in Jobs,
           WorkerStep(j) \/ WorkerRaises(j)
    PROVE  WorkerEffect(j)
<1>0. /\ MemoryOK /\ StoreOK /\ ThreadsOK
      /\ proc \in [Jobs -> {"none", "alive", "exited"}]
  BY DEF TypeOK, WorldOK
<1>1. ASSUME NEW ok \in BOOLEAN, InitJob(j, ok)
      PROVE  WorkerEffect(j)
  <2>1. pc[j] \in Working \cup {"init"} /\ UNCHANGED <<listed, req, sweep>>
    BY <1>1 DEF InitJob, At, WorkerUnchanged
  <2>2. dict'[j] \in Uncertified(j) /\ WorkerWrites(j)
    BY <1>0, <1>1, UpdateEffect DEF InitJob, Uncertified
  <2>3. WorkerMoves(j)
    BY <1>0, <1>1, <2>1, GotoEffect, EndWorkerEffect
       DEF WorkerMoves, InitJob, Working, At
  <2> QED
    BY <2>2, <2>3, UncertifiedVerdict DEF WorkerEffect
<1>2. ASSUME NEW ok \in BOOLEAN, CheckHealthGate(j, ok)
      PROVE  WorkerEffect(j)
  <2>1. pc[j] \in Working \cup {"init"} /\ UNCHANGED <<listed, req, sweep>>
    BY <1>2 DEF CheckHealthGate, At, Working, WorkerUnchanged
  <2>2. dict'[j] \in Uncertified(j) /\ WorkerWrites(j)
    <3>1. \/ UNCHANGED <<dict, row>>
          \/ Update(j, dict[j], ok)
          \/ FinalizeFailed(j, ok)
      BY <1>2 DEF CheckHealthGate
    <3>2. dict[j] \in Uncertified(j)
      BY DEF Uncertified
    <3> QED
      BY <1>0, <3>1, <3>2, UpdateEffect, FinalizeFailedEffect, NoWriteEffect
  <2>3. WorkerMoves(j)
    BY <1>0, <1>2, <2>1, GotoEffect, EndWorkerEffect, FinalizeFailedEffect
       DEF WorkerMoves, CheckHealthGate, Working, At
  <2> QED
    BY <2>2, <2>3, UncertifiedVerdict DEF WorkerEffect
<1>3. ASSUME NEW ok \in BOOLEAN, CapturePreWipeState(j, ok)
      PROVE  WorkerEffect(j)
  <2>1. pc[j] \in Working \cup {"init"} /\ UNCHANGED <<listed, req, sweep>>
    BY <1>3 DEF CapturePreWipeState, At, Working, WorkerUnchanged
  <2>2. dict'[j] \in Uncertified(j) /\ WorkerWrites(j)
    BY <1>0, <1>3, UpdateEffect, NoWriteEffect
       DEF CapturePreWipeState, Uncertified
  <2>3. WorkerMoves(j)
    BY <1>0, <1>3, <2>1, GotoEffect, EndWorkerEffect
       DEF WorkerMoves, CapturePreWipeState, Working, At
  <2> QED
    BY <2>2, <2>3, UncertifiedVerdict DEF WorkerEffect
<1>4. ASSUME NEW ok \in BOOLEAN, PrepareEraseCommand(j, ok)
      PROVE  WorkerEffect(j)
  <2>1. pc[j] \in Working \cup {"init"} /\ UNCHANGED <<listed, req, sweep>>
    BY <1>4 DEF PrepareEraseCommand, At, Working, WorkerUnchanged
  <2>2. dict'[j] \in Uncertified(j) /\ WorkerWrites(j)
    BY <1>0, <1>4, FinalizeFailedEffect, NoWriteEffect DEF PrepareEraseCommand
  <2>3. WorkerMoves(j)
    BY <1>0, <1>4, <2>1, GotoEffect, FinalizeFailedEffect
       DEF WorkerMoves, PrepareEraseCommand, Working, At
  <2> QED
    BY <2>2, <2>3, UncertifiedVerdict DEF WorkerEffect
<1>5. ASSUME NEW ok \in BOOLEAN, Spawn(j, ok)
      PROVE  WorkerEffect(j)
  <2>1. pc[j] \in Working \cup {"init"} /\ UNCHANGED <<listed, req, sweep>>
    BY <1>5 DEF Spawn, At, Working, WorkerUnchanged
  <2>2. dict'[j] \in Uncertified(j) /\ WorkerWrites(j)
    BY <1>0, <1>5, FinalizeFailedEffect, NoWriteEffect DEF Spawn
  <2>3. WorkerMoves(j)
    BY <1>0, <1>5, <2>1, GotoEffect, FinalizeFailedEffect
       DEF WorkerMoves, Spawn, Working, At
  <2> QED
    BY <2>2, <2>3, UncertifiedVerdict DEF WorkerEffect
<1>6. ASSUME Register(j)
      PROVE  WorkerEffect(j)
  <2>1. pc[j] \in Working \cup {"init"} /\ UNCHANGED <<listed, req, sweep>>
    BY <1>6 DEF Register, At, Working, WorkerUnchanged
  <2>2. dict'[j] \in Uncertified(j) /\ WorkerWrites(j)
    BY <1>6, NoWriteEffect DEF Register
  <2>3. WorkerMoves(j)
    BY <1>0, <1>6, <2>1 DEF WorkerMoves, Register, ThreadsOK, Working
  <2> QED
    BY <2>2, <2>3, UncertifiedVerdict DEF WorkerEffect
<1>7. ASSUME ReportProgress(j)
      PROVE  WorkerEffect(j)
  <2>1. pc[j] \in Working \cup {"init"} /\ UNCHANGED <<listed, req, sweep>>
    BY <1>7 DEF ReportProgress, At, Working, WorkerUnchanged
  <2>2. dict'[j] \in Uncertified(j) /\ WorkerWrites(j)
    BY <1>7, NoWriteEffect DEF ReportProgress
  <2>3. WorkerMoves(j)
    BY <1>7, <2>1 DEF WorkerMoves, ReportProgress, At
  <2> QED
    BY <2>2, <2>3, UncertifiedVerdict DEF WorkerEffect
<1>8. ASSUME StopErase(j)
      PROVE  WorkerEffect(j)
  <2>1. pc[j] \in Working \cup {"init"} /\ UNCHANGED <<listed, req, sweep>>
    BY <1>8 DEF StopErase, At, Working, WorkerUnchanged
  <2>2. dict'[j] \in Uncertified(j) /\ WorkerWrites(j)
    BY <1>8, NoWriteEffect DEF StopErase
  <2>3. WorkerMoves(j)
    BY <1>0, <1>8, <2>1, EndWorkerEffect, GotoEffect
       DEF WorkerMoves, StopErase, Working, At
  <2> QED
    BY <2>2, <2>3, UncertifiedVerdict DEF WorkerEffect
<1>14. ASSUME NEW ok \in BOOLEAN, Stopped(j, ok)
      PROVE  WorkerEffect(j)
  <2>1. pc[j] \in Working \cup {"init"} /\ UNCHANGED <<listed, req, sweep>>
    BY <1>14 DEF Stopped, At, Working, WorkerUnchanged
  <2>2. dict'[j] \in Uncertified(j) /\ WorkerWrites(j)
    BY <1>0, <1>14, FinalizeFailedEffect, InterruptEffect DEF Stopped
  <2>3. WorkerMoves(j)
    BY <1>0, <1>14, <2>1, FinalizeFailedEffect, InterruptEffect
       DEF WorkerMoves, Stopped
  <2> QED
    BY <2>2, <2>3, UncertifiedVerdict DEF WorkerEffect
<1>9. ASSUME Reap(j)
      PROVE  WorkerEffect(j)
  <2>1. pc[j] \in Working \cup {"init"} /\ UNCHANGED <<listed, req, sweep>>
    BY <1>9 DEF Reap, At, Working, WorkerUnchanged
  <2>2. dict'[j] \in Uncertified(j) /\ WorkerWrites(j)
    BY <1>9, NoWriteEffect DEF Reap
  <2>3. WorkerMoves(j)
    BY <1>0, <1>9, <2>1, GotoEffect
       DEF WorkerMoves, Reap, HasExited, Working, At
  <2> QED
    BY <2>2, <2>3, UncertifiedVerdict DEF WorkerEffect
<1>10. ASSUME NEW ok \in BOOLEAN, PollFirmware(j, ok)
      PROVE  WorkerEffect(j)
  <2>1. pc[j] \in Working \cup {"init"} /\ UNCHANGED <<listed, req, sweep>>
    BY <1>10 DEF PollFirmware, At, Working, WorkerUnchanged
  <2>2. dict'[j] \in Uncertified(j) /\ WorkerWrites(j)
    BY <1>0, <1>10, FinalizeFailedEffect, InterruptEffect, NoWriteEffect
       DEF PollFirmware
  <2>3. WorkerMoves(j)
    BY <1>0, <1>10, <2>1, GotoEffect, FinalizeFailedEffect, InterruptEffect
       DEF WorkerMoves, PollFirmware, Working, At, StageInv
  <2> QED
    BY <2>2, <2>3, UncertifiedVerdict DEF WorkerEffect
<1>11. ASSUME VerifySanitization(j)
      PROVE  WorkerEffect(j)
  <2>1. pc[j] \in Working \cup {"init"} /\ UNCHANGED <<listed, req, sweep>>
    BY <1>11 DEF VerifySanitization, At, Working, WorkerUnchanged
  <2>2. dict'[j] \in Uncertified(j) /\ WorkerWrites(j)
    BY <1>11, NoWriteEffect DEF VerifySanitization
  <2>3. WorkerMoves(j)
    BY <1>0, <1>11, <2>1, GotoEffect, EndWorkerEffect
       DEF WorkerMoves, VerifySanitization, Working, At, StageInv
  <2> QED
    BY <2>2, <2>3, UncertifiedVerdict DEF WorkerEffect
<1>12. ASSUME NEW ok \in BOOLEAN, FinalizeJob(j, ok)
      PROVE  WorkerEffect(j)
  <2>1. pc[j] \in Working \cup {"init"} /\ UNCHANGED <<listed, req, sweep>>
    BY <1>12 DEF FinalizeJob, At, Working, WorkerUnchanged
  <2>2. /\ WorkerWrites(j) /\ Agrees(dict'[j])
        /\ dict'[j].status = "completed" => proc'[j] = "exited"
    <3>1. dict[j].status # "completed" /\ Agrees(dict[j]) /\ proc[j] = "exited"
      BY <1>12, <2>1, WorkingUncertified DEF FinalizeJob, At, StageInv
    <3> QED
      BY <1>0, <1>12, <3>1, UpdateEffect DEF FinalizeJob, Agrees
  <2>3. WorkerMoves(j)
    BY <1>0, <1>12, <2>1, EndWorkerEffect
       DEF WorkerMoves, FinalizeJob, Working, At
  <2> QED
    BY <1>0, <1>12, <2>2, <2>3, EndWorkerEffect
       DEF FinalizeJob, WorkerEffect, WorkerVerdict
<1>13. ASSUME WorkerRaises(j)
      PROVE  WorkerEffect(j)
  <2>1. pc[j] \in Working \cup {"init"} /\ UNCHANGED <<listed, req, sweep>>
    BY <1>13 DEF WorkerRaises, WorkerUnchanged
  <2>2. dict'[j] \in Uncertified(j) /\ WorkerWrites(j)
    BY <1>13, NoWriteEffect DEF WorkerRaises
  <2>3. WorkerMoves(j)
    BY <1>0, <1>13, <2>1, EndWorkerEffect
       DEF WorkerMoves, WorkerRaises, Working
  <2> QED
    BY <2>2, <2>3, UncertifiedVerdict DEF WorkerEffect
<1> QED
  BY <1>1, <1>2, <1>3, <1>4, <1>5, <1>6, <1>7, <1>8, <1>9, <1>10, <1>11,
     <1>12, <1>13, <1>14 DEF WorkerStep

(***************************************************************************)
(* What a step that withdraws jobs can do: cancel, kill-all, or the sweep. *)
(***************************************************************************)
Withdraws ==
    \/ \E j \in Jobs, ok \in BOOLEAN : CancelJob(j, ok) \/ SweepReap(j, ok)
    \/ KillApply
    \/ \E j \in Jobs, done \in SUBSET Jobs : KillApplyRaises(done, j)

\* The dictionary of a live job becomes failed, and its row with it unless
\* persist_job raised.
Condemned(i) ==
    /\ i \in listed /\ dict[i].status \in Live
    /\ dict'[i].status = "failed" /\ dict'[i].cert = dict[i].cert
    /\ row'[i] \in {row[i], dict'[i]}

WithdrawEffect ==
    /\ UNCHANGED <<pc, proc, req>>
    /\ sweep'.job = sweep.job /\ sweep'.todo \subseteq sweep.todo
    /\ \A i \in Jobs : Condemned(i) \/ (dict'[i] = dict[i] /\ row'[i] = row[i])
    /\ listed' \subseteq listed
    /\ \A i \in listed \ listed' : Condemned(i)

LEMMA FailedFacts ==
    ASSUME MemoryOK, NEW j \in Jobs
    PROVE  Failed(j).status = "failed" /\ Failed(j).cert = dict[j].cert
BY DEF Failed

LEMMA WithdrawEffects ==
    ASSUME TypeOK, Withdraws
    PROVE  WithdrawEffect
<1>0. MemoryOK /\ StoreOK /\ SweepOK
  BY DEF TypeOK
<1>1. ASSUME NEW j \in Jobs, NEW ok \in BOOLEAN, CancelJob(j, ok)
      PROVE  WithdrawEffect
  <2> DEFINE d == [dict[j] EXCEPT !.status = "failed", !.cancelled = TRUE]
  <2>1. d.status = "failed" /\ d.cert = dict[j].cert
    BY <1>0
  <2>2. j \in listed /\ dict[j].status \in Live /\ Update(j, d, ok)
    BY <1>1 DEF CancelJob, Cancellable
  <2>3. /\ dict'[j] = d /\ row'[j] \in {row[j], dict'[j]}
        /\ \A i \in Jobs \ {j} : dict'[i] = dict[i] /\ row'[i] = row[i]
    BY <1>0, <2>2 DEF Update, Persist, MemoryOK, StoreOK
  <2>4. Condemned(j)
    BY <2>2, <2>3 DEF Condemned
  <2> QED
    BY <1>1, <2>3, <2>4 DEF CancelJob, WithdrawEffect, threads
<1>2. ASSUME NEW j \in Jobs, NEW ok \in BOOLEAN, SweepReap(j, ok)
      PROVE  WithdrawEffect
  <2>1. CASE Overdue(j) /\ ok
    <3>1. j \in listed /\ dict[j].status \in Live
      BY <2>1 DEF Overdue, Live
    <3>2. /\ dict'[j] = Failed(j) /\ row'[j] = dict'[j]
          /\ \A i \in Jobs \ {j} : dict'[i] = dict[i] /\ row'[i] = row[i]
          /\ listed' = listed \ {j}
      BY <1>0, <1>2, <2>1 DEF SweepReap, MemoryOK, StoreOK
    <3>3. Condemned(j)
      BY <1>0, <3>1, <3>2, FailedFacts DEF Condemned
    <3> QED
      BY <1>2, <3>2, <3>3
         DEF SweepReap, SweepUnchanged, SweepOK, WithdrawEffect, threads
  <2>2. CASE ~(Overdue(j) /\ ok)
    BY <1>2, <2>2
       DEF SweepReap, SweepUnchanged, SweepOK, WithdrawEffect, threads
  <2> QED
    BY <2>1, <2>2
<1>3. CASE KillApply
  <2>1. \A i \in StillLive(kill.doomed) :
           /\ dict'[i] = Failed(i) /\ row'[i] = dict'[i]
           /\ i \in Jobs /\ i \in listed /\ dict[i].status \in Live
    BY <1>0, <1>3 DEF KillApply, StillLive, MemoryOK
  <2>2. \A i \in StillLive(kill.doomed) : Condemned(i)
    BY <1>0, <2>1, FailedFacts DEF Condemned
  <2> QED
    BY <1>3, <2>2 DEF KillApply, WithdrawEffect, threads
<1>4. ASSUME NEW j \in Jobs, NEW done \in SUBSET Jobs, KillApplyRaises(done, j)
      PROVE  WithdrawEffect
  <2>1. \A i \in done \cup {j} :
           /\ dict'[i] = Failed(i) /\ row'[i] \in {row[i], dict'[i]}
           /\ i \in Jobs /\ i \in listed /\ dict[i].status \in Live
    BY <1>4 DEF KillApplyRaises, StillLive
  <2>2. \A i \in done \cup {j} : Condemned(i)
    BY <1>0, <2>1, FailedFacts DEF Condemned
  <2> QED
    BY <1>4, <2>2 DEF KillApplyRaises, WithdrawEffect, threads
<1> QED
  BY <1>1, <1>2, <1>3, <1>4 DEF Withdraws

(***************************************************************************)
(* What the end of start_erase's persist does, whether it raises or not.   *)
(***************************************************************************)
WriteEffect(r, j) ==
    /\ pc[j] = "starting" /\ pc'[j] \in {"init", "done"}
    /\ \A i \in Jobs \ {j} : pc'[i] = pc[i] /\ row'[i] = row[i]
    /\ row'[j] \in {row[j], req[r].image} /\ req[r].at = "writing"
    /\ UNCHANGED <<dict, listed, proc, sweep>>
    /\ \A q \in Requests \ {r} : req'[q] = req[q]
    /\ req[r].job = {j}
    /\ req'[r].job = {} /\ req'[r].image = Nothing
    /\ req'[r].at \in {"idle", "acquire"}
    /\ req'[r].at = "acquire" => req'[r].todo # <<>>

LEMMA WriteEffects ==
    ASSUME TypeOK, RequestInv, NEW r \in Requests, NEW j \in Jobs,
           NEW ok \in BOOLEAN, WriteJob(r, j, ok)
    PROVE  WriteEffect(r, j)
<1>1. ThreadsOK /\ StoreOK /\ RequestsOK
  BY DEF TypeOK
<1>2. pc[j] = "starting"
  BY DEF RequestInv, WriteJob
<1>3. /\ pc'[j] \in {"init", "done"}
      /\ \A i \in Jobs \ {j} : pc'[i] = pc[i] /\ row'[i] = row[i]
      /\ row'[j] \in {row[j], req[r].image}
  BY <1>1, GotoEffect, EndWorkerEffect DEF WriteJob, StoreOK
<1>4. /\ UNCHANGED <<dict, listed, proc, sweep>>
      /\ req[r].job = {j} /\ req[r].at = "writing"
  BY DEF WriteJob, memory
<1>5. /\ \A q \in Requests \ {r} : req'[q] = req[q]
      /\ req'[r] \in {NextBay(r), Idle}
  BY <1>1 DEF WriteJob, RequestsOK
<1>6. /\ req'[r].job = {} /\ req'[r].image = Nothing
      /\ req'[r].at \in {"idle", "acquire"}
      /\ req'[r].at = "acquire" => req'[r].todo # <<>>
  <2>1. CASE req'[r] = Idle
    BY <2>1 DEF Idle
  <2>2. CASE /\ req[r].todo # <<>>
             /\ req'[r] = [Idle EXCEPT !.at = "acquire", !.todo = req[r].todo]
    BY <2>2 DEF Idle
  <2> QED
    BY <1>5, <2>1, <2>2 DEF NextBay
<1> QED
  BY <1>2, <1>3, <1>4, <1>5, <1>6 DEF WriteEffect

\* A request's job is unstarted and its own.
LEMMA RequestPreserved ==
    ASSUME IInv, [Next]_vars
    PROVE  RequestInv'
<1>0. MemoryOK /\ RequestsOK /\ ThreadsOK /\ RequestInv /\ BirthInv /\ StageInv
  BY DEF IInv, TypeOK
<1>1. ASSUME NEW r \in Requests, NEW b \in Batches,
             Accept(r, b)
      PROVE  RequestInv'
  <2>1. b # <<>>
    BY ErasableAssumption
  <2>2. /\ req'[r].at = "acquire" /\ req'[r].todo = b
        /\ req'[r].job = {} /\ req'[r].image = Nothing
        /\ \A q \in Requests \ {r} : req'[q] = req[q]
        /\ UNCHANGED pc
    BY <1>0, <1>1 DEF Accept, Idle, RequestsOK, threads
  <2> QED
    BY <1>0, <2>1, <2>2 DEF RequestInv, Nothing
<1>2. ASSUME NEW r \in Requests, NEW j \in Jobs,
             Publish(r, j)
      PROVE  RequestInv'
  BY <1>0, <1>2
     DEF Publish, Idle, Running, Queued, Nothing, Unborn, RequestInv,
         BirthInv, StageInv, RequestsOK, RequestRecord, threads, admin, env
<1>3. ASSUME NEW r \in Requests, NEW j \in Jobs,
             ReadJob(r, j)
      PROVE  RequestInv'
  BY <1>0, <1>3
     DEF ReadJob, Running, RequestInv, BirthInv, StageInv, MemoryOK,
         RequestsOK, ThreadsOK, threads
<1>4. ASSUME NEW r \in Requests, NEW j \in Jobs, NEW ok \in BOOLEAN,
             WriteJob(r, j, ok)
      PROVE  RequestInv'
  <2>1. WriteEffect(r, j)
    BY <1>4, WriteEffects DEF IInv
  <2>2. \A q \in Requests \ {r} : req[q].job \subseteq Jobs /\ j \notin req[q].job
    BY <1>0, <2>1 DEF RequestsOK, RequestRecord, RequestInv, WriteEffect
  <2> QED
    BY <1>0, <2>1, <2>2 DEF WriteEffect, RequestInv, Nothing
<1>5. ASSUME NEW j \in Jobs, WorkerStep(j) \/ WorkerRaises(j)
      PROVE  RequestInv'
  <2>1. WorkerEffect(j)
    BY <1>5, WorkerEffects DEF IInv
  <2>2. \A r \in Requests : req[r].job \subseteq Jobs /\ j \notin req[r].job
    BY <1>0, <2>1
       DEF RequestsOK, RequestRecord, RequestInv, WorkerEffect, WorkerMoves,
           Working
  <2> QED
    BY <1>0, <2>1, <2>2 DEF WorkerEffect, WorkerMoves, RequestInv
<1>6. CASE Die
  BY <1>6
     DEF Die, Nothing, Idle, NoKill, NoSweep, Running, Target, RequestInv,
         BirthInv, StageInv
<1>7. CASE \/ \E j \in Jobs : ProcessExits(j) \/ Clock(j) \/ TerminateCancelled(j)
           \/ \E j \in Jobs : KillCheck(j) \/ SweepTest(j) \/ SweepLoad(j)
           \/ \E j \in Jobs, ok \in BOOLEAN :
                 CancelJob(j, ok) \/ SweepWrite(j, ok) \/ SweepReap(j, ok)
           \/ \E j \in Jobs, ok \in BOOLEAN : Recover(j, ok)
           \/ KillSnapshot \/ KillApply \/ SweepRows
           \/ SweepCollect \/ SweepRest \/ SetPolicy
           \/ Signal \/ Restart \/ RecoveryDone
           \/ \E j \in Jobs, done \in SUBSET Jobs : KillApplyRaises(done, j)
  <2>1. UNCHANGED <<req, pc>>
    BY <1>7
       DEF ProcessExits, Clock, CancelJob, TerminateCancelled, KillSnapshot,
           KillCheck, KillApply, KillApplyRaises, SweepRows, SweepTest,
           SweepLoad, SweepWrite, SweepCollect, SweepReap, SweepRest,
           SetPolicy, Signal, Restart, Recover, RecoveryDone, SweepUnchanged,
           memory, threads, admin, env
  <2> QED
    BY <1>0, <2>1 DEF RequestInv
<1>8. CASE UNCHANGED vars
  BY <1>0, <1>8 DEF RequestInv, vars, threads
<1> QED
  BY <1>1, <1>2, <1>3, <1>4, <1>5, <1>6, <1>7, <1>8
     DEF Next, StartErase, NextStep, KillProceed, Sweep, Startup

\* Jobs are unborn until published.
LEMMA BirthPreserved ==
    ASSUME IInv, [Next]_vars
    PROVE  BirthInv'
<1>0. MemoryOK /\ StoreOK /\ ThreadsOK /\ RequestsOK /\ SweepOK /\ RequestInv /\ BirthInv
  BY DEF IInv, TypeOK
<1>1. ASSUME NEW r \in Requests, NEW b \in Batches,
             Accept(r, b)
      PROVE  BirthInv'
  BY <1>0, <1>1
     DEF Accept, Idle, Target, RequestInv, BirthInv, MemoryOK, StoreOK,
         ThreadsOK, RequestsOK, memory, threads, admin, env
<1>2. ASSUME NEW r \in Requests, NEW j \in Jobs,
             Publish(r, j)
      PROVE  BirthInv'
  BY <1>0, <1>2
     DEF Publish, Idle, Running, Queued, Nothing, Unborn, RequestInv,
         BirthInv, MemoryOK, StoreOK, ThreadsOK, RequestsOK
<1>3. ASSUME NEW r \in Requests, NEW j \in Jobs,
             ReadJob(r, j)
      PROVE  BirthInv'
  BY <1>0, <1>3
     DEF ReadJob, Running, RequestInv, BirthInv, MemoryOK, StoreOK, ThreadsOK,
         RequestsOK, SweepOK, memory, threads, env
<1>4. ASSUME NEW r \in Requests, NEW j \in Jobs, NEW ok \in BOOLEAN,
             WriteJob(r, j, ok)
      PROVE  BirthInv'
  <2>1. WriteEffect(r, j)
    BY <1>4, WriteEffects DEF IInv
  <2> QED
    BY <1>0, <2>1 DEF WriteEffect, BirthInv
<1>5. ASSUME NEW j \in Jobs, WorkerStep(j) \/ WorkerRaises(j)
      PROVE  BirthInv'
  <2>1. WorkerEffect(j)
    BY <1>5, WorkerEffects DEF IInv
  <2> QED
    BY <1>0, <2>1
       DEF WorkerEffect, WorkerMoves, WorkerWrites, WorkerVerdict, RequestInv,
           BirthInv, Working
<1>6. CASE Withdraws
  <2>1. WithdrawEffect
    BY <1>6, WithdrawEffects DEF IInv
  <2> QED
    BY <1>0, <2>1 DEF WithdrawEffect, Condemned, RequestInv, BirthInv
<1>7. CASE SweepRows
  BY <1>0, <1>7
     DEF SweepRows, OpenRows, Running, SweepUnchanged, NoSweep, Outcome,
         RowFailed, Overdue, Failed, RequestInv, BirthInv, MemoryOK, Live,
         Nothing, memory, threads, admin, env
<1>8. ASSUME NEW j \in Jobs,
             SweepTest(j)
      PROVE  BirthInv'
  BY <1>0, <1>8
     DEF SweepTest, Orphaned, Running, SweepUnchanged, NoSweep, Outcome,
         RowFailed, Overdue, Failed, RequestInv, BirthInv, MemoryOK, threads
<1>9. ASSUME NEW j \in Jobs,
             SweepLoad(j)
      PROVE  BirthInv'
  BY <1>0, <1>9
     DEF SweepLoad, Running, SweepUnchanged, NoSweep, Outcome, RowFailed,
         Overdue, Failed, RequestInv, BirthInv, MemoryOK, StoreOK, threads
<1>10. ASSUME NEW j \in Jobs, NEW ok \in BOOLEAN,
             SweepWrite(j, ok)
      PROVE  BirthInv'
  BY <1>0, <1>10
     DEF SweepWrite, Running, SweepUnchanged, NoSweep, Outcome, RowFailed,
         Overdue, Failed, RequestInv, BirthInv, MemoryOK, StoreOK, threads
<1>11. CASE SweepCollect
  BY <1>0, <1>11
     DEF SweepCollect, Running, SweepUnchanged, NoSweep, Outcome, RowFailed,
         Overdue, Failed, RequestInv, BirthInv, MemoryOK, StoreOK, threads
<1>12. CASE SweepRest
  BY <1>0, <1>12
     DEF SweepRest, Running, SweepUnchanged, NoSweep, Outcome, RowFailed,
         Overdue, Failed, RequestInv, BirthInv, MemoryOK, StoreOK, threads
<1>13. CASE Die
  BY <1>0, <1>13
     DEF Die, Nothing, Idle, NoKill, NoSweep, Running, Target, RequestInv,
         BirthInv, MemoryOK, StoreOK
<1>14. ASSUME NEW j \in Jobs, NEW ok \in BOOLEAN,
             Recover(j, ok)
      PROVE  BirthInv'
  <2>1. row[j] # Nothing
    BY <1>14 DEF Recover, Live, Nothing
  <2>2. \A i \in Jobs : row'[i] = row[i] \/ i = j
    BY <1>14 DEF Recover
  <2>3. UNCHANGED <<pc, listed, req, sweep>>
    BY <1>14 DEF Recover, memory, threads
  <2> QED
    BY <1>0, <2>1, <2>2, <2>3 DEF BirthInv
<1>15. CASE \/ \E j \in Jobs : ProcessExits(j) \/ Clock(j) \/ TerminateCancelled(j)
            \/ \E j \in Jobs : KillCheck(j)
            \/ KillSnapshot \/ SetPolicy \/ Signal
            \/ Restart \/ RecoveryDone
  <2>1. UNCHANGED <<pc, listed, row, req, sweep>>
    BY <1>15
       DEF ProcessExits, Clock, TerminateCancelled, KillSnapshot, KillCheck,
           SetPolicy, Signal, Restart, RecoveryDone, memory, threads
  <2> QED
    BY <1>0, <2>1 DEF BirthInv
<1>16. CASE UNCHANGED vars
  BY <1>0, <1>16 DEF BirthInv, vars, memory, threads
<1> QED
  BY <1>1, <1>2, <1>3, <1>4, <1>5, <1>6, <1>7, <1>8, <1>9, <1>10, <1>11,
     <1>12, <1>13, <1>14, <1>15, <1>16
     DEF Next, StartErase, NextStep, KillProceed, Sweep, Startup, Withdraws

\* A dictionary never runs ahead of its worker.
LEMMA StagePreserved ==
    ASSUME IInv, [Next]_vars
    PROVE  StageInv'
<1>0. MemoryOK /\ ThreadsOK /\ WorldOK /\ StageInv /\ RequestInv
  BY DEF IInv, TypeOK
<1>1. ASSUME NEW r \in Requests, NEW j \in Jobs,
             Publish(r, j)
      PROVE  StageInv'
  BY <1>0, <1>1
     DEF Publish, Idle, Running, Queued, Nothing, Unborn, StageInv,
         RequestInv, MemoryOK, ThreadsOK
<1>2. ASSUME NEW r \in Requests, NEW j \in Jobs, NEW ok \in BOOLEAN,
             WriteJob(r, j, ok)
      PROVE  StageInv'
  <2>1. WriteEffect(r, j)
    BY <1>2, WriteEffects DEF IInv
  <2> QED
    BY <1>0, <2>1 DEF WriteEffect, StageInv, RequestInv, Live
<1>3. ASSUME NEW j \in Jobs, WorkerStep(j) \/ WorkerRaises(j)
      PROVE  StageInv'
  <2>1. WorkerEffect(j)
    BY <1>3, WorkerEffects DEF IInv
  <2> QED
    BY <1>0, <2>1
       DEF WorkerEffect, WorkerMoves, WorkerWrites, WorkerVerdict, StageInv,
           RequestInv, Working
<1>4. ASSUME NEW j \in Jobs,
             ProcessExits(j)
      PROVE  StageInv'
  BY <1>0, <1>4
     DEF ProcessExits, Stop, StageInv, RequestInv, MemoryOK, ThreadsOK,
         WorldOK, JobRecord, Live, memory, threads, env
<1>5. CASE Withdraws
  <2>1. WithdrawEffect
    BY <1>5, WithdrawEffects DEF IInv
  <2> QED
    BY <1>0, <2>1
       DEF WithdrawEffect, Condemned, StageInv, RequestInv, MemoryOK
<1>6. ASSUME NEW j \in Jobs,
             TerminateCancelled(j)
      PROVE  StageInv'
  BY <1>0, <1>6
     DEF TerminateCancelled, Terminate, Stop, Running, StageInv, RequestInv, MemoryOK,
         ThreadsOK, WorldOK, JobRecord, memory, threads, admin, env
<1>7. ASSUME NEW j \in Jobs,
             KillCheck(j)
      PROVE  StageInv'
  BY <1>0, <1>7
     DEF KillCheck, Terminate, Stop, Running, StageInv, RequestInv, MemoryOK, ThreadsOK,
         WorldOK, JobRecord, memory, threads, admin, env
<1>8. CASE Die
  BY <1>8
     DEF Die, Nothing, Idle, NoKill, NoSweep, Running, Target, StageInv,
         RequestInv, MemoryOK, ThreadsOK
<1>9. CASE \/ \E r \in Requests, b \in Batches : Accept(r, b)
           \/ \E r \in Requests, j \in Jobs : ReadJob(r, j)
           \/ \E j \in Jobs : Clock(j) \/ SweepTest(j) \/ SweepLoad(j)
           \/ KillSnapshot \/ SweepRows \/ SweepCollect
           \/ SweepRest \/ SetPolicy \/ Signal
           \/ Restart \/ RecoveryDone
           \/ \E j \in Jobs, ok \in BOOLEAN : SweepWrite(j, ok) \/ Recover(j, ok)
  <2>1. UNCHANGED <<pc, dict, proc>>
    BY <1>9
       DEF Accept, ReadJob, Clock, KillSnapshot, SweepRows, SweepTest,
           SweepLoad, SweepWrite, SweepCollect, SweepRest, SetPolicy, Signal,
           Restart, Recover, RecoveryDone, SweepUnchanged, memory, threads,
           admin, env
  <2> QED
    BY <1>0, <2>1 DEF StageInv
<1>10. CASE UNCHANGED vars
  BY <1>0, <1>10 DEF StageInv, vars, memory, threads
<1> QED
  BY <1>1, <1>2, <1>3, <1>4, <1>5, <1>6, <1>7, <1>8, <1>9, <1>10
     DEF Next, StartErase, NextStep, KillProceed, Sweep, Startup, Withdraws

\* The sweep's job stays out of memory: identifiers are never listed again.
LEMMA SweepPreserved ==
    ASSUME IInv, [Next]_vars
    PROVE  SweepInv'
<1>0. SweepOK /\ SweepInv /\ BirthInv
  BY DEF IInv, TypeOK
<1>1. ASSUME NEW r \in Requests, NEW j \in Jobs,
             Publish(r, j)
      PROVE  SweepInv'
  BY <1>0, <1>1
     DEF Publish, Idle, Running, Queued, Nothing, Unborn, SweepInv, BirthInv
<1>2. ASSUME NEW j \in Jobs, WorkerStep(j) \/ WorkerRaises(j)
      PROVE  SweepInv'
  <2>1. WorkerEffect(j)
    BY <1>2, WorkerEffects DEF IInv
  <2> QED
    BY <1>0, <2>1
       DEF WorkerEffect, WorkerMoves, WorkerWrites, WorkerVerdict, SweepInv
<1>3. CASE Withdraws
  <2>1. WithdrawEffect
    BY <1>3, WithdrawEffects DEF IInv
  <2> QED
    BY <1>0, <2>1 DEF WithdrawEffect, SweepInv
<1>4. CASE SweepRows
  BY <1>0, <1>4
     DEF SweepRows, OpenRows, Running, SweepUnchanged, NoSweep, Outcome,
         RowFailed, Overdue, Failed, SweepInv
<1>5. ASSUME NEW j \in Jobs,
             SweepTest(j)
      PROVE  SweepInv'
  BY <1>0, <1>5
     DEF SweepTest, Orphaned, Running, SweepUnchanged, NoSweep, Outcome,
         RowFailed, Overdue, Failed, SweepInv
<1>6. ASSUME NEW j \in Jobs,
             SweepLoad(j)
      PROVE  SweepInv'
  BY <1>0, <1>6
     DEF SweepLoad, Running, SweepUnchanged, NoSweep, Outcome, RowFailed,
         Overdue, Failed, SweepInv
<1>7. ASSUME NEW j \in Jobs, NEW ok \in BOOLEAN,
             SweepWrite(j, ok)
      PROVE  SweepInv'
  BY <1>0, <1>7
     DEF SweepWrite, Running, SweepUnchanged, NoSweep, Outcome, RowFailed,
         Overdue, Failed, SweepInv
<1>8. CASE SweepCollect
  BY <1>0, <1>8
     DEF SweepCollect, Running, SweepUnchanged, NoSweep, Outcome, RowFailed,
         Overdue, Failed, SweepInv
<1>9. CASE SweepRest
  BY <1>0, <1>9
     DEF SweepRest, Running, SweepUnchanged, NoSweep, Outcome, RowFailed,
         Overdue, Failed, SweepInv
<1>10. CASE Die
  BY <1>10 DEF Die, Nothing, Idle, NoKill, NoSweep, Running, Target, SweepInv
<1>11. CASE \/ \E r \in Requests, b \in Batches : Accept(r, b)
            \/ \E r \in Requests, j \in Jobs : ReadJob(r, j)
            \/ \E r \in Requests, j \in Jobs, ok \in BOOLEAN : WriteJob(r, j, ok)
            \/ \E j \in Jobs : ProcessExits(j) \/ Clock(j) \/ TerminateCancelled(j)
            \/ \E j \in Jobs : KillCheck(j)
            \/ KillSnapshot \/ SetPolicy \/ Signal
            \/ Restart \/ RecoveryDone
            \/ \E j \in Jobs, ok \in BOOLEAN : Recover(j, ok)
  <2>1. UNCHANGED <<sweep, listed>>
    BY <1>11
       DEF Accept, ReadJob, WriteJob, ProcessExits, Clock, TerminateCancelled,
           KillSnapshot, KillCheck, SetPolicy, Signal, Restart, Recover,
           RecoveryDone, memory, threads, admin, env
  <2> QED
    BY <1>0, <2>1 DEF SweepInv
<1>12. CASE UNCHANGED vars
  BY <1>0, <1>12 DEF SweepInv, vars, memory, threads
<1> QED
  BY <1>1, <1>2, <1>3, <1>4, <1>5, <1>6, <1>7, <1>8, <1>9, <1>10, <1>11, <1>12
     DEF Next, StartErase, NextStep, KillProceed, Sweep, Startup, Withdraws

\* Nothing touches a completed row.
LEMMA CompletedPreserved ==
    ASSUME IInv, [Next]_vars
    PROVE  CompletedInv'
<1>0. /\ MemoryOK /\ StoreOK /\ ThreadsOK /\ SweepOK /\ WorldOK
      /\ CompletedInv /\ RequestInv /\ SweepInv /\ StageInv
  BY DEF IInv, TypeOK
<1>1. ASSUME NEW r \in Requests, NEW j \in Jobs,
             Publish(r, j)
      PROVE  CompletedInv'
  BY <1>0, <1>1
     DEF Publish, Idle, Running, Queued, Nothing, Unborn, CompletedInv,
         RequestInv, SweepInv, StageInv, MemoryOK, StoreOK
<1>2. ASSUME NEW r \in Requests, NEW j \in Jobs, NEW ok \in BOOLEAN,
             WriteJob(r, j, ok)
      PROVE  CompletedInv'
  <2>1. WriteEffect(r, j)
    BY <1>2, WriteEffects DEF IInv
  <2> QED
    BY <1>0, <2>1
       DEF WriteEffect, CompletedInv, RequestInv, SweepInv, StageInv
<1>3. ASSUME NEW j \in Jobs, WorkerStep(j) \/ WorkerRaises(j)
      PROVE  CompletedInv'
  <2>1. WorkerEffect(j)
    BY <1>3, WorkerEffects DEF IInv
  <2> QED
    BY <1>0, <2>1
       DEF WorkerEffect, WorkerMoves, WorkerWrites, WorkerVerdict,
           CompletedInv, RequestInv, SweepInv, Working
<1>4. ASSUME NEW j \in Jobs,
             ProcessExits(j)
      PROVE  CompletedInv'
  BY <1>0, <1>4
     DEF ProcessExits, Stop, CompletedInv, RequestInv, SweepInv, StageInv,
         MemoryOK, StoreOK, ThreadsOK, SweepOK, WorldOK, memory, threads
<1>5. CASE Withdraws
  <2>1. WithdrawEffect
    BY <1>5, WithdrawEffects DEF IInv
  <2> QED
    BY <1>0, <2>1
       DEF WithdrawEffect, Condemned, CompletedInv, RequestInv, SweepInv,
           StageInv, Live
<1>6. ASSUME NEW j \in Jobs,
             TerminateCancelled(j)
      PROVE  CompletedInv'
  BY <1>0, <1>6
     DEF TerminateCancelled, Terminate, Stop, Running, CompletedInv, RequestInv,
         SweepInv, StageInv, MemoryOK, StoreOK, ThreadsOK, SweepOK, WorldOK,
         memory, threads, admin, env
<1>7. ASSUME NEW j \in Jobs,
             KillCheck(j)
      PROVE  CompletedInv'
  BY <1>0, <1>7
     DEF KillCheck, Terminate, Stop, Running, CompletedInv, RequestInv, SweepInv,
         StageInv, MemoryOK, StoreOK, ThreadsOK, SweepOK, WorldOK, memory,
         threads, admin, env
<1>8. CASE SweepRows
  BY <1>0, <1>8
     DEF SweepRows, OpenRows, Running, SweepUnchanged, NoSweep, Outcome,
         RowFailed, Overdue, Failed, CompletedInv, RequestInv, SweepInv,
         StageInv, MemoryOK, Live, memory, threads, admin, env
<1>9. ASSUME NEW j \in Jobs,
             SweepTest(j)
      PROVE  CompletedInv'
  BY <1>0, <1>9
     DEF SweepTest, Orphaned, Running, SweepUnchanged, NoSweep, Outcome,
         RowFailed, Overdue, Failed, CompletedInv, RequestInv, SweepInv,
         StageInv, MemoryOK, threads
<1>10. ASSUME NEW j \in Jobs,
             SweepLoad(j)
      PROVE  CompletedInv'
  BY <1>0, <1>10
     DEF SweepLoad, Running, SweepUnchanged, NoSweep, Outcome, RowFailed,
         Overdue, Failed, CompletedInv, RequestInv, SweepInv, StageInv,
         MemoryOK, StoreOK, threads
<1>11. ASSUME NEW j \in Jobs, NEW ok \in BOOLEAN,
             SweepWrite(j, ok)
      PROVE  CompletedInv'
  BY <1>0, <1>11
     DEF SweepWrite, Running, SweepUnchanged, NoSweep, Outcome, RowFailed,
         Overdue, Failed, CompletedInv, RequestInv, SweepInv, StageInv,
         MemoryOK, StoreOK, threads
<1>12. CASE SweepCollect
  BY <1>0, <1>12
     DEF SweepCollect, Running, SweepUnchanged, NoSweep, Outcome, RowFailed,
         Overdue, Failed, CompletedInv, RequestInv, SweepInv, StageInv,
         MemoryOK, StoreOK, threads
<1>13. CASE SweepRest
  BY <1>0, <1>13
     DEF SweepRest, Running, SweepUnchanged, NoSweep, Outcome, RowFailed,
         Overdue, Failed, CompletedInv, RequestInv, SweepInv, StageInv,
         MemoryOK, StoreOK, threads
<1>14. CASE Die
  BY <1>0, <1>14
     DEF Die, Nothing, Idle, NoKill, NoSweep, Running, Target, CompletedInv,
         RequestInv, SweepInv, StageInv, MemoryOK, StoreOK
<1>15. ASSUME NEW j \in Jobs, NEW ok \in BOOLEAN,
             Recover(j, ok)
      PROVE  CompletedInv'
  BY <1>0, <1>15
     DEF Recover, Outcome, RowFailed, CompletedInv, RequestInv, SweepInv,
         StageInv, MemoryOK, StoreOK, ThreadsOK, SweepOK, memory, threads
<1>16. CASE \/ \E r \in Requests, b \in Batches : Accept(r, b)
            \/ \E r \in Requests, j \in Jobs : ReadJob(r, j)
            \/ \E j \in Jobs : Clock(j)
            \/ KillSnapshot \/ SetPolicy \/ Signal
            \/ Restart \/ RecoveryDone
  <2>1. UNCHANGED <<row, pc, proc, listed, dict, sweep>>
    BY <1>16
       DEF Accept, ReadJob, Clock, KillSnapshot, SetPolicy, Signal, Restart,
           RecoveryDone, memory, threads
  <2> QED
    BY <1>0, <2>1 DEF CompletedInv
<1>17. CASE UNCHANGED vars
  BY <1>0, <1>17 DEF CompletedInv, vars, memory, threads
<1> QED
  BY <1>1, <1>2, <1>3, <1>4, <1>5, <1>6, <1>7, <1>8, <1>9, <1>10, <1>11,
     <1>12, <1>13, <1>14, <1>15, <1>16, <1>17
     DEF Next, StartErase, NextStep, KillProceed, Sweep, Startup, Withdraws

\* Certificates and statuses are written together.
LEMMA CertificatePreserved ==
    ASSUME IInv, [Next]_vars
    PROVE  CertificateInv'
<1>0. MemoryOK /\ StoreOK /\ CertificateInv /\ RequestInv /\ CompletedInv
  BY DEF IInv, TypeOK
<1>1. ASSUME NEW r \in Requests, NEW j \in Jobs,
             Publish(r, j)
      PROVE  CertificateInv'
  BY <1>0, <1>1
     DEF Publish, Idle, Running, Queued, Nothing, Unborn, CertificateInv,
         RequestInv, CompletedInv, MemoryOK, Agrees
<1>2. ASSUME NEW r \in Requests, NEW j \in Jobs, NEW ok \in BOOLEAN,
             WriteJob(r, j, ok)
      PROVE  CertificateInv'
  <2>1. WriteEffect(r, j)
    BY <1>2, WriteEffects DEF IInv
  <2> QED
    BY <1>0, <2>1
       DEF WriteEffect, CertificateInv, RequestInv, CompletedInv, Agrees
<1>3. ASSUME NEW j \in Jobs, WorkerStep(j) \/ WorkerRaises(j)
      PROVE  CertificateInv'
  <2>1. WorkerEffect(j)
    BY <1>3, WorkerEffects DEF IInv
  <2> QED
    BY <1>0, <2>1
       DEF WorkerEffect, WorkerMoves, WorkerWrites, WorkerVerdict,
           CertificateInv, RequestInv, CompletedInv
<1>4. CASE Withdraws
  <2>1. WithdrawEffect
    BY <1>4, WithdrawEffects DEF IInv
  <2> QED
    BY <1>0, <2>1
       DEF WithdrawEffect, Condemned, CertificateInv, RequestInv,
           CompletedInv, MemoryOK, Agrees, Live
<1>5. ASSUME NEW j \in Jobs, NEW ok \in BOOLEAN,
             SweepWrite(j, ok)
      PROVE  CertificateInv'
  BY <1>0, <1>5
     DEF SweepWrite, Running, SweepUnchanged, NoSweep, Outcome, RowFailed,
         Overdue, Failed, CertificateInv, RequestInv, CompletedInv, MemoryOK,
         Agrees, admin, env
<1>6. CASE Die
  BY <1>0, <1>6
     DEF Die, Nothing, Idle, NoKill, NoSweep, Running, Target, CertificateInv,
         RequestInv, CompletedInv, MemoryOK, Agrees, env
<1>7. ASSUME NEW j \in Jobs, NEW ok \in BOOLEAN,
             Recover(j, ok)
      PROVE  CertificateInv'
  BY <1>0, <1>7
     DEF Recover, Outcome, RowFailed, CertificateInv, RequestInv,
         CompletedInv, MemoryOK, StoreOK, JobRecord, Agrees, Live, memory,
         threads, admin, env
<1>8. CASE \/ \E r \in Requests, b \in Batches : Accept(r, b)
           \/ \E r \in Requests, j \in Jobs : ReadJob(r, j)
           \/ \E j \in Jobs : ProcessExits(j) \/ Clock(j) \/ TerminateCancelled(j)
           \/ \E j \in Jobs : KillCheck(j) \/ SweepTest(j) \/ SweepLoad(j)
           \/ KillSnapshot \/ SweepRows \/ SweepCollect
           \/ SweepRest \/ SetPolicy \/ Signal
           \/ Restart \/ RecoveryDone
  <2>1. UNCHANGED <<dict, row>>
    BY <1>8
       DEF Accept, ReadJob, ProcessExits, Clock, TerminateCancelled,
           KillSnapshot, KillCheck, SweepRows, SweepTest, SweepLoad,
           SweepCollect, SweepRest, SetPolicy, Signal, Restart, RecoveryDone,
           SweepUnchanged, memory, threads, admin, env
  <2> QED
    BY <1>0, <2>1 DEF CertificateInv
<1>9. CASE UNCHANGED vars
  BY <1>0, <1>9 DEF CertificateInv, vars, memory, threads
<1> QED
  BY <1>1, <1>2, <1>3, <1>4, <1>5, <1>6, <1>7, <1>8, <1>9
     DEF Next, StartErase, NextStep, KillProceed, Sweep, Startup, Withdraws

(***************************************************************************)
(* The inductive invariant.                                                *)
(***************************************************************************)
LEMMA InitIInv == Init => IInv
<1> SUFFICES ASSUME Init PROVE IInv
  OBVIOUS
<1> USE DEF Init
<1>1. TypeOK
  <2>1. (CHOOSE t \in Target : TRUE) \in Target
    <3>1. PICK d \in Devices : TRUE
      BY ErasableAssumption
    <3>2. [dev |-> d, firmware |-> FALSE, overridden |-> FALSE] \in Target
      BY <3>1 DEF Target
    <3> QED
      BY <3>2
  <2>2. MemoryOK
    BY <2>1, ConstantsTyped DEF MemoryOK
  <2>3. StoreOK /\ ThreadsOK /\ RequestsOK
    BY ConstantsTyped, ErasableAssumption DEF StoreOK, ThreadsOK, RequestsOK
  <2>4. AdminOK /\ SweepOK
    BY DEF AdminOK, SweepOK, NoKill, NoSweep
  <2>5. WorldOK
    <3>1. crashes \in 0..MaxCrashes
      BY ErasableAssumption
    <3>2. proc \in [Jobs -> {"none", "alive", "exited"}]
      OBVIOUS
    <3> QED
      BY <3>1 DEF WorldOK
  <2> QED
    BY <2>2, <2>3, <2>4, <2>5 DEF TypeOK
<1>2. RequestInv /\ BirthInv
  BY DEF RequestInv, BirthInv, Idle, Nothing, NoSweep
<1>3. StageInv /\ SweepInv
  BY DEF StageInv, SweepInv, Nothing
<1>4. CompletedInv /\ CertificateInv
  BY DEF CompletedInv, CertificateInv, Agrees, Nothing
<1> QED
  BY <1>1, <1>2, <1>3, <1>4 DEF IInv

LEMMA NextIInv == IInv /\ [Next]_vars => IInv'
BY TypePreserved, RequestPreserved, BirthPreserved, StagePreserved,
   SweepPreserved, CompletedPreserved, CertificatePreserved DEF IInv

\* The inductive invariant holds throughout.
LEMMA AlwaysIInv == Spec => []IInv
<1> QED
  BY InitIInv, NextIInv, PTL DEF Spec

(***************************************************************************)
(* Theorems.                                                               *)
(***************************************************************************)

\* Every variable keeps to its type: whatever the interleaving of endpoints,
\* workers, sweep, kill-all and restarts, the model never leaves its states.
THEOREM TypeCorrect == Spec => []TypeOK
<1>1. IInv => TypeOK
  BY DEF IInv
<1> QED
  BY <1>1, AlwaysIInv, PTL

\* A row says completed only if the job's wipe was started and has ended
\* (_finalize_job against cancel, kill-all, sweep, crash and recovery).
THEOREM CompletedImpliesErased == Spec => []CompletedAfterErase
<1>1. IInv => CompletedAfterErase
  BY DEF IInv, CompletedInv, CompletedAfterErase
<1> QED
  BY <1>1, AlwaysIInv, PTL

\* A stored certificate agrees with the stored verdict, even when a write
\* fails between the two in memory and the table.
THEOREM CertificatesTruthful == Spec => []CertificateAgrees
<1>1. IInv => CertificateAgrees
  BY DEF IInv, CertificateInv, Agrees, CertificateAgrees
<1> QED
  BY <1>1, AlwaysIInv, PTL

\* No step changes a completed row: the late persist of start_erase, the
\* sweep's read-then-write and the start-up recovery all spare it.
THEOREM CompletedIsFinal == Spec => CompletedKept
<1> DEFINE Kept == \A j \in Jobs : row[j].status = "completed" => row'[j] = row[j]
<1>0. ASSUME IInv, [Next]_vars PROVE Kept
  <2> USE <1>0
  <2>0. StoreOK /\ RequestInv /\ CompletedInv /\ StageInv
    BY DEF IInv, TypeOK
  <2>1. ASSUME NEW j \in Jobs, WorkerStep(j) \/ WorkerRaises(j)
        PROVE  Kept
    <3>1. WorkerEffect(j)
      BY <2>1, WorkerEffects DEF IInv
    <3> QED
      BY <2>0, <3>1
         DEF WorkerEffect, WorkerMoves, WorkerWrites, Working, CompletedInv
  <2>2. CASE Withdraws
    <3>1. WithdrawEffect
      BY <2>2, WithdrawEffects DEF IInv
    <3> QED
      BY <2>0, <3>1 DEF WithdrawEffect, Condemned, CompletedInv, Live
  <2>3. ASSUME NEW r \in Requests, NEW j \in Jobs, NEW ok \in BOOLEAN,
               WriteJob(r, j, ok)
        PROVE  Kept
    <3>1. WriteEffect(r, j)
      BY <2>3, WriteEffects DEF IInv
    <3> QED
      BY <2>0, <3>1 DEF WriteEffect, CompletedInv
  <2>4. ASSUME NEW j \in Jobs, NEW ok \in BOOLEAN, SweepWrite(j, ok)
        PROVE  Kept
    BY <2>0, <2>4 DEF SweepWrite, CompletedInv
  <2>5. ASSUME NEW j \in Jobs, NEW ok \in BOOLEAN, Recover(j, ok)
        PROVE  Kept
    BY <2>5 DEF Recover, Live
  <2>6. CASE \/ \E r \in Requests, b \in Batches : Accept(r, b)
             \/ \E r \in Requests, j \in Jobs : Publish(r, j) \/ ReadJob(r, j)
             \/ \E j \in Jobs : ProcessExits(j) \/ Clock(j) \/ TerminateCancelled(j)
             \/ \E j \in Jobs : KillCheck(j) \/ SweepTest(j) \/ SweepLoad(j)
             \/ KillSnapshot \/ SweepRows \/ SweepCollect
             \/ SweepRest \/ SetPolicy \/ Signal
             \/ Die \/ Restart \/ RecoveryDone
             \/ UNCHANGED vars
    <3>1. UNCHANGED <<row>>
      BY <2>6
         DEF Accept, Publish, ReadJob, ProcessExits, Clock,
             TerminateCancelled, KillSnapshot, KillCheck, SweepRows,
             SweepTest, SweepLoad, SweepCollect, SweepRest, SetPolicy, Signal,
             Die, Restart, RecoveryDone, SweepUnchanged, vars, memory,
             threads, admin, env
    <3> QED
      BY <3>1
  <2> QED
    BY <2>1, <2>2, <2>3, <2>4, <2>5, <2>6
       DEF Next, StartErase, NextStep, KillProceed, Sweep, Startup, Withdraws
<1> QED
  BY <1>0, AlwaysIInv, PTL DEF Spec, CompletedKept

\* The row of a job withdrawn from ERASE_JOBS only ever becomes failed, or
\* queued through the accepting request's late write.
THEOREM WithdrawnJobsRefused == Spec => WithdrawnRefused
<1> DEFINE Kept == \A j \in Jobs : pc[j] # "unborn" /\ j \notin listed =>
                      row'[j] = row[j] \/ row'[j].status \in {"queued", "failed"}
<1>0. ASSUME IInv, [Next]_vars PROVE Kept
  <2> USE <1>0
  <2>0. StoreOK /\ RequestInv /\ CompletedInv /\ StageInv
    BY DEF IInv, TypeOK
  <2>1. ASSUME NEW j \in Jobs, WorkerStep(j) \/ WorkerRaises(j)
        PROVE  Kept
    <3>1. WorkerEffect(j)
      BY <2>1, WorkerEffects DEF IInv
    <3> QED
      BY <3>1 DEF WorkerEffect, WorkerWrites
  <2>2. CASE Withdraws
    <3>1. WithdrawEffect
      BY <2>2, WithdrawEffects DEF IInv
    <3> QED
      BY <3>1 DEF WithdrawEffect, Condemned
  <2>3. ASSUME NEW r \in Requests, NEW j \in Jobs, NEW ok \in BOOLEAN,
               WriteJob(r, j, ok)
        PROVE  Kept
    <3>1. WriteEffect(r, j)
      BY <2>3, WriteEffects DEF IInv
    <3> QED
      BY <2>0, <3>1 DEF WriteEffect, RequestInv
  <2>4. ASSUME NEW j \in Jobs, NEW ok \in BOOLEAN, SweepWrite(j, ok)
        PROVE  Kept
    BY <2>4 DEF SweepWrite, RowFailed
  <2>5. ASSUME NEW j \in Jobs, NEW ok \in BOOLEAN, Recover(j, ok)
        PROVE  Kept
    BY <2>5 DEF Recover, RowFailed
  <2>6. CASE \/ \E r \in Requests, b \in Batches : Accept(r, b)
             \/ \E r \in Requests, j \in Jobs : Publish(r, j) \/ ReadJob(r, j)
             \/ \E j \in Jobs : ProcessExits(j) \/ Clock(j) \/ TerminateCancelled(j)
             \/ \E j \in Jobs : KillCheck(j) \/ SweepTest(j) \/ SweepLoad(j)
             \/ KillSnapshot \/ SweepRows \/ SweepCollect
             \/ SweepRest \/ SetPolicy \/ Signal
             \/ Die \/ Restart \/ RecoveryDone
             \/ UNCHANGED vars
    <3>1. UNCHANGED <<row>>
      BY <2>6
         DEF Accept, Publish, ReadJob, ProcessExits, Clock,
             TerminateCancelled, KillSnapshot, KillCheck, SweepRows,
             SweepTest, SweepLoad, SweepCollect, SweepRest, SetPolicy, Signal,
             Die, Restart, RecoveryDone, SweepUnchanged, vars, memory,
             threads, admin, env
    <3> QED
      BY <3>1
  <2> QED
    BY <2>1, <2>2, <2>3, <2>4, <2>5, <2>6
       DEF Next, StartErase, NextStep, KillProceed, Sweep, Startup, Withdraws
<1> QED
  BY <1>0, AlwaysIInv, PTL DEF Spec, WithdrawnRefused

(***************************************************************************)
(* The semaphore: a step takes a slot for one job, gives one back, or      *)
(* leaves the slots alone.                                                 *)
(***************************************************************************)
Holders == {j \in Jobs : pc[j] \in Holding}

\* j gives its slot back.
GivesBack(j) ==
    /\ j \in Holders /\ Holders' = Holders \ {j}
    /\ permits' = permits + 1

Keeps == Holders' = Holders /\ permits' = permits

LEMMA EndGivesBack ==
    ASSUME ThreadsOK, NEW j \in Jobs, EndWorker(j), pc[j] \in Holding
    PROVE  GivesBack(j)
BY DEF ThreadsOK, EndWorker, GivesBack, Holders, Holding, Working

LEMMA GotoKeeps ==
    ASSUME ThreadsOK, NEW j \in Jobs, pc[j] \in Holding,
           NEW at \in Holding, Goto(j, at)
    PROVE  Keeps
BY DEF Goto, Keeps, Holders

LEMMA WorkerSlots ==
    ASSUME TypeOK, NEW j \in Jobs, WorkerStep(j) \/ WorkerRaises(j)
    PROVE  Keeps \/ GivesBack(j)
<1>0. ThreadsOK
  BY DEF TypeOK
<1>1. ASSUME EndWorker(j), pc[j] \in Working \cup {"init"}
      PROVE  GivesBack(j)
  BY <1>0, <1>1, EndGivesBack DEF Holding
<1>2. ASSUME NEW at \in Working, Goto(j, at), pc[j] \in Working \cup {"init"}
      PROVE  Keeps
  BY <1>0, <1>2, GotoKeeps DEF Holding
<1>3. ASSUME NEW ok \in BOOLEAN, InitJob(j, ok)
      PROVE  Keeps \/ GivesBack(j)
  BY <1>1, <1>2, <1>3 DEF InitJob, At, Working, FinalizeFailed
<1>4. ASSUME NEW ok \in BOOLEAN, CheckHealthGate(j, ok)
      PROVE  Keeps \/ GivesBack(j)
  BY <1>1, <1>2, <1>4 DEF CheckHealthGate, At, Working, FinalizeFailed
<1>5. ASSUME NEW ok \in BOOLEAN, CapturePreWipeState(j, ok)
      PROVE  Keeps \/ GivesBack(j)
  BY <1>1, <1>2, <1>5 DEF CapturePreWipeState, At, Working, FinalizeFailed
<1>6. ASSUME NEW ok \in BOOLEAN, PrepareEraseCommand(j, ok)
      PROVE  Keeps \/ GivesBack(j)
  BY <1>1, <1>2, <1>6 DEF PrepareEraseCommand, At, Working, FinalizeFailed
<1>7. ASSUME NEW ok \in BOOLEAN, Spawn(j, ok)
      PROVE  Keeps \/ GivesBack(j)
  BY <1>1, <1>2, <1>7 DEF Spawn, At, Working, FinalizeFailed
<1>8. ASSUME Register(j)
      PROVE  Keeps \/ GivesBack(j)
  BY <1>8 DEF Register, At, ThreadsOK, Keeps, Holders, Holding, Working
<1>9. ASSUME ReportProgress(j)
      PROVE  Keeps \/ GivesBack(j)
  BY <1>9 DEF ReportProgress, Keeps, Holders
<1>10. ASSUME StopErase(j)
      PROVE  Keeps \/ GivesBack(j)
  BY <1>1, <1>2, <1>10 DEF StopErase, At, Working
<1>16. ASSUME NEW ok \in BOOLEAN, Stopped(j, ok)
      PROVE  Keeps \/ GivesBack(j)
  BY <1>1, <1>16 DEF Stopped, At, Working, FinalizeFailed, Interrupt
<1>11. ASSUME Reap(j)
      PROVE  Keeps \/ GivesBack(j)
  BY <1>2, <1>11 DEF Reap, At, Working, FinalizeFailed
<1>12. ASSUME NEW ok \in BOOLEAN, PollFirmware(j, ok)
      PROVE  Keeps \/ GivesBack(j)
  BY <1>1, <1>2, <1>12
     DEF PollFirmware, At, Working, FinalizeFailed, Interrupt
<1>13. ASSUME VerifySanitization(j)
      PROVE  Keeps \/ GivesBack(j)
  BY <1>1, <1>2, <1>13 DEF VerifySanitization, At, Working, FinalizeFailed
<1>14. ASSUME NEW ok \in BOOLEAN, FinalizeJob(j, ok)
      PROVE  Keeps \/ GivesBack(j)
  BY <1>1, <1>14 DEF FinalizeJob, At, Working, FinalizeFailed
<1>15. ASSUME WorkerRaises(j)
      PROVE  Keeps \/ GivesBack(j)
  BY <1>1, <1>15 DEF WorkerRaises
<1> QED
  BY <1>3, <1>4, <1>5, <1>6, <1>7, <1>8, <1>9, <1>10, <1>11, <1>12, <1>13,
     <1>14, <1>15, <1>16 DEF WorkerStep

LEMMA SlotArithmetic ==
    ASSUME TypeOK, PermitsConserved, NEW j \in Jobs,
           \/ GivesBack(j)
           \/ /\ j \notin Holders /\ Holders' = Holders \cup {j}
              /\ permits' = permits - 1
    PROVE  PermitsConserved'
<1>1. IsFiniteSet(Holders)
  BY ErasableAssumption, FS_Subset DEF Holders
<1>2. Cardinality(Holders) \in Nat /\ permits \in Nat /\ MaxWipes \in Nat
  BY <1>1, FS_CardinalityType, ErasableAssumption DEF TypeOK, ThreadsOK
<1>3. permits + Cardinality(Holders) = MaxWipes
  BY DEF PermitsConserved, Holders
<1>4. CASE GivesBack(j)
  <2>1. Cardinality(Holders') = Cardinality(Holders) - 1
    BY <1>1, <1>4, FS_RemoveElement DEF GivesBack
  <2> QED
    BY <1>2, <1>4, <2>1 DEF GivesBack, PermitsConserved, Holders
<1>5. CASE /\ j \notin Holders /\ Holders' = Holders \cup {j}
           /\ permits' = permits - 1
  <2>1. Cardinality(Holders') = Cardinality(Holders) + 1
    BY <1>1, <1>5, FS_AddElement
  <2> QED
    BY <1>2, <1>5, <2>1 DEF PermitsConserved, Holders
<1> QED
  BY <1>4, <1>5

LEMMA SlotsPreserved ==
    ASSUME TypeOK, RequestInv, PermitsConserved, [Next]_vars
    PROVE  PermitsConserved'
<1>0. ThreadsOK /\ (Keeps => PermitsConserved')
  BY DEF TypeOK, Keeps, PermitsConserved, Holders
<1>1. ASSUME NEW r \in Requests, NEW j \in Jobs, Publish(r, j)
      PROVE  PermitsConserved'
  <2>1. /\ j \notin Holders /\ Holders' = Holders \cup {j}
        /\ permits' = permits - 1
    BY <1>0, <1>1 DEF Publish, Unborn, ThreadsOK, Holders, Holding, Working
  <2> QED
    BY <2>1, SlotArithmetic
<1>2. ASSUME NEW r \in Requests, NEW j \in Jobs, NEW ok \in BOOLEAN,
             WriteJob(r, j, ok)
      PROVE  PermitsConserved'
  <2>1. pc[j] \in Holding
    BY <1>2 DEF WriteJob, RequestInv, Holding
  <2>2. Keeps \/ GivesBack(j)
    BY <1>0, <1>2, <2>1, GotoKeeps, EndGivesBack DEF WriteJob, Holding
  <2> QED
    BY <1>0, <2>2, SlotArithmetic
<1>3. ASSUME NEW j \in Jobs, WorkerStep(j) \/ WorkerRaises(j)
      PROVE  PermitsConserved'
  BY <1>0, <1>3, WorkerSlots, SlotArithmetic
<1>4. CASE Die
  <2>1. Holders' = {} /\ permits' = MaxWipes
    BY <1>4 DEF Die, Holders, Holding, Working
  <2>2. Cardinality(Holders') = 0
    BY <2>1, FS_EmptySet
  <2> QED
    BY <2>1, <2>2, ErasableAssumption DEF PermitsConserved, Holders
<1>5. CASE \/ \E r \in Requests, b \in Batches : Accept(r, b)
           \/ \E r \in Requests, j \in Jobs : ReadJob(r, j)
           \/ \E j \in Jobs : ProcessExits(j) \/ Clock(j) \/ TerminateCancelled(j)
           \/ \E j \in Jobs : KillCheck(j) \/ SweepTest(j) \/ SweepLoad(j)
           \/ \E j \in Jobs, ok \in BOOLEAN :
                 CancelJob(j, ok) \/ SweepWrite(j, ok) \/ SweepReap(j, ok)
           \/ \E j \in Jobs, ok \in BOOLEAN : Recover(j, ok)
           \/ KillSnapshot \/ KillApply \/ SweepRows
           \/ SweepCollect \/ SweepRest \/ SetPolicy
           \/ Signal \/ Restart \/ RecoveryDone
           \/ \E j \in Jobs, done \in SUBSET Jobs : KillApplyRaises(done, j)
           \/ UNCHANGED vars
  <2>1. UNCHANGED <<pc, permits>>
    BY <1>5
       DEF Accept, ReadJob, ProcessExits, Clock, CancelJob,
           TerminateCancelled, KillSnapshot, KillCheck, KillApply,
           KillApplyRaises, SweepRows, SweepTest, SweepLoad, SweepWrite,
           SweepCollect, SweepReap, SweepRest, SetPolicy, Signal, Restart,
           Recover, RecoveryDone, SweepUnchanged, vars, memory, threads,
           admin, env
  <2> QED
    BY <1>0, <2>1 DEF Keeps, Holders
<1> QED
  BY <1>1, <1>2, <1>3, <1>4, <1>5
     DEF Next, StartErase, NextStep, KillProceed, Sweep, Startup

\* No slot of the wipe semaphore leaks or is released twice, along any path
\* through start_erase, the worker thread and their exceptions.
THEOREM SlotsConserved == Spec => []PermitsConserved
<1>1. Init => PermitsConserved
  <2> SUFFICES ASSUME Init PROVE PermitsConserved
    OBVIOUS
  <2>1. Holders = {} /\ permits = MaxWipes
    BY DEF Init, Holders, Holding, Working
  <2>2. Cardinality(Holders) = 0
    BY <2>1, FS_EmptySet
  <2> QED
    BY <2>1, <2>2, ErasableAssumption DEF PermitsConserved, Holders
<1>2. IInv /\ PermitsConserved /\ [Next]_vars => PermitsConserved'
  BY SlotsPreserved DEF IInv
<1> QED
  BY <1>1, <1>2, AlwaysIInv, PTL DEF Spec

(***************************************************************************)
(* Until something is raised, the row of a listed job mirrors its          *)
(* dictionary.  The mirror needs to know what the dictionary says at each  *)
(* place, what start_erase is about to write, and which rows the sweep has *)
(* in hand.                                                                *)
(***************************************************************************)
Mirrored(j) ==
    /\ j \in listed =>
        /\ pc[j] = "starting" => dict[j] = Queued /\ row[j] = Nothing
        /\ pc[j] # "starting" => row[j] = dict[j]
        /\ pc[j] = "init" => dict[j] = Queued
        /\ pc[j] \in Working => dict[j].status = "running"
    /\ pc[j] = "starting" /\ j \notin listed => row[j].status = "failed"

\* The image that is written late is that of the dictionary, or its job has
\* been withdrawn.
Imaged ==
    \A r \in Requests : req[r].at = "writing" =>
        \A j \in req[r].job : j \in listed => req[r].image = Queued

Loaded == sweep.at = "loaded" => \A j \in sweep.job : row[j].status \in Live

\* A process that is down or recovering has neither jobs nor a sweep.
Forgotten == server \in {"down", "recovering"} => listed = {} /\ sweep = NoSweep

Faultless == (\A j \in Jobs : Mirrored(j)) /\ Imaged /\ Loaded

MirrorInv == Forgotten /\ (faults = 0 => Faultless)

\* What a worker leaves of a listed job when persist_job does not raise.
Saves(j) ==
    \/ /\ pc[j] = "init" /\ pc'[j] = "gate"
       /\ dict'[j] = [dict[j] EXCEPT !.status = "running"] /\ row'[j] = dict'[j]
    \/ /\ pc[j] \in Working /\ pc'[j] \in Working \cup {"done"}
       /\ dict'[j] = dict[j] /\ row'[j] \in {row[j], dict[j]}
    \/ /\ pc[j] \in Working /\ pc'[j] = "done"
       /\ dict'[j].status \in Final /\ row'[j] = dict'[j]

LEMMA UpdateSaves ==
    ASSUME MemoryOK, StoreOK, NEW j \in Jobs, NEW d, NEW ok \in BOOLEAN,
           Update(j, d, ok), faults' = faults
    PROVE  ok /\ (j \in listed => dict'[j] = d /\ row'[j] = d)
BY DEF Update, Persist, Outcome, MemoryOK, StoreOK

LEMMA FailedSaves ==
    ASSUME MemoryOK, StoreOK, ThreadsOK, NEW j \in listed, NEW ok \in BOOLEAN,
           faults' = faults, pc[j] \in Working,
           FinalizeFailed(j, ok) \/ Interrupt(j, ok)
    PROVE  Saves(j)
<1>0. j \in Jobs /\ dict[j] \in JobRecord
  BY DEF MemoryOK
<1>1. CASE FinalizeFailed(j, ok)
  BY <1>0, <1>1, UpdateSaves, EndWorkerEffect, FailedFacts DEF FinalizeFailed, Saves, Final
<1>2. CASE Interrupt(j, ok)
  <2>1. [dict[j] EXCEPT !.status = "interrupted", !.cancelled = FALSE].status = "interrupted"
    BY <1>0 DEF JobRecord
  <2> QED
    BY <1>0, <1>2, <2>1, UpdateSaves, EndWorkerEffect DEF Interrupt, Saves, Final
<1> QED
  BY <1>1, <1>2

\* A phase that goes on, or ends, without a write of its own.
LEMMA MovesSave ==
    ASSUME ThreadsOK, NEW j \in Jobs, UNCHANGED <<dict, row>>, pc[j] \in Working,
           EndWorker(j) \/ \E at \in Working : Goto(j, at)
    PROVE  Saves(j)
BY EndWorkerEffect, GotoEffect DEF Saves

LEMMA WorkerSaves ==
    ASSUME TypeOK, NEW j \in listed, WorkerStep(j) \/ WorkerRaises(j), faults' = faults
    PROVE  Saves(j)
<1>0. MemoryOK /\ StoreOK /\ ThreadsOK /\ j \in Jobs /\ faults \in Nat
  BY DEF TypeOK, MemoryOK, StoreOK
<1>1. ASSUME NEW ok \in BOOLEAN, InitJob(j, ok) PROVE Saves(j)
  BY <1>0, <1>1, UpdateSaves, GotoEffect DEF InitJob, At, Saves
<1>2. ASSUME NEW ok \in BOOLEAN,
             CheckHealthGate(j, ok) \/ CapturePreWipeState(j, ok)
      PROVE  Saves(j)
  <2>1. pc[j] \in Working
    BY <1>2 DEF CheckHealthGate, CapturePreWipeState, At, Working
  <2>2. CASE Update(j, dict[j], ok) /\ \E at \in Working : Goto(j, at)
    BY <1>0, <2>1, <2>2, UpdateSaves, GotoEffect DEF Saves
  <2>3. CASE FinalizeFailed(j, ok)
    BY <1>0, <2>1, <2>3, FailedSaves
  <2>4. CASE UNCHANGED <<dict, row>> /\ \E at \in Working : Goto(j, at)
    BY <1>0, <2>1, <2>4, MovesSave
  <2>5. Update(j, dict[j], ok) => ok
    BY <1>0, UpdateSaves
  <2> QED
    BY <1>2, <2>2, <2>3, <2>4, <2>5 DEF CheckHealthGate, CapturePreWipeState, Working
<1>3. ASSUME NEW ok \in BOOLEAN,
             PrepareEraseCommand(j, ok) \/ Spawn(j, ok) \/ PollFirmware(j, ok)
      PROVE  Saves(j)
  <2>1. pc[j] \in Working
    BY <1>3 DEF PrepareEraseCommand, Spawn, PollFirmware, At, Working
  <2>2. CASE FinalizeFailed(j, ok) \/ Interrupt(j, ok)
    BY <1>0, <2>1, <2>2, FailedSaves
  <2>3. CASE UNCHANGED <<dict, row>> /\ \E at \in Working : Goto(j, at)
    BY <1>0, <2>1, <2>3, MovesSave
  <2> QED
    BY <1>3, <2>2, <2>3 DEF PrepareEraseCommand, Spawn, PollFirmware, Working
<1>4. ASSUME \/ Register(j) \/ ReportProgress(j) \/ StopErase(j)
             \/ Reap(j) \/ VerifySanitization(j)
      PROVE  Saves(j)
  <2>1. pc[j] \in Working /\ UNCHANGED <<dict, row>>
    BY <1>4 DEF Register, ReportProgress, StopErase, Reap, VerifySanitization,
                At, Working
  <2>2. pc'[j] \in Working \cup {"done"}
    BY <1>0, <1>4, <2>1, GotoEffect, EndWorkerEffect
       DEF Register, ReportProgress, StopErase, Reap, VerifySanitization,
           Working, ThreadsOK
  <2> QED
    BY <2>1, <2>2 DEF Saves
<1>5. ASSUME NEW ok \in BOOLEAN, Stopped(j, ok) PROVE Saves(j)
  <2>1. pc[j] \in Working
    BY <1>5 DEF Stopped, At, Working
  <2> QED
    BY <1>0, <1>5, <2>1, FailedSaves DEF Stopped
<1>6. ASSUME NEW ok \in BOOLEAN, FinalizeJob(j, ok) PROVE Saves(j)
  <2>1. pc[j] \in Working /\ EndWorker(j)
    BY <1>6 DEF FinalizeJob, At, Working
  <2>2. PICK s \in Final, c \in {"pass", "fail", "none"} :
           Update(j, [status |-> s, cert |-> c, cancelled |-> FALSE], ok)
    BY <1>6 DEF FinalizeJob, Final
  <2> QED
    BY <1>0, <2>1, <2>2, UpdateSaves, EndWorkerEffect DEF Saves
<1>7. ~WorkerRaises(j)
  BY <1>0 DEF WorkerRaises
<1> QED
  BY <1>1, <1>2, <1>3, <1>4, <1>5, <1>6, <1>7 DEF WorkerStep

\* A job that cancel, kill-all or the sweep withdraws, and one that is spared.
Withdrawn(i) ==
    /\ i \in listed /\ i \notin listed' /\ dict[i].status \in Live
    /\ row'[i] = dict'[i] /\ row'[i].status = "failed"

Spared(i) == (i \in listed' <=> i \in listed) /\ dict'[i] = dict[i] /\ row'[i] = row[i]

LEMMA WithdrawsSave ==
    ASSUME TypeOK, Withdraws, faults' = faults
    PROVE  /\ \A i \in Jobs : Withdrawn(i) \/ Spared(i)
           /\ sweep'.at = sweep.at /\ server' = server
           /\ pc' = pc /\ listed' \subseteq listed
<1>0. MemoryOK /\ StoreOK /\ SweepOK /\ faults \in Nat
  BY DEF TypeOK, StoreOK
<1>1. ASSUME NEW j \in Jobs, NEW ok \in BOOLEAN, CancelJob(j, ok)
      PROVE  \A i \in Jobs : Withdrawn(i) \/ Spared(i)
  <2> DEFINE d == [dict[j] EXCEPT !.status = "failed", !.cancelled = TRUE]
  <2>1. d.status = "failed"
    BY <1>0, dict[j] \in JobRecord DEF MemoryOK, JobRecord
  <2>2. j \in listed /\ dict[j].status \in Live /\ Update(j, d, ok)
    BY <1>1 DEF CancelJob, Cancellable
  <2>3. ok /\ dict'[j] = d /\ row'[j] = d
    BY <1>0, <2>2, UpdateSaves
  <2>4. \A i \in Jobs \ {j} : dict'[i] = dict[i] /\ row'[i] = row[i]
    BY <1>0, <2>2 DEF Update, Persist, MemoryOK, StoreOK
  <2>5. listed' = listed \ {j}
    BY <1>1, <2>3 DEF CancelJob
  <2> QED
    BY <2>1, <2>2, <2>3, <2>4, <2>5 DEF Withdrawn, Spared
<1>2. ASSUME NEW j \in Jobs, NEW ok \in BOOLEAN, SweepReap(j, ok)
      PROVE  \A i \in Jobs : Withdrawn(i) \/ Spared(i)
  <2>1. CASE Overdue(j)
    <3>1. ok
      BY <1>0, <1>2, <2>1 DEF SweepReap, Outcome
    <3>2. /\ dict'[j] = Failed(j) /\ row'[j] = dict'[j]
          /\ \A i \in Jobs \ {j} : dict'[i] = dict[i] /\ row'[i] = row[i]
          /\ listed' = listed \ {j}
      BY <1>0, <1>2, <2>1, <3>1 DEF SweepReap, MemoryOK, StoreOK
    <3> QED
      BY <1>0, <2>1, <3>2, FailedFacts DEF Withdrawn, Spared, Overdue, Live
  <2>2. CASE ~Overdue(j)
    BY <1>2, <2>2 DEF SweepReap, Spared
  <2> QED
    BY <2>1, <2>2
<1>3. ASSUME KillApply PROVE \A i \in Jobs : Withdrawn(i) \/ Spared(i)
  <2>1. \A i \in StillLive(kill.doomed) :
           /\ dict'[i] = Failed(i) /\ row'[i] = dict'[i]
           /\ i \in Jobs /\ i \in listed /\ dict[i].status \in Live
    BY <1>0, <1>3 DEF KillApply, StillLive, MemoryOK
  <2>2. \A i \in Jobs \ StillLive(kill.doomed) : dict'[i] = dict[i] /\ row'[i] = row[i]
    BY <1>3 DEF KillApply
  <2>3. listed' = listed \ StillLive(kill.doomed)
    BY <1>3 DEF KillApply
  <2>4. \A i \in StillLive(kill.doomed) : Withdrawn(i)
    BY <1>0, <2>1, <2>3, FailedFacts DEF Withdrawn
  <2>5. \A i \in Jobs \ StillLive(kill.doomed) : Spared(i)
    BY <2>2, <2>3 DEF Spared
  <2> QED
    BY <2>4, <2>5
<1>4. ASSUME NEW j \in Jobs, NEW done \in SUBSET Jobs PROVE ~KillApplyRaises(done, j)
  BY <1>0 DEF KillApplyRaises
<1>5. sweep'.at = sweep.at /\ server' = server
  BY <1>0, <1>4
     DEF Withdraws, CancelJob, SweepReap, KillApply, SweepUnchanged, SweepOK, env
<1>6. pc' = pc /\ listed' \subseteq listed
  BY WithdrawEffects DEF WithdrawEffect
<1> QED
  BY <1>1, <1>2, <1>3, <1>4, <1>5, <1>6 DEF Withdraws

LEMMA ForgottenPreserved ==
    ASSUME IInv, Forgotten, [Next]_vars
    PROVE  Forgotten'
<1>0. MemoryOK /\ SweepOK
  BY DEF IInv, TypeOK
<1>1. CASE Running /\ Running'
  BY <1>1 DEF Forgotten, Running
<1>2. CASE Die
  BY <1>2 DEF Die, Forgotten
<1>3. CASE Startup
  BY <1>3 DEF Startup, Restart, Recover, RecoveryDone, Forgotten, memory
<1>4. CASE \E j \in Jobs : ProcessExits(j)
  BY <1>4 DEF ProcessExits, Forgotten, memory, env
<1>5. CASE UNCHANGED vars
  BY <1>5 DEF Forgotten, vars, memory, env
<1>6. CASE \/ StartErase \/ KillSnapshot \/ KillProceed \/ Sweep
           \/ SetPolicy \/ Signal
           \/ \E j \in Jobs :
                \/ WorkerStep(j) \/ WorkerRaises(j) \/ Clock(j)
                \/ TerminateCancelled(j)
                \/ \E ok \in BOOLEAN : CancelJob(j, ok)
  <2>1. CASE StartErase \/ KillSnapshot \/ KillProceed
    BY <2>1, <1>1
       DEF StartErase, NextStep, Accept, Publish, ReadJob, WriteJob, KillSnapshot,
           KillProceed, KillCheck, KillApply, KillApplyRaises, Running, env
  <2>2. CASE Sweep
    BY <2>2, <1>1
       DEF Sweep, SweepRows, SweepCollect, SweepRest, SweepTest, SweepLoad,
           SweepWrite, SweepReap, SweepUnchanged, Running, env
  <2>3. CASE SetPolicy \/ Signal
    BY <2>3, <1>1 DEF SetPolicy, Signal, Running
  <2>4. ASSUME NEW j \in Jobs, WorkerStep(j) \/ WorkerRaises(j) PROVE Forgotten'
    <3>1. Running
      BY <2>4
         DEF WorkerStep, Register, ReportProgress, Reap, VerifySanitization, InitJob,
             CheckHealthGate, CapturePreWipeState, PrepareEraseCommand, Spawn,
             StopErase, Stopped, PollFirmware, FinalizeJob, WorkerRaises, At
    <3>2. server' = server
      BY <2>4
         DEF WorkerStep, Register, ReportProgress, Reap, VerifySanitization, InitJob,
             CheckHealthGate, CapturePreWipeState, PrepareEraseCommand, Spawn,
             StopErase, Stopped, PollFirmware, FinalizeJob, WorkerRaises, WorkerUnchanged, env
    <3> QED
      BY <3>1, <3>2, <1>1 DEF Running
  <2>5. ASSUME NEW j \in Jobs, NEW ok \in BOOLEAN,
               Clock(j) \/ TerminateCancelled(j) \/ CancelJob(j, ok)
        PROVE  Forgotten'
    BY <2>5, <1>1 DEF Clock, TerminateCancelled, CancelJob, Running, env
  <2> QED
    BY <1>6, <2>1, <2>2, <2>3, <2>4, <2>5
<1> QED
  BY <1>2, <1>3, <1>4, <1>5, <1>6 DEF Next

\* Faults are counted, never forgotten.
LEMMA FaultsGrow ==
    ASSUME TypeOK, [Next]_vars
    PROVE  faults' = faults \/ faults' = faults + 1
<1>1. ASSUME NEW j \in Jobs, WorkerStep(j) \/ WorkerRaises(j)
      PROVE  faults' = faults \/ faults' = faults + 1
  BY <1>1
     DEF WorkerStep, Register, ReportProgress, Reap, VerifySanitization, InitJob,
         CheckHealthGate, CapturePreWipeState, PrepareEraseCommand, Spawn,
         StopErase, Stopped, PollFirmware, FinalizeJob, WorkerRaises, FinalizeFailed,
         Interrupt, Update, Persist, Outcome
<1>2. CASE StartErase \/ KillSnapshot \/ KillProceed
  BY <1>2
     DEF StartErase, NextStep, Accept, Publish, ReadJob, WriteJob, KillSnapshot,
         KillProceed, KillCheck, KillApply, KillApplyRaises, Outcome
<1>3. CASE Sweep
  BY <1>3
     DEF Sweep, SweepRows, SweepCollect, SweepRest, SweepTest, SweepLoad,
         SweepWrite, SweepReap, Outcome
<1>4. CASE SetPolicy \/ Signal \/ Die \/ Startup \/ UNCHANGED vars
  BY <1>4 DEF SetPolicy, Signal, Die, Startup, Restart, RecoveryDone, Recover, Outcome, vars
<1>5. ASSUME NEW j \in Jobs, NEW ok \in BOOLEAN,
             ProcessExits(j) \/ Clock(j) \/ TerminateCancelled(j) \/ CancelJob(j, ok)
      PROVE  faults' = faults \/ faults' = faults + 1
  BY <1>5 DEF ProcessExits, Clock, TerminateCancelled, CancelJob, Update, Persist, Outcome
<1> QED
  BY <1>1, <1>2, <1>3, <1>4, <1>5 DEF Next

\* A step that raises nothing keeps memory and table in step.
LEMMA MirrorPreserved ==
    ASSUME IInv, Forgotten, Faultless, faults' = faults, [Next]_vars
    PROVE  Faultless'
<1>0. /\ MemoryOK /\ StoreOK /\ ThreadsOK /\ RequestsOK /\ SweepOK
      /\ RequestInv /\ BirthInv /\ SweepInv /\ faults \in Nat
      /\ (\A j \in Jobs : Mirrored(j)) /\ Imaged /\ Loaded
  BY DEF IInv, TypeOK, StoreOK, Faultless
<1>1. ASSUME NEW j \in Jobs, WorkerStep(j) \/ WorkerRaises(j) PROVE Faultless'
  <2>1. WorkerMoves(j) /\ WorkerWrites(j) /\ (j \in listed => Saves(j))
    BY <1>1, WorkerEffects, WorkerSaves DEF IInv, WorkerEffect
  <2>2. Mirrored(j)'
    <3>1. j \in listed => pc[j] # "starting" /\ dict[j] \in JobRecord
      BY <1>0, <2>1 DEF WorkerMoves, Working, MemoryOK
    <3>2. pc'[j] # "starting" /\ pc'[j] # "init" /\ listed' = listed
      BY <2>1 DEF WorkerMoves, Working
    <3> QED
      BY <1>0, <2>1, <3>1, <3>2 DEF Saves, Mirrored, Working, Queued, Nothing, JobRecord
  <2>3. \A i \in Jobs \ {j} : Mirrored(i)'
    BY <1>0, <2>1 DEF WorkerMoves, WorkerWrites, Mirrored
  <2>4. Imaged' /\ Loaded'
    BY <1>0, <2>1 DEF WorkerMoves, WorkerWrites, Imaged, Loaded, SweepInv, SweepOK
  <2> QED
    BY <2>2, <2>3, <2>4 DEF Faultless
<1>2. CASE Withdraws
  <2>1. /\ \A i \in Jobs : Withdrawn(i) \/ Spared(i)
        /\ sweep'.at = sweep.at /\ sweep'.job = sweep.job /\ req' = req
        /\ pc' = pc /\ listed' \subseteq listed
    BY <1>2, WithdrawsSave, WithdrawEffects DEF IInv, WithdrawEffect
  <2>2. \A i \in Jobs : Mirrored(i)'
    BY <1>0, <2>1 DEF Withdrawn, Spared, Mirrored
  <2>3. Imaged'
    BY <1>0, <2>1 DEF Imaged
  <2>4. Loaded'
    BY <1>0, <2>1 DEF Loaded, SweepInv, SweepOK, Withdrawn, Spared
  <2> QED
    BY <2>2, <2>3, <2>4 DEF Faultless
<1>3. ASSUME NEW r \in Requests, NEW j \in Jobs, Publish(r, j) PROVE Faultless'
  <2>1. /\ pc[j] = "unborn" /\ row[j] = Nothing /\ UNCHANGED <<row, sweep>>
        /\ dict' = [dict EXCEPT ![j] = Queued] /\ pc' = [pc EXCEPT ![j] = "starting"]
        /\ listed' = listed \cup {j}
    BY <1>0, <1>3 DEF Publish, Unborn, BirthInv
  <2>2. Mirrored(j)'
    BY <1>0, <2>1 DEF Mirrored, MemoryOK, ThreadsOK, Working
  <2>3. \A i \in Jobs \ {j} : Mirrored(i)'
    BY <1>0, <2>1 DEF Mirrored, MemoryOK, ThreadsOK
  <2>4. Imaged'
    <3>1. \A q \in Requests : q # r => req'[q] = req[q]
      BY <1>0, <1>3 DEF Publish, RequestsOK
    <3>2. req'[r].at = "published"
      BY <1>0, <1>3 DEF Publish, RequestsOK, RequestRecord
    <3>3. \A q \in Requests : j \notin req[q].job
      BY <1>0, <2>1 DEF BirthInv
    <3> QED
      BY <1>0, <2>1, <3>1, <3>2, <3>3 DEF Imaged
  <2>5. Loaded'
    BY <1>0, <2>1 DEF Loaded
  <2> QED
    BY <2>2, <2>3, <2>4, <2>5 DEF Faultless
<1>4. ASSUME NEW r \in Requests, NEW j \in Jobs, ReadJob(r, j) PROVE Faultless'
  <2>1. UNCHANGED <<dict, listed, row, pc, sweep>>
    BY <1>4 DEF ReadJob, memory, threads
  <2>2. \A q \in Requests : q # r => req'[q] = req[q]
    BY <1>0, <1>4 DEF ReadJob, RequestsOK
  <2>3. req[r].job = {j} /\ req'[r].job = {j} /\ req'[r].image = dict[j]
    BY <1>0, <1>4 DEF ReadJob, RequestsOK, RequestRecord
  <2>4. j \in listed => dict[j] = Queued
    BY <1>0, <2>3 DEF Mirrored, RequestInv
  <2>5. Imaged'
    BY <1>0, <2>1, <2>2, <2>3, <2>4 DEF Imaged
  <2> QED
    BY <1>0, <2>1, <2>5 DEF Faultless, Mirrored, Loaded
<1>5. ASSUME NEW r \in Requests, NEW j \in Jobs, NEW ok \in BOOLEAN, WriteJob(r, j, ok)
      PROVE  Faultless'
  <2>1. WriteEffect(r, j)
    BY <1>5, WriteEffects DEF IInv
  <2>2. ok /\ row' = [row EXCEPT ![j] = req[r].image] /\ pc'[j] = "init"
    BY <1>0, <1>5, GotoEffect DEF WriteJob, Outcome
  <2>3. j \in listed => dict[j] = Queued /\ req[r].image = Queued
    BY <1>0, <2>1 DEF WriteEffect, Mirrored, Imaged
  <2>4. Mirrored(j)'
    BY <1>0, <2>1, <2>2, <2>3 DEF WriteEffect, Mirrored, StoreOK, Working
  <2>5. \A i \in Jobs \ {j} : Mirrored(i)'
    BY <1>0, <2>1 DEF WriteEffect, Mirrored
  <2>6. Imaged'
    BY <1>0, <2>1 DEF WriteEffect, Imaged
  <2>7. Loaded'
    <3>1. sweep.at = "loaded" => j \notin sweep.job
      BY <1>0, <2>1 DEF WriteEffect, Mirrored, Loaded, SweepInv, Live
    <3> QED
      BY <1>0, <2>1, <3>1 DEF WriteEffect, Loaded, SweepOK
  <2> QED
    BY <2>4, <2>5, <2>6, <2>7 DEF Faultless
<1>6. ASSUME NEW j \in Jobs, NEW ok \in BOOLEAN, SweepWrite(j, ok) \/ Recover(j, ok)
      PROVE  Faultless'
  <2>1. ok /\ row' = [row EXCEPT ![j] = RowFailed(j)]
    BY <1>0, <1>6 DEF SweepWrite, Recover, Outcome
  <2>2. /\ j \notin listed /\ UNCHANGED <<dict, listed, pc, req>>
        /\ sweep'.at # "loaded"
    <3>1. CASE SweepWrite(j, ok)
      <4>1. j \notin listed
        BY <1>0, <3>1 DEF SweepWrite, SweepInv
      <4> QED
        BY <1>0, <3>1, <4>1 DEF SweepWrite, SweepUnchanged, SweepOK, threads
    <3>2. CASE Recover(j, ok)
      BY <3>2 DEF Recover, Forgotten, NoSweep, memory, threads
    <3> QED
      BY <1>6, <3>1, <3>2
  <2>3. row'[j].status = "failed" /\ \A i \in Jobs \ {j} : row'[i] = row[i]
    BY <1>0, <2>1 DEF RowFailed, StoreOK, JobRecord
  <2> QED
    BY <1>0, <2>2, <2>3 DEF Faultless, Mirrored, Imaged, Loaded
<1>7. CASE \/ SweepRows \/ SweepCollect \/ SweepRest
           \/ \E j \in Jobs : SweepTest(j) \/ SweepLoad(j)
  <2>1. UNCHANGED <<dict, listed, row, pc, req>>
    BY <1>7 DEF SweepRows, SweepCollect, SweepRest, SweepTest, SweepLoad, SweepUnchanged, threads
  <2>2. Loaded'
    <3>1. ASSUME NEW j \in Jobs, SweepLoad(j) PROVE Loaded'
      BY <1>0, <2>1, <3>1 DEF SweepLoad, SweepOK, Loaded
    <3>2. CASE SweepRows \/ SweepCollect \/ SweepRest
      <4>1. sweep'.at \in {"rows", "stuck", "idle"}
        <5>1. SweepRows => sweep'.at = "rows"
          BY DEF SweepRows, NoSweep
        <5>2. SweepCollect => sweep'.at = "stuck"
          BY DEF SweepCollect, NoSweep
        <5>3. SweepRest => sweep'.at = "idle"
          BY DEF SweepRest, NoSweep
        <5> QED
          BY <3>2, <5>1, <5>2, <5>3
      <4> QED
        BY <4>1 DEF Loaded
    <3>3. ASSUME NEW j \in Jobs, SweepTest(j) PROVE Loaded'
      <4>1. sweep'.at \in {"tested", "rows"}
        BY <1>0, <3>3 DEF SweepTest, SweepOK
      <4> QED
        BY <4>1 DEF Loaded
    <3> QED
      BY <1>7, <3>1, <3>2, <3>3
  <2> QED
    BY <1>0, <2>1, <2>2 DEF Faultless, Mirrored, Imaged
<1>8. CASE Die
  <2>1. \A i \in Jobs : pc'[i] # "starting" /\ i \notin listed'
    BY <1>8 DEF Die
  <2>2. \A r \in Requests : req'[r].at = "idle"
    BY <1>8 DEF Die, Idle
  <2>3. sweep'.at = "idle"
    BY <1>8 DEF Die, NoSweep
  <2> QED
    BY <2>1, <2>2, <2>3 DEF Faultless, Mirrored, Imaged, Loaded
<1>9. ASSUME NEW r \in Requests, NEW b \in Batches, Accept(r, b) PROVE Faultless'
  <2>1. UNCHANGED <<dict, listed, row, pc, sweep>>
    BY <1>9 DEF Accept, memory, threads
  <2>2. (\A q \in Requests : q # r => req'[q] = req[q]) /\ req'[r].at = "acquire"
    BY <1>0, <1>9 DEF Accept, RequestsOK, Idle
  <2> QED
    BY <1>0, <2>1, <2>2 DEF Faultless, Mirrored, Imaged, Loaded
<1>10. CASE \/ \E j \in Jobs : ProcessExits(j) \/ Clock(j) \/ TerminateCancelled(j)
            \/ \E j \in Jobs : KillCheck(j)
            \/ KillSnapshot \/ SetPolicy \/ Signal \/ Restart \/ RecoveryDone
            \/ UNCHANGED vars
  <2>1. UNCHANGED <<dict, listed, row, pc, sweep, req>>
    BY <1>10
       DEF ProcessExits, Clock, TerminateCancelled, KillCheck, KillSnapshot, SetPolicy,
           Signal, Restart, RecoveryDone, vars, memory, threads
  <2> QED
    BY <1>0, <2>1 DEF Faultless, Mirrored, Imaged, Loaded
<1> QED
  BY <1>1, <1>2, <1>3, <1>4, <1>5, <1>6, <1>7, <1>8, <1>9, <1>10
     DEF Next, StartErase, NextStep, KillProceed, Sweep, Startup, Withdraws

LEMMA AlwaysMirrorInv == Spec => []MirrorInv
<1>1. Init => MirrorInv
  BY DEF Init, MirrorInv, Forgotten, Faultless, Mirrored, Imaged, Loaded, Idle, NoSweep
<1>2. IInv /\ MirrorInv /\ [Next]_vars => MirrorInv'
  <2> SUFFICES ASSUME IInv, MirrorInv, [Next]_vars PROVE MirrorInv'
    OBVIOUS
  <2>1. faults \in Nat /\ (faults' = faults \/ faults' = faults + 1)
    BY FaultsGrow DEF IInv, TypeOK, StoreOK
  <2>2. faults' = 0 => Faultless'
    BY <2>1, MirrorPreserved DEF MirrorInv
  <2> QED
    BY <2>2, ForgottenPreserved DEF MirrorInv
<1> QED
  BY <1>1, <1>2, AlwaysIInv, PTL DEF Spec

\* Until persist_job or a helper first raises, what the API answers from
\* ERASE_JOBS and what the history answers from the table are the same, though
\* start_erase writes the row of a new job late and outside the lock.
THEOREM RowsMirrorMemory == Spec => [](faults = 0 => RowMirrorsMemory)
<1>1. IInv /\ MirrorInv => (faults = 0 => RowMirrorsMemory)
  BY DEF IInv, TypeOK, MemoryOK, MirrorInv, Faultless, Mirrored, RowMirrorsMemory
<1> QED
  BY <1>1, AlwaysIInv, AlwaysMirrorInv, PTL

\* If nothing is raised, a verdict in memory is final: cancel, kill-all, the
\* sweep and the worker each look whether the job still lives before they give
\* it one, and no two of them do so at once.
THEOREM VerdictsFinal == MaxFaults = 0 => (Spec => VerdictFinalInMemory)
<1> SUFFICES ASSUME MaxFaults = 0 PROVE Spec => VerdictFinalInMemory
  OBVIOUS
<1> DEFINE Kept == \A j \in listed :
                      dict[j].status \in Final => dict'[j] \in {dict[j], Nothing}
<1>1. ASSUME IInv, MirrorInv, [Next]_vars PROVE Kept
  <2> USE <1>1
  <2>0. /\ MemoryOK /\ BirthInv /\ faults = 0 /\ faults' = faults
        /\ \A j \in Jobs : Mirrored(j)
    <3>1. faults = 0 /\ faults' = 0
      BY NextIInv DEF IInv, TypeOK, StoreOK
    <3> QED
      BY <3>1 DEF IInv, TypeOK, MirrorInv, Faultless
  <2>1. ASSUME NEW j \in Jobs, WorkerStep(j) \/ WorkerRaises(j) PROVE Kept
    <3>1. WorkerMoves(j) /\ WorkerWrites(j) /\ (j \in listed => Saves(j))
      BY <2>0, <2>1, WorkerEffects, WorkerSaves DEF IInv, WorkerEffect
    <3>2. j \in listed /\ Saves(j) => dict'[j] = dict[j] \/ dict[j].status \notin Final
      BY <2>0 DEF Saves, Mirrored, Queued, Nothing, Final
    <3> QED
      BY <2>0, <3>1, <3>2 DEF WorkerWrites, MemoryOK
  <2>2. CASE Withdraws
    <3>1. \A i \in Jobs : Withdrawn(i) \/ Spared(i)
      BY <2>0, <2>2, WithdrawsSave DEF IInv
    <3> QED
      BY <2>0, <3>1 DEF Withdrawn, Spared, Live, Final, MemoryOK
  <2>3. ASSUME NEW r \in Requests, NEW j \in Jobs, Publish(r, j) PROVE Kept
    BY <2>0, <2>3 DEF Publish, Unborn, BirthInv, MemoryOK
  <2>4. CASE Die
    BY <2>0, <2>4 DEF Die, MemoryOK
  <2>5. CASE \/ \E r \in Requests, b \in Batches : Accept(r, b)
             \/ \E r \in Requests, j \in Jobs : ReadJob(r, j)
             \/ \E r \in Requests, j \in Jobs, ok \in BOOLEAN : WriteJob(r, j, ok)
             \/ \E j \in Jobs : ProcessExits(j) \/ Clock(j) \/ TerminateCancelled(j)
             \/ \E j \in Jobs : KillCheck(j) \/ SweepTest(j) \/ SweepLoad(j)
             \/ \E j \in Jobs, ok \in BOOLEAN : SweepWrite(j, ok) \/ Recover(j, ok)
             \/ KillSnapshot \/ SweepRows \/ SweepCollect \/ SweepRest
             \/ SetPolicy \/ Signal \/ Restart \/ RecoveryDone
             \/ UNCHANGED vars
    <3>1. dict' = dict
      BY <2>5
         DEF Accept, ReadJob, WriteJob, ProcessExits, Clock, TerminateCancelled,
             KillCheck, SweepTest, SweepLoad, SweepWrite, Recover, KillSnapshot,
             SweepRows, SweepCollect, SweepRest, SetPolicy, Signal, Restart,
             RecoveryDone, vars, memory
    <3> QED
      BY <3>1
  <2> QED
    BY <2>1, <2>2, <2>3, <2>4, <2>5
       DEF Next, StartErase, NextStep, KillProceed, Sweep, Startup, Withdraws
<1> QED
  BY <1>1, AlwaysIInv, AlwaysMirrorInv, PTL DEF Spec, VerdictFinalInMemory

(***************************************************************************)
(* The table keeps the promise of JobLedger: each step is a step of the    *)
(* ledger or leaves it as it is.                                           *)
(***************************************************************************)
Gone == {j \in Jobs : pc[j] # "unborn" /\ j \notin listed}

SameStatus(js) == \A i \in js : row'[i].status = row[i].status

LEMMA LedgerStutter ==
    ASSUME SameStatus(Jobs), Gone' = Gone
    PROVE  UNCHANGED Ledger!vars
<1>1. [j \in Jobs |-> row'[j].status] = [j \in Jobs |-> row[j].status]
  BY DEF SameStatus
<1> QED
  BY <1>1 DEF Ledger!vars, Gone

LEMMA LedgerAdvance ==
    ASSUME NEW j \in Jobs, NEW from, NEW to, SameStatus(Jobs \ {j}), Gone' = Gone,
           row[j].status = from, row'[j].status = to
    PROVE  Ledger!Advance(j, from, to)
<1>1. [i \in Jobs |-> row'[i].status]
         = [[i \in Jobs |-> row[i].status] EXCEPT ![j] = to]
  BY DEF SameStatus
<1> QED
  BY <1>1 DEF Ledger!Advance, Gone

LEMMA LedgerWithdraw ==
    ASSUME NEW js \in SUBSET (Jobs \ Gone), NEW refused \in SUBSET js,
           Gone' = Gone \cup js, SameStatus(Jobs \ refused),
           \A i \in refused : /\ row[i].status \in Live \cup {"absent"}
                              /\ row'[i].status = "failed"
    PROVE  [Ledger!Next]_(Ledger!vars)
<1>1. [i \in Jobs |-> row'[i].status]
         = [i \in Jobs |-> IF i \in refused THEN "failed"
                           ELSE [k \in Jobs |-> row[k].status][i]]
  BY DEF SameStatus
<1>2. refused \in SUBSET {i \in js : [k \in Jobs |-> row[k].status][i]
                                        \in Ledger!Open \cup {"absent"}}
  BY DEF Ledger!Open, Live
<1>3. CASE js # {}
  <2>1. Ledger!Withdraw(js)
    BY <1>1, <1>2, <1>3 DEF Ledger!Withdraw, Gone
  <2> QED
    BY <2>1 DEF Ledger!Next, Gone
<1>4. CASE js = {}
  BY <1>4, LedgerStutter
<1> QED
  BY <1>3, <1>4

\* One row moves, of a job that the server still works on, or of one that is gone.
LEMMA LedgerMoves ==
    ASSUME NEW j \in Jobs, SameStatus(Jobs \ {j}), Gone' = Gone,
           \/ row'[j].status = row[j].status
           \/ /\ j \notin Gone
              /\ \/ row[j].status = "absent" /\ row'[j].status = "queued"
                 \/ row[j].status = "queued" /\ row'[j].status = "running"
                 \/ row[j].status = "running" /\ row'[j].status \in Final
           \/ /\ j \in Gone
              /\ \/ row[j].status \in Live /\ row'[j].status = "failed"
                 \/ row[j].status = "failed" /\ row'[j].status = "queued"
    PROVE  [Ledger!Next]_(Ledger!vars)
<1>1. CASE row'[j].status = row[j].status
  BY <1>1, LedgerStutter DEF SameStatus
<1>2. CASE j \notin Gone /\ row[j].status = "absent" /\ row'[j].status = "queued"
  <2>1. Ledger!Enter(j)
    BY <1>2, LedgerAdvance DEF Ledger!Enter, Gone
  <2> QED
    BY <2>1 DEF Ledger!Next
<1>3. CASE j \notin Gone /\ row[j].status = "queued" /\ row'[j].status = "running"
  <2>1. Ledger!Start(j)
    BY <1>3, LedgerAdvance DEF Ledger!Start, Gone
  <2> QED
    BY <2>1 DEF Ledger!Next
<1>4. CASE j \notin Gone /\ row[j].status = "running" /\ row'[j].status \in Final
  <2>1. \A v \in Final : row'[j].status = v => Ledger!Advance(j, "running", v)
    BY <1>4, LedgerAdvance
  <2>2. Ledger!Conclude(j)
    BY <1>4, <2>1 DEF Ledger!Conclude, Ledger!Verdicts, Final, Gone
  <2> QED
    BY <2>2 DEF Ledger!Next
<1>5. CASE j \in Gone /\ row[j].status \in Live /\ row'[j].status = "failed"
  <2>1. \A s \in Live : row[j].status = s => Ledger!Advance(j, s, "failed")
    BY <1>5, LedgerAdvance
  <2>2. Ledger!Close(j)
    BY <1>5, <2>1 DEF Ledger!Close, Ledger!Open, Live, Gone
  <2> QED
    BY <2>2 DEF Ledger!Next
<1>6. CASE j \in Gone /\ row[j].status = "failed" /\ row'[j].status = "queued"
  <2>1. Ledger!Reopen(j)
    BY <1>6, LedgerAdvance DEF Ledger!Reopen, Gone
  <2> QED
    BY <2>1 DEF Ledger!Next
<1> QED
  BY <1>1, <1>2, <1>3, <1>4, <1>5, <1>6

LEMMA LedgerStep ==
    ASSUME IInv, Forgotten, Faultless, faults' = faults, [Next]_vars
    PROVE  [Ledger!Next]_(Ledger!vars)
<1>0. /\ MemoryOK /\ StoreOK /\ ThreadsOK /\ SweepOK /\ RequestInv /\ BirthInv
      /\ SweepInv /\ (\A j \in Jobs : Mirrored(j)) /\ Imaged /\ Loaded /\ faults \in Nat
  BY DEF IInv, TypeOK, StoreOK, Faultless
<1>1. ASSUME NEW j \in Jobs, WorkerStep(j) \/ WorkerRaises(j)
      PROVE  [Ledger!Next]_(Ledger!vars)
  <2>1. WorkerMoves(j) /\ WorkerWrites(j) /\ (j \in listed => Saves(j))
    BY <1>1, WorkerEffects, WorkerSaves DEF IInv, WorkerEffect
  <2>2. Gone' = Gone
    BY <2>1 DEF WorkerMoves, Working, Gone
  <2>3. SameStatus(Jobs \ {j})
    BY <2>1 DEF WorkerWrites, SameStatus
  <2>4. CASE j \notin listed
    BY <2>1, <2>2, <2>3, <2>4, LedgerMoves DEF WorkerWrites
  <2>5. CASE j \in listed
    <3>1. j \notin Gone /\ pc[j] # "starting" /\ row[j] = dict[j] /\ dict[j] \in JobRecord
      BY <1>0, <2>1, <2>5 DEF WorkerMoves, Working, Gone, Mirrored, MemoryOK
    <3>2. \/ row'[j].status = row[j].status
          \/ row[j].status = "queued" /\ row'[j].status = "running"
          \/ row[j].status = "running" /\ row'[j].status \in Final
      BY <1>0, <2>1, <2>5, <3>1 DEF Saves, Mirrored, Queued, Nothing, JobRecord
    <3> QED
      BY <2>2, <2>3, <3>1, <3>2, LedgerMoves
  <2> QED
    BY <2>4, <2>5
<1>2. ASSUME Withdraws PROVE [Ledger!Next]_(Ledger!vars)
  <2> DEFINE js == {i \in Jobs : Withdrawn(i)}
  <2>1. (\A i \in Jobs : Withdrawn(i) \/ Spared(i)) /\ pc' = pc
    BY <1>2, WithdrawsSave DEF IInv
  <2>2. js \in SUBSET (Jobs \ Gone)
    BY DEF Withdrawn, Gone
  <2>3. Gone' = Gone \cup js
    BY <1>0, <2>1 DEF Withdrawn, Spared, Gone, BirthInv
  <2>4. SameStatus(Jobs \ js)
    BY <2>1 DEF Spared, SameStatus
  <2>5. \A i \in js : /\ row[i].status \in Live \cup {"absent"}
                      /\ row'[i].status = "failed"
    BY <1>0 DEF Withdrawn, Mirrored, Nothing, Live
  <2> HIDE DEF js
  <2> QED
    BY <2>2, <2>3, <2>4, <2>5, LedgerWithdraw
<1>3. ASSUME NEW r \in Requests, NEW j \in Jobs, NEW ok \in BOOLEAN, WriteJob(r, j, ok)
      PROVE  [Ledger!Next]_(Ledger!vars)
  <2>1. WriteEffect(r, j)
    BY <1>3, WriteEffects DEF IInv
  <2>2. row'[j] = req[r].image
    BY <1>0, <1>3 DEF WriteJob, Outcome, StoreOK
  <2>3. Gone' = Gone /\ SameStatus(Jobs \ {j})
    BY <2>1 DEF WriteEffect, Gone, SameStatus
  <2>4. CASE j \in listed
    BY <1>0, <2>1, <2>2, <2>3, <2>4, LedgerMoves
       DEF WriteEffect, Mirrored, Imaged, Queued, Nothing, Gone
  <2>5. CASE j \notin listed
    <3>1. j \in Gone /\ row[j].status = "failed"
      BY <1>0, <2>1, <2>5 DEF WriteEffect, Mirrored, Gone
    <3>2. row'[j].status \in {"queued", "failed"}
      BY <1>0, <2>1, <2>2 DEF WriteEffect, RequestInv
    <3> QED
      BY <2>3, <3>1, <3>2, LedgerMoves
  <2> QED
    BY <2>4, <2>5
<1>4. ASSUME NEW j \in Jobs, NEW ok \in BOOLEAN, SweepWrite(j, ok) \/ Recover(j, ok)
      PROVE  [Ledger!Next]_(Ledger!vars)
  <2>1. ok /\ row' = [row EXCEPT ![j] = RowFailed(j)]
    BY <1>0, <1>4 DEF SweepWrite, Recover, Outcome
  <2>2. row'[j].status = "failed" /\ SameStatus(Jobs \ {j})
    BY <1>0, <2>1 DEF RowFailed, StoreOK, JobRecord, SameStatus
  <2>3. UNCHANGED <<listed, pc>>
    BY <1>4 DEF SweepWrite, Recover, SweepUnchanged, memory, threads
  <2>4. row[j].status \in Live /\ j \notin listed
    BY <1>0, <1>4 DEF SweepWrite, Recover, Loaded, SweepInv, Forgotten
  <2>5. j \in Gone
    BY <1>0, <2>4 DEF BirthInv, Nothing, Live, Gone
  <2> QED
    BY <2>2, <2>3, <2>4, <2>5, LedgerMoves DEF Gone
<1>5. ASSUME Die PROVE [Ledger!Next]_(Ledger!vars)
  <2>1. listed \in SUBSET (Jobs \ Gone)
    BY <1>0 DEF Gone, MemoryOK
  <2>2. Gone' = Gone \cup listed
    BY <1>0, <1>5 DEF Die, Gone, BirthInv, MemoryOK
  <2>3. SameStatus(Jobs \ {}) /\ {} \in SUBSET listed
    BY <1>5 DEF Die, SameStatus
  <2>4. \A i \in {} : row[i].status \in Live \cup {"absent"} /\ row'[i].status = "failed"
    OBVIOUS
  <2> QED
    BY <2>1, <2>2, <2>3, <2>4, LedgerWithdraw
<1>6. ASSUME NEW r \in Requests, NEW j \in Jobs, Publish(r, j)
      PROVE  [Ledger!Next]_(Ledger!vars)
  <2>1. SameStatus(Jobs)
    BY <1>6 DEF Publish, SameStatus
  <2>2. Gone' = Gone
    BY <1>0, <1>6 DEF Publish, Unborn, Gone, ThreadsOK
  <2> QED
    BY <2>1, <2>2, LedgerStutter
<1>7. CASE \/ \E r \in Requests, b \in Batches : Accept(r, b)
           \/ \E r \in Requests, j \in Jobs : ReadJob(r, j)
           \/ \E j \in Jobs : ProcessExits(j) \/ Clock(j) \/ TerminateCancelled(j)
           \/ \E j \in Jobs : KillCheck(j) \/ SweepTest(j) \/ SweepLoad(j)
           \/ KillSnapshot \/ SweepRows \/ SweepCollect \/ SweepRest
           \/ SetPolicy \/ Signal \/ Restart \/ RecoveryDone
           \/ UNCHANGED vars
  <2>1. UNCHANGED <<row, listed, pc>>
    BY <1>7
       DEF Accept, ReadJob, ProcessExits, Clock, TerminateCancelled, KillCheck,
           SweepTest, SweepLoad, KillSnapshot, SweepRows, SweepCollect, SweepRest,
           SetPolicy, Signal, Restart, RecoveryDone, SweepUnchanged, vars, memory,
           threads
  <2> QED
    BY <2>1, LedgerStutter DEF SameStatus, Gone
<1> QED
  BY <1>1, <1>2, <1>3, <1>4, <1>5, <1>6, <1>7
     DEF Next, StartErase, NextStep, KillProceed, Sweep, Startup, Withdraws

\* The erase_jobs table implements JobLedger when nothing is raised: rows
\* advance from queued to running to one verdict, and the rows of withdrawn
\* jobs get no further than failed.  (A cancel whose persist_job raises leaves
\* a worker that may complete a row it failed before.)
THEOREM LedgerImplemented == MaxFaults = 0 => (Spec => LedgerKept)
<1> SUFFICES ASSUME MaxFaults = 0 PROVE Spec => LedgerKept
  OBVIOUS
<1>1. Init => Ledger!Init
  BY DEF Init, Ledger!Init, Nothing
<1>2. IInv /\ MirrorInv /\ [Next]_vars => [Ledger!Next]_(Ledger!vars)
  <2> SUFFICES ASSUME IInv, MirrorInv, [Next]_vars PROVE [Ledger!Next]_(Ledger!vars)
    OBVIOUS
  <2>1. faults = 0 /\ faults' = 0
    BY NextIInv DEF IInv, TypeOK, StoreOK
  <2> QED
    BY <2>1, LedgerStep DEF MirrorInv
<1> QED
  BY <1>1, <1>2, AlwaysIInv, AlwaysMirrorInv, PTL DEF Spec, LedgerKept, Ledger!Spec

=============================================================================
