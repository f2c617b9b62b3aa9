--------------------------- MODULE BulkCertProofs ---------------------------
(***************************************************************************)
(* What the rows of bulk jobs say, for all bulk jobs, lists and batch      *)
(* sizes, and any number of faults, signals and crashes.  The verdict of a *)
(* row is made from the counters of its worker, while the sweep, a signal  *)
(* and a restart write the same row: the invariant says what each of the   *)
(* writers has in hand at each of its places.                              *)
(***************************************************************************)
EXTENDS BulkCert, TLAPS

Asked == {"new", "made", "thread", "begin"}
Busy == {"check", "certify", "page", "finish"}
Places == Asked \cup Busy \cup {"gone"}

Workers == [at: Places, next: Nat, certs: SUBSET Nat, failed: SUBSET Nat]

(* The variables that TypeOK says nothing of *)
Shape ==
    /\ list \in [Bulks -> Lists]
    /\ worker \in [Bulks -> Workers]

(* The places of the sweep.  The copy it writes back is a row's, and of a  *)
(* job that had written its row.                                           *)
SweepInv ==
    /\ sweep.at \in {"rest", "sweep", "mark"} /\ sweep.todo \subseteq Bulks
    /\ sweep.at = "mark" =>
          /\ sweep.job \in Bulks /\ sweep.copy \in Records
          /\ worker[sweep.job].at \notin {"new", "made"}

(* The names a worker has dealt with so far: each has a certificate or has *)
(* failed, and none both.                                                  *)
Counted(j) ==
    /\ worker[j].certs \cap worker[j].failed = {}
    /\ worker[j].certs \cup worker[j].failed = 1..(worker[j].next - 1)
    /\ worker[j].next \in Nat \ {0}

(* A worker goes over a list that was found valid, name by name, and has   *)
(* its verdict only at the end of it.                                      *)
OnTheList(j) ==
    /\ worker[j].at \in Places \ {"new", "gone"} => Valid(list[j])
    /\ worker[j].at \in Asked => worker[j].next = 1
    /\ worker[j].at \in Busy => worker[j].next <= Len(list[j]) + 1
    /\ worker[j].at = "certify" => worker[j].next <= Len(list[j])
    /\ worker[j].at \in {"page", "finish"} => worker[j].next = Len(list[j]) + 1

(* Memory says queued or running as long as the worker is not done, so     *)
(* that writing memory to the row never makes a verdict.                   *)
Unfinished(j) ==
    /\ worker[j].at \in Places \ {"new", "gone"} => mem[j].status \in Open
    /\ worker[j].at \in {"new", "made"} => row[j].status = "none"

(* Nothing of the process before a restart is left. *)
Restarted(j) == up = "starting" => mem[j] = Gone /\ worker[j].at \in {"new", "gone"}

(* What the row of a job says, and who will move it if it is open: its     *)
(* worker, or the sweep.                                                   *)
Truthful(j) ==
    /\ row[j].status = "completed" => row[j].certs = DOMAIN list[j]
    /\ row[j].status = "partial_success" =>
          row[j].failed # {} /\ row[j].certs \cup row[j].failed = DOMAIN list[j]

Owned(j) ==
    up # "starting" /\ row[j].status \in Open => worker[j].at # "gone" \/ j \in abandoned

Sound(j) ==
    Counted(j) /\ OnTheList(j) /\ Unfinished(j) /\ Restarted(j) /\ Truthful(j) /\ Owned(j)

BulkInv ==
    /\ up \in {"serving", "stopping", "starting"} /\ flag \in BOOLEAN
    /\ abandoned \subseteq Bulks
    /\ mem \in [Bulks -> Records] /\ row \in [Bulks -> Records]
    /\ Shape /\ SweepInv
    /\ \A j \in Bulks : Sound(j)

-----------------------------------------------------------------------------
(* Facts about the records *)

LEMMA GoneTyped == Gone \in Records /\ Gone.status = "none"
  BY DEF Gone, Record, Records

(* A record with another status is a record with the same certificates. *)
LEMMA StatusSet ==
    ASSUME NEW r \in Records, NEW s \in {"running", "failed"}
    PROVE  [r EXCEPT !.status = s] \in Records /\ [r EXCEPT !.status = s].status = s
  BY DEF Records

LEMMA ListTyped ==
    ASSUME Shape, NEW j \in Bulks
    PROVE  Len(list[j]) \in Nat /\ DOMAIN list[j] = 1..Len(list[j])
  <1>1. list[j] \in Seq(Names)
    BY BulkCertAssumption DEF Shape
  <1> QED
    BY <1>1

(* What a worker has counted are places of its list, and of a full batch. *)
LEMMA CountsTyped ==
    ASSUME BulkInv, NEW j \in Bulks, worker[j].at \in Places \ {"new", "gone"}
    PROVE  /\ worker[j].certs \in SUBSET (1..MaxBatch)
           /\ worker[j].failed \in SUBSET (1..MaxBatch)
  <1>0. Counted(j) /\ OnTheList(j) /\ Shape
    BY DEF BulkInv, Sound
  <1>1. Len(list[j]) \in Nat /\ Len(list[j]) <= MaxBatch
    BY <1>0, ListTyped DEF OnTheList, Valid
  <1>2. worker[j].next \in Nat \ {0} /\ worker[j].next <= Len(list[j]) + 1
    BY <1>0, <1>1 DEF Counted, OnTheList, Places, Asked, Busy
  <1>3. worker[j].certs \cup worker[j].failed = 1..(worker[j].next - 1)
    BY <1>0 DEF Counted
  <1>4. 1..(worker[j].next - 1) \subseteq 1..MaxBatch
    BY <1>1, <1>2, BulkCertAssumption
  <1> QED
    BY <1>3, <1>4

-----------------------------------------------------------------------------
(* A step of one job's worker leaves everything else alone, so that it is  *)
(* enough to look at this job.                                             *)
LEMMA OneJob ==
    ASSUME BulkInv, NEW j \in Bulks,
           up # "starting", UNCHANGED <<up, list, sweep>>, flag' \in BOOLEAN,
           abandoned \subseteq abandoned', abandoned' \subseteq Bulks,
           NEW w \in Workers, worker' = [worker EXCEPT ![j] = w],
           w.at \in {"new", "made"} => worker[j].at \in {"new", "made"},
           NEW m \in Records, mem' = [mem EXCEPT ![j] = m],
           NEW r \in Records, row' = [row EXCEPT ![j] = r],
           Counted(j)', OnTheList(j)', Unfinished(j)', Truthful(j)', Owned(j)'
    PROVE  BulkInv'
  <1>1. worker' \in [Bulks -> Workers] /\ mem' \in [Bulks -> Records] /\ row' \in [Bulks -> Records]
    BY DEF BulkInv, Shape
  <1>2. Sound(j)'
    BY DEF Sound, Restarted
  <1>3. ASSUME NEW k \in Bulks, k # j PROVE Sound(k)'
    <2>1. worker'[k] = worker[k] /\ mem'[k] = mem[k] /\ row'[k] = row[k]
      BY <1>3 DEF BulkInv, Shape
    <2>2. Sound(k)
      BY DEF BulkInv
    <2> QED
      BY <2>1, <2>2 DEF Sound, Counted, OnTheList, Unfinished, Restarted, Truthful, Owned
  <1>4. Shape' /\ SweepInv'
    <2>1. \A k \in Bulks : worker'[k].at \in {"new", "made"} => worker[k].at \in {"new", "made"}
      BY DEF BulkInv, Shape
    <2> QED
      BY <1>1, <2>1 DEF BulkInv, Shape, SweepInv
  <1> QED
    BY <1>1, <1>2, <1>3, <1>4 DEF BulkInv

(* What the invariant says of a job whose worker is at work *)
LEMMA AtWork ==
    ASSUME BulkInv, NEW j \in Bulks, worker[j].at \in Places \ {"new", "gone"}
    PROVE  /\ worker[j] \in Workers /\ mem[j] \in Records /\ row[j] \in Records
           /\ mem[j].status \in Open /\ Len(list[j]) \in Nat
           /\ DOMAIN list[j] = 1..Len(list[j])
           /\ Counted(j) /\ OnTheList(j) /\ Unfinished(j) /\ Truthful(j) /\ Owned(j)
  BY ListTyped DEF BulkInv, Sound, Shape, Unfinished

(* A worker that dies of an exception leaves its row, open or not, to the  *)
(* sweep.                                                                  *)
LEMMA LostKeeps ==
    ASSUME BulkInv, NEW j \in Bulks, worker[j].at \in Places \ {"new", "gone"},
           up # "starting", UNCHANGED <<up, list, sweep>>, flag' \in BOOLEAN,
           NEW m \in Records, Lost(j, m)
    PROVE  BulkInv'
  <1> DEFINE w == [worker[j] EXCEPT !.at = "gone"]
  <1>1. w \in Workers /\ w.at = "gone" /\ w.next = worker[j].next /\ w.certs = worker[j].certs
        /\ w.failed = worker[j].failed
    BY AtWork DEF Workers, Places
  <1>2. /\ worker' = [worker EXCEPT ![j] = w] /\ mem' = [mem EXCEPT ![j] = m]
        /\ row' = row /\ abandoned' = abandoned \cup {j}
    BY DEF Lost, Dies, Goes, Remember
  <1>3. worker'[j] = w /\ row' = [row EXCEPT ![j] = row[j]]
    BY <1>2 DEF BulkInv, Shape
  <1> HIDE DEF w
  <1>4. Counted(j)' /\ OnTheList(j)' /\ Unfinished(j)'
    BY <1>1, <1>3, AtWork DEF Counted, OnTheList, Unfinished, Asked, Busy
  <1>5. Truthful(j)' /\ Owned(j)'
    BY <1>2, AtWork DEF Truthful, Owned
  <1>6. abandoned \subseteq abandoned' /\ abandoned' \subseteq Bulks
    BY <1>2 DEF BulkInv
  <1> QED
    BY <1>1, <1>2, <1>3, <1>4, <1>5, <1>6, AtWork, OneJob

(* The steps of one job's worker *)

LEMMA RequestKeeps ==
    ASSUME BulkInv, NEW j \in Bulks, Refuse(j) \/ Create(j)
    PROVE  BulkInv'
  <1>1. /\ up # "starting" /\ worker[j].at = "new"
        /\ UNCHANGED <<up, list, row, flag, sweep, abandoned>>
        /\ worker[j] \in Workers /\ mem[j] \in Records /\ row[j] \in Records
        /\ Counted(j) /\ OnTheList(j) /\ Unfinished(j)
    BY DEF Refuse, Create, At, BulkInv, Sound, Shape
  <1>2. row[j].status = "none" /\ worker[j].next = 1
    BY <1>1 DEF Unfinished, OnTheList, Asked
  <1>3. PICK at \in {"gone", "made"}, m \in Records :
          /\ worker' = [worker EXCEPT ![j].at = at] /\ mem' = [mem EXCEPT ![j] = m]
          /\ at = "made" => Valid(list[j]) /\ m.status \in Open
    <2>1. CASE Refuse(j)
      BY <1>1, <2>1 DEF Refuse, Goes, BulkInv
    <2>2. CASE Create(j)
      <3>1. Record("queued", {}, {}) \in Records
            /\ Record("queued", {}, {}).status \in Open
        BY DEF Record, Records, Open
      <3> QED
        BY <2>2, <3>1 DEF Create, Goes, Remember
    <2> QED
      BY <2>1, <2>2
  <1> DEFINE w == [worker[j] EXCEPT !.at = at]
  <1>4. w \in Workers /\ w.at = at /\ w.next = worker[j].next /\ w.certs = worker[j].certs
        /\ w.failed = worker[j].failed
    BY <1>1 DEF Workers, Places, Asked
  <1>5. worker' = [worker EXCEPT ![j] = w] /\ row' = [row EXCEPT ![j] = row[j]]
        /\ worker'[j] = w /\ mem'[j] = m /\ row'[j] = row[j]
    BY <1>1, <1>3 DEF BulkInv, Shape
  <1> HIDE DEF w
  <1>6. Counted(j)'
    BY <1>1, <1>4, <1>5 DEF Counted
  <1>7. OnTheList(j)' /\ Unfinished(j)'
    BY <1>1, <1>2, <1>3, <1>4, <1>5 DEF OnTheList, Unfinished, Places, Asked, Busy, Valid
  <1>8. Truthful(j)' /\ Owned(j)'
    BY <1>2, <1>5 DEF Truthful, Owned, Open
  <1>9. flag' \in BOOLEAN /\ abandoned' \subseteq Bulks
    BY <1>1 DEF BulkInv
  <1> QED
    BY <1>1, <1>3, <1>4, <1>5, <1>6, <1>7, <1>8, <1>9, OneJob

LEMMA StartKeeps ==
    ASSUME BulkInv, NEW j \in Bulks, PersistQueued(j) \/ NoThread(j) \/ ResetFlag(j) \/ Running(j)
    PROVE  BulkInv'
  <1>1. /\ up # "starting" /\ worker[j].at \in {"made", "thread", "begin"}
        /\ UNCHANGED <<up, list, sweep>> /\ flag' \in BOOLEAN
        /\ mem[j] \in Records /\ mem[j].status \in Open /\ row[j] \in Records
    BY AtWork DEF PersistQueued, NoThread, ResetFlag, Running, At, BulkInv, Places, Asked
  <1>0. SUFFICES ASSUME \A m \in Records : ~Lost(j, m)
                 PROVE  BulkInv'
    BY <1>1, LostKeeps DEF Places, Asked
  <1>2. PICK at \in {"thread", "begin", "check"}, m \in Records, r \in Records :
          /\ worker' = [worker EXCEPT ![j].at = at]
          /\ mem' = [mem EXCEPT ![j] = m] /\ row' = [row EXCEPT ![j] = r]
          /\ m.status \in Open /\ r \in {m, row[j]} /\ abandoned' = abandoned
    <2>1. CASE PersistQueued(j)
      <3>1. Saved(j, mem[j], "thread")
        BY <1>0, <1>1, <2>1 DEF PersistQueued
      <3> QED
        BY <1>1, <3>1 DEF Saved, Goes, Remember, Persist
    <2>2. CASE ResetFlag(j)
      BY <1>1, <2>2 DEF ResetFlag, Goes, BulkInv
    <2>3. CASE Running(j)
      <3>1. [mem[j] EXCEPT !.status = "running"] \in Records
            /\ [mem[j] EXCEPT !.status = "running"].status \in Open
        BY <1>1, StatusSet DEF Open
      <3>2. Saved(j, [mem[j] EXCEPT !.status = "running"], "check")
        BY <1>0, <2>3, <3>1 DEF Running
      <3> QED
        BY <3>1, <3>2 DEF Saved, Goes, Remember, Persist
    <2>4. CASE NoThread(j)
      <3>1. Lost(j, mem[j])
        BY <2>4 DEF NoThread, Lost, Remember, BulkInv
      <3> QED
        BY <1>0, <1>1, <3>1
    <2> QED
      BY <2>1, <2>2, <2>3, <2>4
  <1>3. worker[j].at \in Places \ {"new", "gone"} /\ worker[j].at \in Asked
    BY <1>1 DEF Places, Asked
  <1> DEFINE w == [worker[j] EXCEPT !.at = at]
  <1>4. w \in Workers /\ w.at = at /\ w.next = worker[j].next /\ w.certs = worker[j].certs
        /\ w.failed = worker[j].failed
    BY <1>3, AtWork DEF Workers, Places, Asked, Busy
  <1>5. worker' = [worker EXCEPT ![j] = w] /\ worker'[j] = w /\ mem'[j] = m /\ row'[j] = r
    BY <1>2 DEF BulkInv, Shape
  <1> HIDE DEF w
  <1>6. Counted(j)'
    BY <1>3, <1>4, <1>5, AtWork DEF Counted
  <1>7. Valid(list[j]) /\ worker[j].next = 1 /\ Len(list[j]) \in Nat
    BY <1>3, AtWork DEF OnTheList
  <1>8. OnTheList(j)' /\ Unfinished(j)'
    BY <1>1, <1>2, <1>4, <1>5, <1>7 DEF OnTheList, Unfinished, Places, Asked, Busy, Valid
  <1>9. Truthful(j)'
    BY <1>1, <1>2, <1>3, <1>5, AtWork DEF Truthful, Open
  <1>10. Owned(j)' /\ abandoned' \subseteq Bulks
    BY <1>2, <1>4, <1>5 DEF Owned, BulkInv
  <1> QED
    BY <1>1, <1>2, <1>4, <1>5, <1>6, <1>8, <1>9, <1>10, OneJob

(* Interrupted or finished, the worker leaves its counters in the row. *)
LEMMA EndKeeps ==
    ASSUME BulkInv, NEW j \in Bulks, Interrupt(j) \/ Finish(j)
    PROVE  BulkInv'
  <1>1. up # "starting" /\ worker[j].at \in {"check", "finish"}
        /\ UNCHANGED <<up, list, flag, sweep>> /\ flag \in BOOLEAN
    BY DEF Interrupt, Finish, At, BulkInv
  <1>2. worker[j].at \in Places \ {"new", "gone"}
    BY <1>1 DEF Places, Busy
  <1>0. SUFFICES ASSUME \A m \in Records : ~Lost(j, m)
                 PROVE  BulkInv'
    BY <1>1, <1>2, LostKeeps
  <1> DEFINE End(s) == Record(s, worker[j].certs, worker[j].failed)
  <1>a. \A s \in {"interrupted", "completed", "partial_success"} : End(s) \in Records
    BY <1>2, CountsTyped DEF Record, Records
  <1>3. PICK s \in {"interrupted", "completed", "partial_success"} :
          /\ Saved(j, End(s), "gone")
          /\ s # "interrupted" => worker[j].at = "finish" /\ s = Verdict(worker[j])
    <2>1. CASE Interrupt(j)
      BY <1>0, <1>a, <2>1 DEF Interrupt
    <2>2. CASE Finish(j)
      <3>1. Verdict(worker[j]) \in {"completed", "partial_success"}
        BY DEF Verdict
      <3> QED
        BY <1>0, <1>a, <2>2, <3>1 DEF Finish, At
    <2> QED
      BY <2>1, <2>2
  <1> DEFINE r == End(s)
             w == [worker[j] EXCEPT !.at = "gone"]
  <1>4. r \in Records /\ r.status = s /\ r.certs = worker[j].certs /\ r.failed = worker[j].failed
    BY <1>a DEF Record
  <1>5. w \in Workers /\ w.at = "gone" /\ w.next = worker[j].next /\ w.certs = worker[j].certs
        /\ w.failed = worker[j].failed
    BY <1>2, AtWork DEF Workers, Places
  <1>6. worker' = [worker EXCEPT ![j] = w] /\ mem' = [mem EXCEPT ![j] = r]
        /\ row' = [row EXCEPT ![j] = r]
        /\ abandoned' = abandoned
    BY <1>3 DEF Saved, Remember, Persist, Goes
  <1>7. worker'[j] = w /\ mem'[j] = r /\ row'[j] = r
    BY <1>6 DEF BulkInv, Shape
  <1> HIDE DEF r, w, End
  <1>8. Counted(j)'
    BY <1>2, <1>5, <1>7, AtWork DEF Counted
  <1>9. OnTheList(j)' /\ Unfinished(j)'
    BY <1>5, <1>7 DEF OnTheList, Unfinished, Asked, Busy
  <1>10. Truthful(j)'
    <2>1. CASE s = "interrupted"
      BY <1>4, <1>7, <2>1 DEF Truthful
    <2>2. CASE s # "interrupted"
      <3>1. worker[j].next = Len(list[j]) + 1 /\ Len(list[j]) \in Nat
        BY <1>2, <1>3, <2>2, AtWork DEF OnTheList
      <3>2. worker[j].certs \cup worker[j].failed = 1..Len(list[j]) /\ DOMAIN list[j] = 1..Len(list[j])
        BY <1>2, <3>1, AtWork DEF Counted
      <3>3. s = "completed" => worker[j].failed = {}
        BY <1>3, <2>2 DEF Verdict
      <3>4. s = "partial_success" => worker[j].failed # {}
        BY <1>3, <2>2 DEF Verdict
      <3> QED
        BY <1>1, <1>4, <1>7, <3>2, <3>3, <3>4 DEF Truthful
    <2> QED
      BY <2>1, <2>2
  <1>11. Owned(j)' /\ flag' \in BOOLEAN /\ abandoned' \subseteq Bulks
    BY <1>1, <1>6, <1>3, <1>4, <1>7 DEF Owned, Open, BulkInv
  <1> QED
    BY <1>1, <1>4, <1>5, <1>6, <1>8, <1>9, <1>10, <1>11, OneJob

(* The progress that is persisted on the way says running. *)
LEMMA ProgressKeeps ==
    ASSUME BulkInv, NEW j \in Bulks, Progress(j) \/ EndOfList(j)
    PROVE  BulkInv'
  <1>1. up # "starting" /\ worker[j].at = "check"
        /\ UNCHANGED <<up, list, flag, sweep>> /\ flag \in BOOLEAN
    BY DEF Progress, EndOfList, At, BulkInv
  <1>2. worker[j].at \in Places \ {"new", "gone"} /\ worker[j].at \in Busy
    BY <1>1 DEF Places, Busy
  <1>0. SUFFICES ASSUME \A m \in Records : ~Lost(j, m)
                 PROVE  BulkInv'
    BY <1>1, <1>2, LostKeeps
  <1>3. PICK at \in {"certify", "page"} :
          /\ Saved(j, mem[j], at)
          /\ at = "certify" => worker[j].next <= Len(list[j])
          /\ at = "page" => worker[j].next > Len(list[j])
    BY <1>0, <1>2, AtWork DEF Progress, EndOfList
  <1> DEFINE w == [worker[j] EXCEPT !.at = at]
  <1>4. w \in Workers /\ w.at = at /\ w.next = worker[j].next /\ w.certs = worker[j].certs
        /\ w.failed = worker[j].failed
    BY <1>2, AtWork DEF Workers, Places, Busy
  <1>5. worker' = [worker EXCEPT ![j] = w] /\ mem' = [mem EXCEPT ![j] = mem[j]]
        /\ row' = [row EXCEPT ![j] = mem[j]] /\ abandoned' = abandoned
    BY <1>3 DEF Saved, Remember, Persist, Goes
  <1>6. worker'[j] = w /\ mem'[j] = mem[j] /\ row'[j] = mem[j]
    BY <1>5 DEF BulkInv, Shape
  <1> HIDE DEF w
  <1>7. Counted(j)'
    BY <1>2, <1>4, <1>6, AtWork DEF Counted
  <1>8. Valid(list[j]) /\ Len(list[j]) \in Nat /\ worker[j].next \in Nat \ {0}
        /\ worker[j].next <= Len(list[j]) + 1
    BY <1>2, AtWork DEF OnTheList, Counted
  <1>9. OnTheList(j)'
    BY <1>1, <1>3, <1>4, <1>6, <1>8 DEF OnTheList, Asked, Valid
  <1>10. mem[j] \in Records /\ mem[j].status \in Open
    BY <1>2, AtWork
  <1>11. Unfinished(j)' /\ Truthful(j)' /\ Owned(j)'
    BY <1>4, <1>6, <1>10 DEF Unfinished, Truthful, Owned, Open
  <1>12. flag' \in BOOLEAN /\ abandoned' \subseteq Bulks
    BY <1>1, <1>5 DEF BulkInv
  <1> QED
    BY <1>1, <1>4, <1>5, <1>7, <1>9, <1>10, <1>11, <1>12, OneJob

(* A name that was dealt with is counted once. *)
LEMMA CertifyKeeps ==
    ASSUME BulkInv, NEW j \in Bulks, Certify(j)
    PROVE  BulkInv'
  <1>1. up # "starting" /\ worker[j].at = "certify"
        /\ UNCHANGED <<up, list, mem, row, flag, sweep, abandoned>>
    BY DEF Certify, At
  <1>2. worker[j].at \in Places \ {"new", "gone"}
    BY <1>1 DEF Places, Busy
  <1> DEFINE n == worker[j].next
             c == [worker[j] EXCEPT !.at = "check", !.next = @ + 1, !.certs = @ \cup {n}]
             f == [worker[j] EXCEPT !.at = "check", !.next = @ + 1, !.failed = @ \cup {n}]
  <1>3. worker[j] \in Workers /\ n \in Nat \ {0} /\ n <= Len(list[j]) /\ Len(list[j]) \in Nat
    BY <1>1, <1>2, AtWork DEF OnTheList, Counted
  <1>4. PICK w \in {c, f} : worker' = [worker EXCEPT ![j] = w]
    BY DEF Certify, Certified, FailedOne
  <1>5. w \in Workers /\ w.at = "check" /\ w.next = n + 1
        /\ \/ w.certs = worker[j].certs \cup {n} /\ w.failed = worker[j].failed
           \/ w.certs = worker[j].certs /\ w.failed = worker[j].failed \cup {n}
    <2>1. n + 1 \in Nat /\ worker[j].certs \cup {n} \in SUBSET Nat
          /\ worker[j].failed \cup {n} \in SUBSET Nat /\ "check" \in Places
      BY <1>3 DEF Workers, Places, Busy
    <2>2. CASE w = c
      BY <1>3, <2>1, <2>2 DEF Workers
    <2>3. CASE w = f
      BY <1>3, <2>1, <2>3 DEF Workers
    <2> QED
      BY <1>4, <2>2, <2>3
  <1>6. worker'[j] = w
    BY <1>4 DEF BulkInv, Shape
  <1> HIDE DEF c, f
  <1>7. Counted(j)'
    <2>1. worker[j].certs \cap worker[j].failed = {} /\ worker[j].certs \cup worker[j].failed = 1..(n - 1)
      BY <1>2, AtWork DEF Counted
    <2>2. n \notin 1..(n - 1) /\ 1..(n - 1) \cup {n} = 1..n /\ (n + 1) - 1 = n
      BY <1>3
    <2>3. w.certs \cap w.failed = {} /\ w.certs \cup w.failed = 1..n
      BY <1>5, <2>1, <2>2
    <2> QED
      BY <1>3, <1>5, <1>6, <2>2, <2>3 DEF Counted
  <1>8. OnTheList(j)'
    <2>1. Valid(list[j]) /\ (n + 1) <= Len(list[j]) + 1
      BY <1>2, <1>3, AtWork DEF OnTheList
    <2> QED
      BY <1>1, <1>5, <1>6, <2>1 DEF OnTheList, Asked, Valid
  <1>9. Unfinished(j)' /\ Truthful(j)' /\ Owned(j)'
    BY <1>1, <1>2, <1>5, <1>6, AtWork DEF Unfinished, Truthful, Owned
  <1>10. mem' = [mem EXCEPT ![j] = mem[j]] /\ row' = [row EXCEPT ![j] = row[j]] /\ flag' \in BOOLEAN
         /\ mem[j] \in Records /\ row[j] \in Records /\ abandoned' \subseteq Bulks
    BY <1>1 DEF BulkInv
  <1> QED
    BY <1>1, <1>4, <1>5, <1>7, <1>8, <1>9, <1>10, OneJob

LEMMA PageKeeps ==
    ASSUME BulkInv, NEW j \in Bulks, WritePage(j)
    PROVE  BulkInv'
  <1>1. up # "starting" /\ worker[j].at = "page"
        /\ UNCHANGED <<up, list, mem, row, flag, sweep, abandoned>>
    BY DEF WritePage, At
  <1>2. worker[j].at \in Places \ {"new", "gone"}
    BY <1>1 DEF Places, Busy
  <1> DEFINE w == [worker[j] EXCEPT !.at = "finish"]
  <1>3. worker' = [worker EXCEPT ![j] = w]
    BY DEF WritePage, Goes
  <1>4. w \in Workers /\ w.at = "finish" /\ w.next = worker[j].next /\ w.certs = worker[j].certs
        /\ w.failed = worker[j].failed
    BY <1>2, AtWork DEF Workers, Places, Busy
  <1>5. worker'[j] = w
    BY <1>3 DEF BulkInv, Shape
  <1> HIDE DEF w
  <1>6. Counted(j)'
    BY <1>2, <1>4, <1>5, AtWork DEF Counted
  <1>7. OnTheList(j)'
    <2>1. Valid(list[j]) /\ worker[j].next = Len(list[j]) + 1 /\ Len(list[j]) \in Nat
      BY <1>1, <1>2, AtWork DEF OnTheList
    <2> QED
      BY <1>1, <1>4, <1>5, <2>1 DEF OnTheList, Asked, Valid
  <1>8. Unfinished(j)' /\ Truthful(j)' /\ Owned(j)'
    BY <1>1, <1>2, <1>4, <1>5, AtWork DEF Unfinished, Truthful, Owned
  <1>9. mem' = [mem EXCEPT ![j] = mem[j]] /\ row' = [row EXCEPT ![j] = row[j]] /\ flag' \in BOOLEAN
        /\ mem[j] \in Records /\ row[j] \in Records /\ abandoned' \subseteq Bulks
    BY <1>1 DEF BulkInv
  <1> QED
    BY <1>1, <1>3, <1>4, <1>6, <1>7, <1>8, <1>9, OneJob

-----------------------------------------------------------------------------
(* The other writers of the rows *)

(* The sweep writes failed over a row, in whatever state it is by then:    *)
(* failed is no verdict, and a worker at work writes its own later.        *)
LEMMA SweepKeeps ==
    ASSUME BulkInv, SweepStep
    PROVE  BulkInv'
  <1>1. CASE Scan \/ Rest \/ SweepFails
    <2>1. /\ UNCHANGED <<up, list, mem, row, worker, flag, abandoned>>
          /\ sweep'.at \in {"rest", "sweep"} /\ sweep'.todo \subseteq Bulks
      <3>1. CASE Scan
        BY <3>1 DEF Scan, Resting, Listed, OpenRows
      <3>2. CASE Rest \/ SweepFails
        BY <3>2 DEF Rest, SweepFails, Resting
      <3> QED
        BY <1>1, <3>1, <3>2
    <2> QED
      BY <2>1 DEF BulkInv, Shape, SweepInv, Sound, Counted, OnTheList, Unfinished, Restarted, Truthful, Owned
  <1>2. ASSUME NEW j \in Bulks, Load(j) PROVE BulkInv'
    <2>1. UNCHANGED <<up, list, mem, row, worker, flag, abandoned>> /\ row[j] \in Records
          /\ sweep.at = "sweep" /\ sweep.todo \subseteq Bulks
      BY <1>2 DEF Load, BulkInv, SweepInv
    <2>2. SweepInv'
      <3>0. row[j].status \in Open => worker[j].at \notin {"new", "made"}
        BY DEF BulkInv, Sound, Unfinished, Open
      <3>1. CASE row[j].status \in Open
        <4>1. sweep' = [at |-> "mark", todo |-> sweep.todo \ {j}, job |-> j, copy |-> row[j]]
          BY <1>2, <3>1 DEF Load
        <4> QED
          BY <2>1, <3>0, <3>1, <4>1 DEF SweepInv
      <3>2. CASE row[j].status \notin Open
        <4>1. sweep' = [sweep EXCEPT !.todo = @ \ {j}]
          BY <1>2, <3>2 DEF Load
        <4> QED
          BY <2>1, <4>1 DEF SweepInv
      <3> QED
        BY <3>1, <3>2
    <2> QED
      BY <2>1, <2>2 DEF BulkInv, Shape, Sound, Counted, OnTheList, Unfinished, Restarted, Truthful, Owned
  <1>3. ASSUME NEW j \in Bulks, Mark(j) PROVE BulkInv'
    <2>1. /\ UNCHANGED <<up, list, mem, worker, flag, abandoned>> /\ sweep.at = "mark" /\ sweep.job = j
          /\ row' = [row EXCEPT ![j] = [sweep.copy EXCEPT !.status = "failed"]]
          /\ sweep' = [sweep EXCEPT !.at = "sweep", !.job = Gone, !.copy = Gone]
      BY <1>3 DEF Mark, Persist
    <2> DEFINE r == [sweep.copy EXCEPT !.status = "failed"]
    <2>2. r \in Records /\ r.status = "failed" /\ worker[j].at \notin {"new", "made"}
      BY <2>1, StatusSet DEF BulkInv, SweepInv
    <2> HIDE DEF r
    <2>3. row' = [row EXCEPT ![j] = r] /\ row' \in [Bulks -> Records] /\ row'[j] = r
      BY <2>1, <2>2 DEF BulkInv, r
    <2>4. ASSUME NEW k \in Bulks PROVE Sound(k)'
      <3>1. Sound(k) /\ (k # j => row'[k] = row[k])
        BY <2>3 DEF BulkInv
      <3> QED
        BY <2>1, <2>2, <2>3, <3>1
        DEF Sound, Counted, OnTheList, Unfinished, Restarted, Truthful, Owned, Open
    <2>5. SweepInv'
      BY <2>1 DEF BulkInv, SweepInv
    <2> QED
      BY <2>1, <2>3, <2>4, <2>5 DEF BulkInv, Shape
  <1> QED
    BY <1>1, <1>2, <1>3 DEF SweepStep

(* The end of a process leaves rows for its successor: those that are not  *)
(* open are as they were.                                                  *)
LEMMA RestartKeeps ==
    ASSUME BulkInv, Signal \/ Exit \/ StartStep
    PROVE  BulkInv'
  <1>1. CASE Signal
    <2>1. /\ UNCHANGED <<list, mem, row, worker, sweep, abandoned>> /\ flag' = TRUE
          /\ up = "serving" /\ up' = "stopping"
      BY <1>1 DEF Signal
    <2> QED
      BY <2>1 DEF BulkInv, Shape, SweepInv, Sound, Counted, OnTheList, Unfinished, Restarted, Truthful, Owned
  <1>2. CASE Exit
    <2>1. /\ UNCHANGED <<list, row>> /\ up' = "starting" /\ flag' = FALSE /\ sweep' = Resting
          /\ abandoned' = {}
          /\ mem' = [j \in Bulks |-> Gone]
          /\ worker' = [j \in Bulks |-> IF worker[j].at = "new" THEN worker[j] ELSE NoWorker]
      BY <1>2 DEF Exit
    <2>2. NoWorker \in Workers /\ NoWorker.at = "gone" /\ NoWorker.next = 1
          /\ NoWorker.certs = {} /\ NoWorker.failed = {}
      BY DEF NoWorker, Workers, Places
    <2>3. mem' \in [Bulks -> Records] /\ worker' \in [Bulks -> Workers]
      BY <2>1, <2>2, GoneTyped DEF BulkInv, Shape
    <2>4. SweepInv'
      BY <2>1 DEF SweepInv, Resting
    <2>5. ASSUME NEW k \in Bulks PROVE Sound(k)'
      <3>1. CASE worker[k].at = "new"
        BY <2>1, <3>1
        DEF BulkInv, Sound, Counted, OnTheList, Unfinished, Restarted, Truthful, Owned
      <3>2. CASE worker[k].at # "new"
        <4>1. worker'[k] = NoWorker /\ mem'[k] = Gone /\ Truthful(k)
          BY <2>1, <3>2 DEF BulkInv, Sound
        <4> QED
          BY <2>1, <2>2, <4>1
          DEF Sound, Counted, OnTheList, Unfinished, Restarted, Truthful, Owned, Asked, Busy
      <3> QED
        BY <3>1, <3>2
    <2> QED
      BY <2>1, <2>3, <2>4, <2>5 DEF BulkInv, Shape
  <1>3. ASSUME NEW j \in Bulks, Recover(j) PROVE BulkInv'
    <2>1. /\ UNCHANGED <<up, list, mem, worker, flag, sweep, abandoned>> /\ up = "starting"
          /\ row' = [row EXCEPT ![j] = [row[j] EXCEPT !.status = "failed"]]
          /\ row[j].status \in Open
      BY <1>3 DEF Recover, Persist, Orphans, OpenRows
    <2> DEFINE r == [row[j] EXCEPT !.status = "failed"]
    <2>2. r \in Records /\ r.status = "failed"
      BY StatusSet DEF BulkInv
    <2> HIDE DEF r
    <2>3. row' = [row EXCEPT ![j] = r] /\ row' \in [Bulks -> Records] /\ row'[j] = r
      BY <2>1, <2>2 DEF BulkInv, r
    <2>4. worker[j].at \notin {"new", "made"}
      BY <2>1 DEF BulkInv, Sound, Unfinished, Open
    <2>5. ASSUME NEW k \in Bulks PROVE Sound(k)'
      <3>1. Sound(k) /\ (k # j => row'[k] = row[k])
        BY <2>3 DEF BulkInv
      <3> QED
        BY <2>1, <2>2, <2>3, <2>4, <3>1
        DEF Sound, Counted, OnTheList, Unfinished, Restarted, Truthful, Owned, Open
    <2> QED
      BY <2>1, <2>3, <2>5 DEF BulkInv, Shape, SweepInv
  <1>4. CASE Started
    <2>1. /\ UNCHANGED <<list, mem, row, worker, flag, sweep>> /\ up' = "serving"
          /\ \A k \in Bulks : row[k].status \in Open => k \in abandoned'
          /\ abandoned' \subseteq Bulks
      BY <1>4 DEF Started, Orphans, OpenRows, BulkInv
    <2>2. ASSUME NEW k \in Bulks PROVE Sound(k)'
      <3>1. Sound(k) /\ Owned(k)'
        BY <2>1 DEF BulkInv, Owned
      <3> QED
        BY <2>1, <3>1 DEF Sound, Counted, OnTheList, Unfinished, Restarted, Truthful
    <2>3. /\ Shape' /\ up' \in {"serving", "stopping", "starting"} /\ flag' \in BOOLEAN
          /\ mem' \in [Bulks -> Records] /\ row' \in [Bulks -> Records] /\ abandoned' \subseteq Bulks
      BY <2>1 DEF BulkInv, Shape
    <2>5. SweepInv'
      BY <2>1 DEF BulkInv, SweepInv
    <2>4. \A k \in Bulks : Sound(k)'
      BY <2>2
    <2> QED
      BY <2>3, <2>4, <2>5 DEF BulkInv
  <1> QED
    BY <1>1, <1>2, <1>3, <1>4 DEF StartStep

LEMMA InitEstablishes == Init => BulkInv
  <1> SUFFICES ASSUME Init PROVE BulkInv
    OBVIOUS
  <1> DEFINE w == [NoWorker EXCEPT !.at = "new"]
  <1>1. w \in Workers /\ w.at = "new" /\ w.next = 1 /\ w.certs = {} /\ w.failed = {}
    BY DEF NoWorker, Workers, Places, Asked
  <1>2. worker = [j \in Bulks |-> w]
    BY DEF Init
  <1> HIDE DEF w
  <1>3. Shape /\ SweepInv /\ mem \in [Bulks -> Records] /\ row \in [Bulks -> Records]
        /\ up = "serving" /\ flag \in BOOLEAN /\ abandoned = {}
    BY <1>1, <1>2, GoneTyped DEF Init, Shape, SweepInv, Resting
  <1>4. ASSUME NEW j \in Bulks PROVE Sound(j)
    <2>1. row[j].status = "none" /\ worker[j] = w
      BY <1>2, GoneTyped DEF Init
    <2> QED
      BY <1>1, <1>3, <2>1
      DEF Sound, Counted, OnTheList, Unfinished, Restarted, Truthful, Owned, Open, Asked, Busy, Places
  <1> QED
    BY <1>3, <1>4 DEF BulkInv

LEMMA StepKeeps == BulkInv /\ [Next]_vars => BulkInv'
  <1> SUFFICES ASSUME BulkInv, [Next]_vars PROVE BulkInv'
    OBVIOUS
  <1>1. ASSUME NEW j \in Bulks, Work(j) PROVE BulkInv'
    BY <1>1, RequestKeeps, StartKeeps, EndKeeps, ProgressKeeps, CertifyKeeps, PageKeeps DEF Work
  <1>2. CASE SweepStep \/ Signal \/ Exit \/ StartStep
    BY <1>2, SweepKeeps, RestartKeeps
  <1>3. CASE UNCHANGED vars
    BY <1>3
    DEF vars, BulkInv, Shape, SweepInv, Sound, Counted, OnTheList, Unfinished, Restarted, Truthful, Owned
  <1> QED
    BY <1>1, <1>2, <1>3 DEF Next

LEMMA Invariance == Spec => []BulkInv
  BY InitEstablishes, StepKeeps, PTL DEF Spec

-----------------------------------------------------------------------------
(* The variables have their types; in particular the counters of a worker  *)
(* of bulk_cert.py split the names it has dealt with in two.               *)
THEOREM TypeCorrect == Spec => []TypeOK
  <1>1. BulkInv => TypeOK
    BY DEF BulkInv, Shape, SweepInv, Sound, Counted, Restarted, TypeOK, Workers, Places, Asked, Busy
  <1> QED
    BY Invariance, <1>1, PTL

(* A completed row has a certificate for every name, and one that says     *)
(* partial success accounts for every name (run_bulk_cert_job), though the *)
(* sweep and the recovery write the row too.                               *)
THEOREM CompletedRowsCertified == Spec => []CompletedCertified
  <1>1. BulkInv => CompletedCertified
    BY DEF BulkInv, Sound, Truthful, CompletedCertified
  <1> QED
    BY Invariance, <1>1, PTL

(* While a process runs, an open row without a worker was left by an       *)
(* exception of this process (a persist_job that raised in the request, in *)
(* run_bulk_cert_job or in the recovery, a thread that did not start) and  *)
(* never by the one before: recover_orphaned_jobs_on_startup misses none   *)
(* when it runs to its end.                                                *)
THEOREM NoRowIsAGhost == Spec => []NoGhost
  <1>1. BulkInv => NoGhost
    BY DEF BulkInv, Sound, Owned, NoGhost, OpenRows
  <1> QED
    BY Invariance, <1>1, PTL
=============================================================================
