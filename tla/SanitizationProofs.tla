------------------------- MODULE SanitizationProofs -------------------------
(***************************************************************************)
(* What a verified wipe means, for a drive of any size and any settings of *)
(* the retries, the poll and the check for zeroes.  A verdict is given     *)
(* long after the reads it rests on: the proof says what each hash that    *)
(* was read still tells of the drive, at every place of the worker.        *)
(***************************************************************************)
EXTENDS Sanitization, FiniteSetTheorems, WellFoundedInduction, TLAPS

(* Where the worker is before the command, and after the drive's report *)
Early == {"start", "capture", "erase"}
Late == {"secondary", "zeros", "compare", "again"}

Accepted == at \in Late \/ result \in Passes

(* The wipe is read, by its kind, where the worker says. *)
KindOK ==
    /\ at \in {"poll", "ask", "primary", "ends"} \/ Accepted => kind # "none"
    /\ at \in {"poll", "ask"} => kind \in FirmwareKinds
    /\ at = "ends" => kind = "overwrite"

(* A hash that is not of old data tells that there is none, for ever. *)
Written ==
    /\ \A c \in DOMAIN seen : seen[c] \in Contents /\ (seen[c] # "old" => disk[c] # "old")
    /\ \A c \in DOMAIN before : before[c] # "old" => disk[c] # "old"

(* Before the wipe a chunk is old or zero; an overwrite makes it zero. *)
Plain ==
    /\ \A c \in DOMAIN before : before[c] # "noise"
    /\ at \in Early => firmware # "running" /\ \A c \in DOMAIN seen : seen[c] # "noise"
    /\ at \in Early \/ kind = "overwrite" => \A c \in Chunks : disk[c] # "noise"
    /\ kind = "overwrite" => firmware \notin {"running", "failed"}

(* There are hashes of the first chunk, or a reason that there are none. *)
Captures ==
    /\ at \in {"start", "capture"} => before = NoHashes
    /\ before = NoHashes \/ 1 \in DOMAIN before
    /\ at \notin {"start", "capture"} => 1 \in DOMAIN before \/ stopped \/ faults > Retries

(* What is not read yet is still to be read. *)
Progress ==
    /\ at = "capture" => 1 \in todo \cup DOMAIN seen
    /\ at = "ends" => \A c \in {1, Last} : c \in todo \/ disk[c] = "zero"
    /\ at = "zeros" => before = NoHashes /\ \A c \in DOMAIN seen : seen[c] = "zero"
    /\ at = "compare" => 1 \in DOMAIN before /\ DOMAIN before \subseteq todo \cup DOMAIN seen
    /\ at = "again" => /\ 1 \in DOMAIN before /\ DOMAIN before \subseteq DOMAIN seen
                       /\ \A c \in DOMAIN before : seen[c] = before[c] /\ before[c] = before[1]

Counts ==
    /\ tries <= faults /\ (flag => stopped)
    /\ at # "end" => errors < MaxErrors

Attested ==
    Accepted /\ kind \in FirmwareKinds /\ heard # Unreadable => firmware \notin {"running", "failed"}

(* A drive whose firmware is at rest is as it was read. *)
Still ==
    at \in {"compare", "again"} /\ (kind = "overwrite" \/ heard # Unreadable) =>
        \A c \in DOMAIN seen : seen[c] = disk[c]

EndsZero == kind = "overwrite" /\ Accepted => disk[1] = "zero" /\ disk[Last] = "zero"

SanInv ==
    /\ TypeOK /\ KindOK /\ Written /\ Plain /\ Captures /\ Progress /\ Counts
    /\ Attested /\ Still /\ EndsZero /\ VerifiedLeavesNothing /\ RefusedForCause

-----------------------------------------------------------------------------
LEMMA LeastIsIn ==
    ASSUME NEW S \in SUBSET Nat, S # {}
    PROVE  Min(S) \in S /\ \A x \in S : Min(S) <= x
  <1> DEFINE R == {p \in Nat \X Nat : p[1] < p[2]}
  <1>1. IsWellFoundedOn(R, Nat)
    BY NatLessThanWellFounded DEF OpToRel
  <1>2. PICK x \in S : \A y \in S : <<y, x>> \notin R
    BY <1>1, WFMin
  <1>3. ASSUME NEW y \in S PROVE x <= y
    <2>1. <<y, x>> \in Nat \X Nat /\ <<y, x>>[1] = y /\ <<y, x>>[2] = x
      OBVIOUS
    <2>2. ~(y < x)
      BY <1>2, <2>1
    <2> QED
      BY <2>2
  <1> QED
    BY <1>3 DEF Min

(* No report of a drive that is at work or has failed passes. *)
LEMMA ReportsHonest ==
    ASSUME NEW k \in FirmwareKinds, NEW s \in {"running", "failed"},
           NEW r \in Printed(k, s), r # Unreadable
    PROVE  FirmwareVerdict(k, r) # Verified
  <1>1. r = NoReport \/ r \in Told[k][s]
    BY DEF Printed
  <1>2. CASE r = NoReport
    BY <1>2 DEF NoReport, FirmwareKinds, FirmwareVerdict, NvmeVerdict, NvmeFailed, SanitizeVerdict,
                SecurityVerdict, SasVerdict, Verified, Rejected, InProgress
  <1>3. CASE r \in Told[k][s] /\ k = "nvme"
    <2>1. CASE s = "running"
      <3>1. r.words = {"log"} /\ r.sstat = 2 /\ r.ok
        BY <1>3, <2>1 DEF Told, Log, Words, NoReport
      <3> QED
        BY <1>3, <3>1 DEF FirmwareVerdict, NvmeVerdict, NvmeFailed, NvmeRunning, Known, Low, None,
                          Verified, Rejected, InProgress
    <2>2. CASE s = "failed"
      <3>1. r.sstat \in {3, 259}
        BY <1>3, <2>2 DEF Told, Log, Words, NoReport
      <3> QED
        BY <1>3, <3>1 DEF FirmwareVerdict, NvmeVerdict, NvmeFailed, Known, Low, None, Verified, Rejected
    <2> QED
      BY <2>1, <2>2
  <1>4. CASE r \in Told[k][s] /\ k # "nvme"
    <2>1. CASE k = "sata_sanitize"
      <3>1. r = Words({"active"}) \/ r = Words({"failed"})
        BY <1>4, <2>1 DEF Told
      <3>2. r.words = {"active"} \/ r.words = {"failed"}
        BY <3>1 DEF Words, NoReport
      <3> QED
        BY <2>1, <3>2 DEF FirmwareVerdict, SanitizeVerdict, Verified, Rejected, InProgress
    <2>2. CASE k = "sata_security"
      <3>1. r = Words({"security", "enabled"})
        BY <1>4, <2>2 DEF Told
      <3>2. r.words = {"security", "enabled"}
        BY <3>1 DEF Words, NoReport
      <3> QED
        BY <2>2, <3>2 DEF FirmwareVerdict, SecurityVerdict, Verified, Rejected, InProgress
    <2>3. CASE k = "sas"
      <3>1. r = Words({"progress"}) \/ r = Words({"failed"})
        BY <1>4, <2>3 DEF Told
      <3>2. r.words = {"progress"} \/ r.words = {"failed"}
        BY <3>1 DEF Words, NoReport
      <3> QED
        BY <2>3, <3>2 DEF FirmwareVerdict, SasVerdict, Verified, Rejected, InProgress
    <2> QED
      BY <1>4, <2>1, <2>2, <2>3 DEF FirmwareKinds
  <1> QED
    BY <1>1, <1>2, <1>3, <1>4

LEMMA Erased ==
    ASSUME TypeOK, disk' \in Erasures
    PROVE  /\ disk' \in [Chunks -> Contents]
           /\ \A c \in Chunks : disk[c] # "old" => disk'[c] # "old"
           /\ kind = "overwrite" => \A c \in Chunks : disk[c] # "noise" => disk'[c] # "noise"
  <1>1. PICK S \in SUBSET Chunks, w \in Wiped : disk' = [c \in Chunks |-> IF c \in S THEN w ELSE disk[c]]
    BY DEF Erasures
  <1>2. w \in {"zero", "noise"} /\ (kind = "overwrite" => w = "zero")
    BY DEF Wiped
  <1> QED
    BY <1>1, <1>2 DEF TypeOK, Contents

LEMMA NowIsLeft ==
    ASSUME TypeOK, todo # {}
    PROVE  Now \in todo /\ Now \in 0..Last /\ (Now # 0 => Now \in Chunks)
  <1>1. todo \in SUBSET Nat /\ Last \in Nat
    BY SanitizationAssumption DEF TypeOK
  <1>2. Now \in todo
    BY <1>1, LeastIsIn DEF Now
  <1> QED
    BY <1>1, <1>2 DEF TypeOK, Chunks

(* Chunks that are read are added to what was seen, as they are. *)
LEMMA TakenTells ==
    ASSUME TypeOK, todo # {}
    PROVE  /\ DOMAIN Taken = (DOMAIN seen \cup {Now}) \ {0} /\ DOMAIN Taken \subseteq Chunks
           /\ \A c \in DOMAIN Taken : IF c = Now THEN Taken[c] = disk[c]
                                      ELSE c \in DOMAIN seen /\ Taken[c] = seen[c]
  <1>1. Now # 0 => Now \in Chunks
    BY NowIsLeft
  <1> QED
    BY <1>1 DEF Taken, TypeOK, Chunks

-----------------------------------------------------------------------------
(* A step after which there is still no verdict *)
LEMMA NoVerdict ==
    ASSUME TypeOK', at' # "end"
    PROVE  VerifiedLeavesNothing' /\ RefusedForCause'
  BY DEF TypeOK, VerifiedLeavesNothing, RefusedForCause, Passes

(* A step that gives the verdict, whatever it does to the counters *)
LEMMA EndKeeps ==
    ASSUME SanInv, at \notin {"start", "capture", "end"}, at' = "end", todo' = {}, result' \in Results,
           UNCHANGED <<request, drive, before, seen, flag, stopped>>,
           result' \in Passes => at \in Late /\ heard' = heard,
           tries' \in 0..Retries, errors' \in 0..MaxErrors, faults' \in 0..MaxFaults,
           tries' <= faults', faults' >= faults,
           VerifiedLeavesNothing', RefusedForCause'
    PROVE  SanInv'
<1>1. TypeOK /\ result = "none"
  BY DEF SanInv, TypeOK
<1>2. TypeOK'
  BY <1>1 DEF TypeOK, request, drive, Results, Passes, Refusals
<1>3. Accepted' => Accepted /\ at \in Late /\ heard' = heard
  BY DEF Accepted, Late
<1>4. KindOK' /\ Attested' /\ EndsZero'
  BY <1>3 DEF SanInv, KindOK, Attested, EndsZero, request, drive
<1>5. Written' /\ Plain' /\ Progress' /\ Still'
  BY DEF SanInv, Written, Plain, Progress, Still, request, drive, Early
<1>6. Captures' /\ Counts'
  BY <1>1, SanitizationAssumption DEF SanInv, Captures, Counts, TypeOK
<1> QED
  BY <1>2, <1>4, <1>5, <1>6 DEF SanInv

-----------------------------------------------------------------------------
(* Reading *)

LEMMA RetryKeeps == ASSUME SanInv, Retry PROVE SanInv'
<1>1. /\ TypeOK /\ at \in Reading /\ at' = at /\ result' = result
      /\ faults' = faults + 1 /\ faults < MaxFaults
      /\ tries' = tries + 1 /\ tries < Retries
      /\ UNCHANGED <<kind, full, probing, disk, firmware, exec, before, todo, seen,
                     errors, heard, flag, stopped>>
  BY DEF SanInv, Retry, Fault, MayRead, TriesLeft, request, drive
<1>2. TypeOK'
  BY <1>1, SanitizationAssumption DEF TypeOK
<1>3. KindOK' /\ Attested' /\ EndsZero' /\ Still'
  BY <1>1 DEF SanInv, KindOK, Attested, EndsZero, Still, Accepted
<1>4. Written' /\ Plain' /\ Progress'
  BY <1>1 DEF SanInv, Written, Plain, Progress
<1>5. Captures' /\ Counts'
  BY <1>1, SanitizationAssumption DEF SanInv, Captures, Counts, TypeOK
<1> QED
  BY <1>1, <1>2, <1>3, <1>4, <1>5, NoVerdict DEF SanInv, Reading

LEMMA ReadKeeps == ASSUME SanInv, Read PROVE SanInv'
<1>1. /\ TypeOK /\ at \in Reading \ {"again"} /\ at' = at /\ result' = result /\ todo # {} /\ ~NotZero
      /\ todo' = todo \ {Now} /\ tries' = 0 /\ seen' = Taken
      /\ UNCHANGED <<kind, full, probing, disk, firmware, exec, before, errors, heard,
                     flag, stopped, faults>>
  BY DEF SanInv, Read, MayRead, Took, request, drive
<1>2. /\ Now \in todo /\ (Now # 0 => Now \in Chunks)
      /\ DOMAIN seen' = (DOMAIN seen \cup {Now}) \ {0} /\ DOMAIN seen' \subseteq Chunks
      /\ \A c \in DOMAIN seen' : IF c = Now THEN seen'[c] = disk[c]
                                 ELSE c \in DOMAIN seen /\ seen'[c] = seen[c]
  BY <1>1, NowIsLeft, TakenTells
<1>3. DOMAIN seen \subseteq Chunks /\ 0 \notin Chunks /\ {1, Last} \subseteq Chunks
  BY <1>1, SanitizationAssumption DEF TypeOK, Chunks
<1>4. TypeOK'
  BY <1>1, <1>2, SanitizationAssumption DEF TypeOK
<1>5. KindOK' /\ Attested' /\ EndsZero' /\ Captures' /\ Counts'
  BY <1>1, SanitizationAssumption
     DEF SanInv, KindOK, Attested, EndsZero, Captures, Counts, Accepted, TypeOK
<1>6. Written' /\ Plain' /\ Still'
  BY <1>1, <1>2 DEF SanInv, Written, Plain, Still, TypeOK, Reading, Early
<1>7. Progress'
  <2>1. at = "capture" => 1 \in todo' \cup DOMAIN seen'
    BY <1>1, <1>2, <1>3 DEF SanInv, Progress
  <2>2. at = "ends" => \A c \in {1, Last} : c \in todo' \/ disk[c] = "zero"
    BY <1>1, <1>2, <1>3 DEF SanInv, Progress, NotZero
  <2>3. at = "zeros" => \A c \in DOMAIN seen' : seen'[c] = "zero"
    BY <1>1, <1>2, <1>3 DEF SanInv, Progress, NotZero
  <2>4. at = "compare" => DOMAIN before \subseteq todo' \cup DOMAIN seen'
    BY <1>1, <1>2, <1>3 DEF SanInv, Progress, TypeOK
  <2> QED
    BY <1>1, <2>1, <2>2, <2>3, <2>4 DEF SanInv, Progress
<1> QED
  BY <1>1, <1>4, <1>5, <1>6, <1>7, NoVerdict DEF SanInv, Reading

(* Data that is found is old: an overwrite leaves nothing else, and after  *)
(* a command to the firmware zeroes are only asked for if the capture      *)
(* failed.                                                                 *)
LEMMA FindDataKeeps == ASSUME SanInv, FindData PROVE SanInv'
<1>1. /\ TypeOK /\ at \in {"ends", "zeros"} /\ at' = "end" /\ result' = "nonzero" /\ todo # {} /\ todo' = {}
      /\ Now # 0 /\ disk[Now] # "zero" /\ tries' = 0 /\ seen' = Taken
      /\ UNCHANGED <<kind, full, probing, disk, firmware, exec, before, errors, heard,
                     flag, stopped, faults>>
  BY DEF SanInv, FindData, MayRead, NotZero, End, request, drive
<1>2. /\ Now \in Chunks /\ Now \in DOMAIN seen' /\ seen'[Now] = disk[Now]
      /\ DOMAIN seen' \subseteq Chunks
      /\ \A c \in DOMAIN seen' : IF c = Now THEN seen'[c] = disk[c]
                                 ELSE c \in DOMAIN seen /\ seen'[c] = seen[c]
  BY <1>1, NowIsLeft, TakenTells
<1>3. TypeOK'
  BY <1>1, <1>2, SanitizationAssumption DEF TypeOK, Results, Refusals
<1>4. KindOK' /\ Attested' /\ EndsZero' /\ Captures' /\ Counts'
  BY <1>1, SanitizationAssumption
     DEF SanInv, KindOK, Attested, EndsZero, Captures, Counts, Accepted, Passes, Late, TypeOK
<1>5. Written' /\ Plain' /\ Still' /\ Progress'
  BY <1>1, <1>2 DEF SanInv, Written, Plain, Still, Progress, TypeOK, Early
<1>6. VerifiedLeavesNothing'
  BY <1>1 DEF VerifiedLeavesNothing, Passes
<1>7. RefusedForCause'
  <2>1. CASE disk[Now] = "old"
    BY <1>1, <1>2, <2>1 DEF RefusedForCause
  <2>2. CASE disk[Now] = "noise"
    <3>1. at = "zeros" /\ before = NoHashes
      BY <1>1, <1>2, <2>2 DEF SanInv, KindOK, Plain, Progress
    <3>2. stopped \/ faults > Retries
      BY <3>1 DEF SanInv, Captures, NoHashes
    <3> QED
      BY <1>1, <3>2 DEF RefusedForCause
  <2> QED
    BY <1>1, <1>2, <2>1, <2>2 DEF TypeOK, Contents
<1> QED
  BY <1>3, <1>4, <1>5, <1>6, <1>7 DEF SanInv

LEMMA ReadFailsKeeps == ASSUME SanInv, ReadFails PROVE SanInv'
<1>1. /\ TypeOK /\ at \in Reading \ {"capture"} /\ at' = "end" /\ todo' = {} /\ tries' = 0
      /\ faults' = faults + 1 /\ faults < MaxFaults /\ ~TriesLeft
      /\ result' \in {"error", "unchanged"}
      /\ UNCHANGED <<kind, full, probing, disk, firmware, exec, before, seen, errors,
                     heard, flag, stopped>>
  BY DEF SanInv, ReadFails, Fault, request, drive
<1>2. faults \in Nat /\ faults' \in 0..MaxFaults /\ Retries \in Nat /\ tries \in 0..Retries
  BY <1>1, SanitizationAssumption DEF TypeOK
<1>3. faults' > Retries \/ (kind = "overwrite" /\ faults' > 0)
  <2>1. CASE at = "ends"
    BY <1>1, <1>2, <2>1 DEF SanInv, KindOK
  <2>2. CASE at # "ends"
    BY <1>1, <1>2, <2>2 DEF SanInv, Counts, TriesLeft
  <2> QED
    BY <2>1, <2>2
<1>4. RefusedForCause' /\ VerifiedLeavesNothing'
  BY <1>1, <1>3 DEF RefusedForCause, VerifiedLeavesNothing, Passes
<1> QED
  BY <1>1, <1>2, <1>4, EndKeeps DEF TypeOK, Reading, Results, Refusals, Passes, request, drive

-----------------------------------------------------------------------------
(* Before and during the wipe *)

LEMMA SamplesTyped ==
    ASSUME NEW S \in Samples
    PROVE  S \subseteq 0..Last /\ 1 \in S
<1>1. PICK T \in SUBSET (Chunks \ {1}) : S = {0, 1} \cup T
  BY DEF Samples
<1>2. Last \in Nat \ {0}
  BY SanitizationAssumption
<1>3. Chunks \subseteq 0..Last /\ {0, 1} \subseteq 0..Last
  BY <1>2 DEF Chunks
<1> QED
  BY <1>1, <1>3

LEMMA StartCaptureKeeps == ASSUME SanInv, StartCapture PROVE SanInv'
<1>1. PICK S \in Samples : Enter("capture", S)
  BY DEF StartCapture
<1>2. /\ TypeOK /\ at = "start" /\ at' = "capture" /\ result' = result /\ todo' = S
      /\ seen' = NoHashes /\ tries' = 0
      /\ flag' = FALSE
      /\ UNCHANGED <<kind, full, probing, disk, firmware, exec, before, errors, heard,
                     stopped, faults>>
  BY <1>1 DEF SanInv, StartCapture, Enter, request, drive
<1>3. DOMAIN NoHashes = {} /\ S \subseteq 0..Last /\ 1 \in S
  BY SamplesTyped DEF NoHashes
<1>4. TypeOK'
  <2>1. DOMAIN seen' = {} /\ todo' \subseteq 0..Last /\ tries' \in 0..Retries
    BY <1>2, <1>3, SanitizationAssumption
  <2> QED
    BY <1>2, <2>1 DEF TypeOK, Reading
<1>5. KindOK' /\ Attested' /\ EndsZero' /\ Captures' /\ Counts'
  BY <1>2, SanitizationAssumption
     DEF SanInv, KindOK, Attested, EndsZero, Captures, Counts, Accepted, Late, TypeOK
<1>6. Written' /\ Plain' /\ Still' /\ Progress'
  BY <1>2, <1>3 DEF SanInv, Written, Plain, Still, Progress, Early
<1> QED
  BY <1>2, <1>4, <1>5, <1>6, NoVerdict DEF SanInv

(* A capture that ends leaves the hashes of a sample with the first chunk, *)
(* or none because of a signal, or because more reads failed than are      *)
(* repeated.                                                               *)
LEMMA CaptureEndKeeps == ASSUME SanInv, EndCapture \/ CaptureFails PROVE SanInv'
<1>1. /\ TypeOK /\ at = "capture" /\ at' = "erase" /\ result' = result /\ todo' = {} /\ tries' = 0
      /\ UNCHANGED <<kind, full, probing, disk, firmware, exec, seen, errors, heard, flag, stopped>>
  BY DEF SanInv, EndCapture, CaptureFails, Goto, request, drive
<1>2. /\ faults' \in 0..MaxFaults /\ faults' >= faults /\ before = NoHashes
      /\ \/ before' = seen /\ 1 \in DOMAIN before'
         \/ before' = before /\ (stopped \/ faults' > Retries)
  <2>1. faults \in 0..MaxFaults /\ tries \in 0..Retries /\ tries <= faults /\ before = NoHashes
    BY <1>1 DEF SanInv, Counts, TypeOK, Captures
  <2>2. CASE EndCapture
    BY <1>1, <2>1, <2>2, SanitizationAssumption DEF EndCapture, Goto, SanInv, Progress, Counts
  <2>3. CASE CaptureFails
    BY <1>1, <2>1, <2>3, SanitizationAssumption DEF CaptureFails, Fault, TriesLeft
  <2> QED
    BY <2>2, <2>3
<1>3. DOMAIN NoHashes = {}
  BY DEF NoHashes
<1>4. TypeOK'
  BY <1>1, <1>2, SanitizationAssumption DEF TypeOK, SanInv, Written
<1>5. KindOK' /\ Attested' /\ EndsZero' /\ Captures' /\ Counts'
  BY <1>1, <1>2, SanitizationAssumption
     DEF SanInv, KindOK, Attested, EndsZero, Captures, Counts, Accepted, Late, TypeOK
<1>6. Written' /\ Plain' /\ Still' /\ Progress'
  BY <1>1, <1>2, <1>3 DEF SanInv, Written, Plain, Still, Progress, Early
<1> QED
  BY <1>1, <1>4, <1>5, <1>6, NoVerdict DEF SanInv

LEMMA EraseKeeps == ASSUME SanInv, Erase PROVE SanInv'
<1>1. /\ TypeOK /\ at = "erase" /\ kind # "none" /\ disk' \in Erasures /\ exec' \in BOOLEAN
      /\ at' = (IF kind = "overwrite" THEN "primary" ELSE "poll") /\ firmware' \in FirmwareStates
      /\ (kind = "overwrite" => firmware' = firmware)
      /\ UNCHANGED <<kind, full, probing, before, todo, seen, tries, errors, heard, flag,
                     stopped, faults, result>>
  BY DEF SanInv, Erase, TypeOK, FirmwareStates, request
<1>2. /\ disk' \in [Chunks -> Contents]
      /\ \A c \in Chunks : disk[c] # "old" => disk'[c] # "old"
      /\ kind = "overwrite" => \A c \in Chunks : disk[c] # "noise" => disk'[c] # "noise"
  BY <1>1, Erased
<1>3. TypeOK'
  BY <1>1, <1>2 DEF TypeOK, Reading
<1>4. KindOK' /\ Attested' /\ EndsZero' /\ Captures' /\ Counts'
  BY <1>1 DEF SanInv, KindOK, Attested, EndsZero, Captures, Counts, Accepted, Late, TypeOK, Kinds, Passes
<1>5. Written' /\ Plain' /\ Still' /\ Progress'
  BY <1>1, <1>2 DEF SanInv, Written, Plain, Still, Progress, Early, TypeOK
<1> QED
  BY <1>1, <1>3, <1>4, <1>5, NoVerdict DEF SanInv

(* The firmware erases on: whatever was not old is not old afterwards, and *)
(* no wipe that was accepted is touched, unless its report was unreadable. *)
LEMMA FirmwareEndsKeeps == ASSUME SanInv, FirmwareEnds PROVE SanInv'
<1>1. /\ TypeOK /\ firmware = "running" /\ firmware' \in {"failed", "done"} /\ disk' \in Erasures
      /\ UNCHANGED <<kind, full, probing, exec, before, at, todo, seen, tries, errors,
                     heard, flag, stopped,
                     faults, result>>
  BY DEF SanInv, FirmwareEnds, request
<1>2. /\ disk' \in [Chunks -> Contents]
      /\ \A c \in Chunks : disk[c] # "old" => disk'[c] # "old"
  BY <1>1, Erased
<1>3. kind # "overwrite" /\ at \notin Early
  BY <1>1 DEF SanInv, Plain
<1>4. TypeOK'
  BY <1>1, <1>2 DEF TypeOK, FirmwareStates
<1>5. KindOK' /\ Captures' /\ Counts' /\ EndsZero'
  BY <1>1, <1>3 DEF SanInv, KindOK, Captures, Counts, EndsZero, Accepted
<1>6. Attested' /\ Still'
  <2>1. Accepted => kind \notin FirmwareKinds \/ heard = Unreadable
    BY <1>1 DEF SanInv, Attested
  <2>2. Accepted => kind \in FirmwareKinds
    BY <1>1, <1>3 DEF SanInv, KindOK, TypeOK, Kinds
  <2> QED
    BY <1>1, <1>3, <2>1, <2>2 DEF Attested, Still, Accepted, Late
<1>7. Written' /\ Plain' /\ Progress'
  BY <1>1, <1>2, <1>3 DEF SanInv, Written, Plain, Progress, TypeOK, KindOK
<1>8. VerifiedLeavesNothing'
  <2>1. DOMAIN before \subseteq Chunks /\ DOMAIN seen \subseteq Chunks
    BY <1>1 DEF TypeOK
  <2> QED
    BY <1>1, <1>2, <1>3, <2>1 DEF SanInv, VerifiedLeavesNothing
<1>9. RefusedForCause'
  BY <1>1 DEF SanInv, RefusedForCause
<1> QED
  BY <1>4, <1>5, <1>6, <1>7, <1>8, <1>9 DEF SanInv

-----------------------------------------------------------------------------
(* The poll and the primary verification *)

LEMMA AskKeeps == ASSUME SanInv, Ask PROVE SanInv'
<1>1. /\ TypeOK /\ at = "poll" /\ at' = "ask"
      /\ UNCHANGED <<kind, full, probing, disk, firmware, exec, before, todo, seen,
                     tries, errors, heard, flag, stopped, faults, result>>
  BY DEF SanInv, Ask, request, drive
<1>2. TypeOK' /\ KindOK' /\ Attested' /\ EndsZero' /\ Captures' /\ Counts'
  BY <1>1 DEF SanInv, TypeOK, KindOK, Attested, EndsZero, Captures, Counts, Accepted, Late, Reading
<1>3. Written' /\ Plain' /\ Still' /\ Progress' /\ VerifiedLeavesNothing' /\ RefusedForCause'
  BY <1>1 DEF SanInv, Written, Plain, Still, Progress, Early, VerifiedLeavesNothing, RefusedForCause
<1> QED
  BY <1>2, <1>3 DEF SanInv

LEMMA AnswerKeeps == ASSUME SanInv, Answer PROVE SanInv'
<1>1. /\ TypeOK /\ at = "ask" /\ todo = {} /\ result = "none"
      /\ UNCHANGED <<kind, full, probing, disk, firmware, exec, before, todo, seen,
                     tries, heard, flag, stopped, faults>>
  BY DEF SanInv, Answer, TypeOK, Reading, request, drive
<1>2. /\ errors < MaxErrors /\ MaxErrors \in Nat /\ errors \in Nat
  BY <1>1, SanitizationAssumption DEF SanInv, Counts, TypeOK
<1>3. /\ errors' \in {0, errors + 1}
      /\ \/ at' \in {"primary", "poll"} /\ errors' < MaxErrors /\ result' = result
         \/ at' = "end" /\ result' = "polling"
  <2>1. PICK report \in Printed(kind, firmware) :
            LET verdict == FirmwareVerdict(kind, report)
                failed == IF verdict = Rejected THEN errors + 1 ELSE 0
            IN /\ errors' = failed
               /\ at' = IF verdict = Verified THEN "primary"
                        ELSE IF failed = MaxErrors THEN "end" ELSE "poll"
               /\ result' = IF failed = MaxErrors THEN "polling" ELSE result
    BY DEF Answer
  <2>2. CASE FirmwareVerdict(kind, report) = Rejected
    BY <1>2, <2>1, <2>2 DEF Verified, Rejected
  <2>3. CASE FirmwareVerdict(kind, report) # Rejected
    BY <1>2, <2>1, <2>3, SanitizationAssumption
  <2> QED
    BY <2>2, <2>3
<1>4. errors' \in 0..MaxErrors
  BY <1>2, <1>3
<1>5. CASE at' \in {"primary", "poll"} /\ errors' < MaxErrors /\ result' = result
  <2>1. TypeOK'
    BY <1>1, <1>4, <1>5 DEF TypeOK
  <2>2. KindOK' /\ Attested' /\ EndsZero' /\ Captures' /\ Counts'
    BY <1>1, <1>5 DEF SanInv, KindOK, Attested, EndsZero, Captures, Counts, Accepted, Late, Passes
  <2>3. Written' /\ Plain' /\ Still' /\ Progress'
    BY <1>1, <1>5 DEF SanInv, Written, Plain, Still, Progress, Early
  <2> QED
    BY <1>5, <2>1, <2>2, <2>3, NoVerdict DEF SanInv
<1>6. CASE at' = "end" /\ result' = "polling"
  <2>1. VerifiedLeavesNothing' /\ RefusedForCause'
    BY <1>6 DEF VerifiedLeavesNothing, RefusedForCause, Passes
  <2>2. tries' \in 0..Retries /\ faults' \in 0..MaxFaults /\ tries' <= faults' /\ faults' >= faults
    BY <1>1 DEF SanInv, TypeOK, Counts
  <2> QED
    BY <1>1, <1>4, <1>6, <2>1, <2>2, EndKeeps DEF Results, Refusals, Passes, request, drive
<1> QED
  BY <1>3, <1>5, <1>6

(* The drive's report is accepted: if the server can read it, the firmware *)
(* is at rest, and stays so.                                               *)
LEMMA PrimaryKeeps == ASSUME SanInv, Primary PROVE SanInv'
<1>1. /\ TypeOK /\ at = "primary" /\ todo = {} /\ result = "none" /\ kind \in FirmwareKinds
      /\ heard' \in Printed(kind, firmware)
      /\ UNCHANGED <<kind, full, probing, disk, firmware, exec, before, todo, seen,
                     tries, errors, flag, stopped, faults>>
  BY DEF SanInv, Primary, TypeOK, Reading, KindOK, Kinds, request, drive
<1>2. CASE FirmwareVerdict(kind, heard') = Verified
  <2>1. at' = "secondary" /\ result' = result
    BY <1>2 DEF Primary
  <2>2. heard' # Unreadable => firmware \notin {"running", "failed"}
    BY <1>1, <1>2, ReportsHonest
  <2>3. TypeOK'
    BY <1>1, <2>1 DEF TypeOK
  <2>4. KindOK' /\ Attested' /\ EndsZero' /\ Captures' /\ Counts'
    BY <1>1, <2>1, <2>2
       DEF SanInv, KindOK, Attested, EndsZero, Captures, Counts, Accepted, Late, Passes, FirmwareKinds
  <2>5. Written' /\ Plain' /\ Still' /\ Progress'
    BY <1>1, <2>1 DEF SanInv, Written, Plain, Still, Progress, Early
  <2> QED
    BY <2>1, <2>3, <2>4, <2>5, NoVerdict DEF SanInv
<1>3. CASE FirmwareVerdict(kind, heard') # Verified
  <2>1. at' = "end" /\ result' = "rejected"
    BY <1>3 DEF Primary
  <2>2. VerifiedLeavesNothing' /\ RefusedForCause'
    BY <2>1 DEF VerifiedLeavesNothing, RefusedForCause, Passes
  <2>3. /\ tries' \in 0..Retries /\ faults' \in 0..MaxFaults /\ errors' \in 0..MaxErrors
        /\ tries' <= faults' /\ faults' >= faults
    BY <1>1 DEF SanInv, TypeOK, Counts
  <2> QED
    BY <1>1, <2>1, <2>2, <2>3, EndKeeps DEF Results, Passes, request, drive
<1> QED
  BY <1>2, <1>3

LEMMA ReadEndsKeeps == ASSUME SanInv, ReadEnds PROVE SanInv'
<1>1. /\ TypeOK /\ at = "primary" /\ at' = "ends" /\ todo' = {0, 1, Last}
      /\ seen' = NoHashes /\ kind = "overwrite"
      /\ UNCHANGED <<kind, full, probing, disk, firmware, exec, before, tries, errors,
                     heard, flag, stopped, faults, result>>
  BY DEF SanInv, ReadEnds, request, drive
<1>2. DOMAIN NoHashes = {} /\ {0, 1, Last} \subseteq 0..Last
  BY SanitizationAssumption DEF NoHashes
<1>3. TypeOK'
  BY <1>1, <1>2 DEF TypeOK, Reading
<1>4. KindOK' /\ Attested' /\ EndsZero' /\ Captures' /\ Counts'
  BY <1>1 DEF SanInv, KindOK, Attested, EndsZero, Captures, Counts, Accepted, Late
<1>5. Written' /\ Plain' /\ Still' /\ Progress'
  BY <1>1, <1>2 DEF SanInv, Written, Plain, Still, Progress, Early
<1> QED
  BY <1>1, <1>3, <1>4, <1>5, NoVerdict DEF SanInv

LEMMA EndsReadKeeps == ASSUME SanInv, EndsRead PROVE SanInv'
<1>1. /\ TypeOK /\ at = "ends" /\ at' = "secondary" /\ todo = {} /\ todo' = {}
      /\ tries' = 0 /\ result' = result
      /\ UNCHANGED <<kind, full, probing, disk, firmware, exec, before, seen, errors,
                     heard, flag, stopped, faults>>
  BY DEF SanInv, EndsRead, Goto, request, drive
<1>2. kind = "overwrite" /\ disk[1] = "zero" /\ disk[Last] = "zero"
  BY <1>1 DEF SanInv, KindOK, Progress
<1>3. TypeOK'
  BY <1>1, SanitizationAssumption DEF TypeOK
<1>4. KindOK' /\ Attested' /\ EndsZero' /\ Captures' /\ Counts'
  BY <1>1, <1>2, SanitizationAssumption
     DEF SanInv, KindOK, Attested, EndsZero, Captures, Counts, Accepted, TypeOK, FirmwareKinds
<1>5. Written' /\ Plain' /\ Still' /\ Progress'
  BY <1>1 DEF SanInv, Written, Plain, Still, Progress, Early
<1> QED
  BY <1>1, <1>3, <1>4, <1>5, NoVerdict DEF SanInv

-----------------------------------------------------------------------------
(* The secondary verification *)

LEMMA SecondaryKeeps == ASSUME SanInv, Secondary PROVE SanInv'
<1>1. TypeOK /\ at = "secondary" /\ result = "none" /\ Accepted /\ Late \subseteq {"secondary"} \cup Reading
  BY DEF SanInv, Secondary, TypeOK, Accepted, Late, Reading
<1>2. CASE End("skipped") /\ UNCHANGED seen
  <2>1. /\ at' = "end" /\ result' = "skipped" /\ todo' = {} /\ tries' = 0
        /\ UNCHANGED <<request, drive, before, seen, errors, heard, flag, stopped, faults>>
    BY <1>2 DEF End
  <2>2. VerifiedLeavesNothing'
    BY <1>1, <2>1 DEF SanInv, EndsZero, VerifiedLeavesNothing, request, drive
  <2>3. RefusedForCause'
    BY <2>1 DEF RefusedForCause
  <2>4. /\ tries' \in 0..Retries /\ faults' \in 0..MaxFaults /\ errors' \in 0..MaxErrors
        /\ tries' <= faults' /\ faults' >= faults
    BY <1>1, <2>1, SanitizationAssumption DEF TypeOK
  <2> QED
    BY <1>1, <2>1, <2>2, <2>3, <2>4, EndKeeps DEF Results, Passes, Late
<1>3. ASSUME NEW step \in {"compare", "zeros"}, NEW S \in SUBSET (0..Last), Enter(step, S),
             IF step = "compare" THEN Captured /\ S = {0} \cup DOMAIN before ELSE ~Captured
      PROVE  SanInv'
  <2>1. /\ at' = step /\ todo' = S /\ seen' = NoHashes /\ tries' = 0 /\ flag' = FALSE /\ result' = result
        /\ UNCHANGED <<kind, full, probing, disk, firmware, exec, before, errors, heard,
                       stopped, faults>>
    BY <1>3 DEF Enter, request, drive
  <2>2. DOMAIN NoHashes = {}
    BY DEF NoHashes
  <2>3. TypeOK'
    <3>1. DOMAIN seen' = {} /\ tries' \in 0..Retries
      BY <2>1, <2>2, SanitizationAssumption
    <3> QED
      BY <1>1, <2>1, <3>1 DEF TypeOK, Reading
  <2>4. KindOK' /\ Attested' /\ EndsZero' /\ Captures' /\ Counts'
    BY <1>1, <2>1, SanitizationAssumption
       DEF SanInv, KindOK, Attested, EndsZero, Captures, Counts, Accepted, TypeOK
  <2>5. Written' /\ Plain' /\ Still'
    BY <1>1, <2>1, <2>2 DEF SanInv, Written, Plain, Still, Early
  <2>6. Progress'
    BY <1>3, <2>1, <2>2 DEF SanInv, Progress, Captures, Captured
  <2> QED
    BY <2>1, <2>3, <2>4, <2>5, <2>6, NoVerdict DEF SanInv
<1>4. CASE probing /\ Captured /\ Enter("compare", {0} \cup DOMAIN before)
  <2>1. {0} \cup DOMAIN before \in SUBSET (0..Last)
    BY <1>1, SanitizationAssumption DEF TypeOK, Chunks
  <2> QED
    BY <1>3, <1>4, <2>1
<1>5. CASE probing /\ ~Captured /\ \E S \in ZeroSamples : Enter("zeros", S)
  <2>1. ZeroSamples \subseteq SUBSET (0..Last)
    BY SamplesTyped DEF ZeroSamples
  <2> QED
    BY <1>3, <1>5, <2>1
<1> QED
  BY <1>2, <1>4, <1>5 DEF Secondary

LEMMA ZerosReadKeeps == ASSUME SanInv, ZerosRead PROVE SanInv'
<1>1. /\ TypeOK /\ at = "zeros" /\ at' = "end" /\ result' = "sampled" /\ todo' = {} /\ tries' = 0
      /\ UNCHANGED <<request, drive, before, seen, errors, heard, flag, stopped, faults>>
  BY DEF SanInv, ZerosRead, End
<1>2. VerifiedLeavesNothing'
  <2>1. \A c \in DOMAIN seen : disk[c] # "old"
    BY <1>1 DEF SanInv, Progress, Written
  <2>2. kind = "overwrite" => disk[1] = "zero" /\ disk[Last] = "zero"
    BY <1>1 DEF SanInv, EndsZero, Accepted, Late
  <2> QED
    BY <1>1, <2>1, <2>2 DEF VerifiedLeavesNothing, request, drive
<1>3. RefusedForCause'
  BY <1>1 DEF RefusedForCause
<1>4. /\ tries' \in 0..Retries /\ faults' \in 0..MaxFaults /\ errors' \in 0..MaxErrors
      /\ tries' <= faults' /\ faults' >= faults
  BY <1>1, SanitizationAssumption DEF TypeOK
<1> QED
  BY <1>1, <1>2, <1>3, <1>4, EndKeeps DEF Results, Passes, Late

(* The chunks that a comparison passes held old data, which they no longer *)
(* hold, or zeroes, before and after.                                      *)
LEMMA JudgeKeeps == ASSUME SanInv, Judge PROVE SanInv'
<1>1. /\ TypeOK /\ at = "compare" /\ todo = {} /\ at' = "end"
      /\ result' \in {Comparison, "interrupted"} /\ (result' = "interrupted" => stopped')
      /\ todo' = {} /\ tries' = 0
      /\ Comparison # "unchanged"
      /\ UNCHANGED <<request, drive, before, seen, errors, heard, flag, stopped, faults>>
  <2>1. Comparison # "interrupted" /\ (flag => stopped)
    BY DEF SanInv, Counts, Comparison
  <2> QED
    BY <2>1 DEF SanInv, Judge, Compared, End
<1>2. /\ DOMAIN before \subseteq DOMAIN seen /\ Comparison \in {"partial", "compared"}
      /\ (Comparison = "compared" <=> \A c \in Unchanged : before[c] = "zero")
  BY <1>1 DEF SanInv, Progress, Comparison
<1>3. VerifiedLeavesNothing'
  <2>1. ASSUME Comparison = "compared", NEW c \in DOMAIN before PROVE disk[c] # "old"
    <3>1. CASE before[c] # "old"
      BY <3>1 DEF SanInv, Written
    <3>2. CASE before[c] = "old"
      <4>1. seen[c] # "old"
        BY <1>2, <2>1, <3>2 DEF Unchanged
      <4> QED
        BY <1>2, <4>1 DEF SanInv, Written
    <3> QED
      BY <3>1, <3>2
  <2>2. kind = "overwrite" => disk[1] = "zero" /\ disk[Last] = "zero"
    BY <1>1 DEF SanInv, EndsZero, Accepted, Late
  <2> QED
    BY <1>1, <1>2, <2>1, <2>2 DEF VerifiedLeavesNothing, request, drive
<1>4. RefusedForCause'
  <2>1. ASSUME Comparison = "partial" PROVE \E c \in DOMAIN seen : seen[c] = "old"
    <3>1. PICK c \in DOMAIN before : seen[c] = before[c] /\ before[c] # "zero"
      BY <1>2, <2>1 DEF Unchanged
    <3>2. before[c] = "old"
      BY <1>1, <3>1 DEF SanInv, TypeOK, Plain, Contents
    <3> QED
      BY <1>2, <3>1, <3>2
  <2> QED
    BY <1>1, <1>2, <2>1 DEF RefusedForCause
<1>5. /\ tries' \in 0..Retries /\ faults' \in 0..MaxFaults /\ errors' \in 0..MaxErrors
      /\ tries' <= faults' /\ faults' >= faults
  BY <1>1, SanitizationAssumption DEF TypeOK
<1> QED
  BY <1>1, <1>2, <1>3, <1>4, <1>5, EndKeeps DEF Results, Refusals, Passes, Late

(* Hashes of more than one kind that did not change: one is of old data. *)
LEMMA OneKind ==
    ASSUME TypeOK, 1 \in DOMAIN before
    PROVE  LET hashes == {before[c] : c \in DOMAIN before}
           IN  IF Cardinality(hashes) = 1 THEN \A c \in DOMAIN before : before[c] = before[1]
               ELSE \E c \in DOMAIN before : before[c] # "zero"
<1> DEFINE hashes == {before[c] : c \in DOMAIN before}
<1>1. IsFiniteSet(hashes)
  <2>1. IsFiniteSet({"old"}) /\ IsFiniteSet({"old"} \cup {"zero"})
        /\ IsFiniteSet(({"old"} \cup {"zero"}) \cup {"noise"})
    BY FS_Singleton, FS_AddElement
  <2>2. hashes \subseteq ({"old"} \cup {"zero"}) \cup {"noise"}
    BY DEF TypeOK, Contents
  <2> QED
    BY <2>1, <2>2, FS_Subset
<1>2. Cardinality(hashes) = 1 <=> \E x : hashes = {x}
  BY <1>1, FS_Singleton
<1>3. CASE Cardinality(hashes) = 1
  BY <1>2, <1>3
<1>4. CASE Cardinality(hashes) # 1
  <2>1. hashes # {"zero"}
    BY <1>2, <1>4
  <2> QED
    BY <1>4, <2>1
<1> QED
  BY <1>3, <1>4

LEMMA ReadAgainKeeps == ASSUME SanInv, ReadAgain PROVE SanInv'
<1>1. /\ TypeOK /\ at = "compare" /\ todo = {} /\ result = "none" /\ Comparison = "unchanged"
      /\ UNCHANGED <<kind, full, probing, disk, firmware, exec, before, seen, tries,
                     errors, heard, flag,
                     stopped, faults>>
  BY DEF SanInv, ReadAgain, Compared, TypeOK, request, drive
<1>2. /\ 1 \in DOMAIN before /\ DOMAIN before \subseteq DOMAIN seen
      /\ \A c \in DOMAIN before : seen[c] = before[c]
  BY <1>1 DEF SanInv, Progress, Comparison, Unchanged
<1> DEFINE hashes == {before[c] : c \in DOMAIN before}
<1>3. CASE Cardinality(hashes) = 1
  <2>1. at' = "again" /\ todo' = {1} /\ result' = result
    BY <1>3 DEF ReadAgain
  <2>2. \A c \in DOMAIN before : before[c] = before[1]
    BY <1>1, <1>2, <1>3, OneKind
  <2>3. TypeOK'
    BY <1>1, <2>1, SanitizationAssumption DEF TypeOK, Reading
  <2>4. KindOK' /\ Attested' /\ EndsZero' /\ Captures' /\ Counts'
    BY <1>1, <2>1 DEF SanInv, KindOK, Attested, EndsZero, Captures, Counts, Accepted, Late, TypeOK
  <2>5. Written' /\ Plain' /\ Still' /\ Progress'
    BY <1>1, <1>2, <2>1, <2>2 DEF SanInv, Written, Plain, Still, Progress, Early
  <2> QED
    BY <2>1, <2>3, <2>4, <2>5, NoVerdict DEF SanInv
<1>4. CASE Cardinality(hashes) # 1
  <2>1. at' = "end" /\ result' = "unchanged" /\ todo' = {}
    BY <1>1, <1>4 DEF ReadAgain
  <2>2. RefusedForCause'
    <3>1. PICK c \in DOMAIN before : before[c] # "zero"
      BY <1>1, <1>2, <1>4, OneKind
    <3>2. before[c] = "old"
      BY <1>1, <3>1 DEF SanInv, TypeOK, Plain, Contents
    <3> QED
      BY <1>1, <1>2, <3>2 DEF RefusedForCause
  <2>3. VerifiedLeavesNothing'
    BY <2>1 DEF VerifiedLeavesNothing, Passes
  <2>4. /\ tries' \in 0..Retries /\ faults' \in 0..MaxFaults /\ errors' \in 0..MaxErrors
        /\ tries' <= faults' /\ faults' >= faults
    BY <1>1 DEF SanInv, Counts, TypeOK
  <2> QED
    BY <1>1, <2>1, <2>2, <2>3, <2>4, EndKeeps DEF Results, Refusals, Passes, request, drive
<1> QED
  BY <1>3, <1>4

(* The first chunk is still what it was: unless the firmware is at work,   *)
(* it is zero if and only if the hashes were of zeroes.                    *)
LEMMA AgainReadKeeps == ASSUME SanInv, AgainRead PROVE SanInv'
<1>1. /\ TypeOK /\ at = "again" /\ at' = "end" /\ todo' = {} /\ tries' = 0
      /\ result' = (IF disk[1] = "zero" THEN "compared" ELSE "unchanged")
      /\ UNCHANGED <<request, drive, before, seen, errors, heard, flag, stopped, faults>>
  BY DEF SanInv, AgainRead, End
<1>2. /\ 1 \in DOMAIN before /\ DOMAIN before \subseteq DOMAIN seen
      /\ \A c \in DOMAIN before : seen[c] = before[c] /\ before[c] = before[1]
  BY <1>1 DEF SanInv, Progress
<1>3. heard # Unreadable \/ kind = "overwrite" => \A c \in DOMAIN seen : seen[c] = disk[c]
  BY <1>1 DEF SanInv, Still
<1>4. VerifiedLeavesNothing'
  <2>1. disk[1] = "zero" /\ heard # Unreadable => \A c \in DOMAIN before : disk[c] # "old"
    BY <1>2, <1>3
  <2>2. kind = "overwrite" => disk[1] = "zero" /\ disk[Last] = "zero"
    BY <1>1 DEF SanInv, EndsZero, Accepted, Late
  <2> QED
    BY <1>1, <2>1, <2>2 DEF VerifiedLeavesNothing, request, drive
<1>5. RefusedForCause'
  <2>1. disk[1] # "zero" /\ heard # Unreadable => seen[1] = "old"
    <3>1. before[1] \in {"old", "zero"}
      BY <1>1, <1>2 DEF SanInv, TypeOK, Plain, Contents
    <3> QED
      BY <1>2, <1>3, <3>1
  <2> QED
    BY <1>1, <1>2, <2>1 DEF RefusedForCause
<1>6. /\ tries' \in 0..Retries /\ faults' \in 0..MaxFaults /\ errors' \in 0..MaxErrors
      /\ tries' <= faults' /\ faults' >= faults
  BY <1>1, SanitizationAssumption DEF TypeOK
<1> QED
  BY <1>1, <1>4, <1>5, <1>6, EndKeeps DEF Results, Refusals, Passes, Late

-----------------------------------------------------------------------------
(* Ends for a cause that is no matter of the data *)
LEMMA OtherEndKeeps ==
    ASSUME SanInv, NoCommand \/ PollTimeout \/ PollInterrupted \/ EraseFailed \/ Interrupted
    PROVE  SanInv'
<1>1. /\ at \in {"erase", "poll", "primary", "zeros", "compare"} /\ at' = "end" /\ todo' = {} /\ tries' = 0
      /\ UNCHANGED <<request, drive, before, seen, errors, heard, flag, stopped, faults>>
  BY DEF NoCommand, PollTimeout, PollInterrupted, EraseFailed, Interrupted, End
<1>2. result' \in {"unsupported", "polling", "interrupted", "erase"} /\ (result' = "interrupted" => stopped)
  BY DEF NoCommand, PollTimeout, PollInterrupted, EraseFailed, Interrupted, End, SanInv, Counts
<1>3. VerifiedLeavesNothing' /\ RefusedForCause'
  BY <1>1, <1>2 DEF VerifiedLeavesNothing, RefusedForCause, Passes
<1>4. /\ tries' \in 0..Retries /\ faults' \in 0..MaxFaults /\ errors' \in 0..MaxErrors
      /\ tries' <= faults' /\ faults' >= faults
  BY <1>1, SanitizationAssumption DEF SanInv, TypeOK
<1> QED
  BY <1>1, <1>2, <1>3, <1>4, EndKeeps DEF Results, Refusals, Passes

LEMMA SignalKeeps == ASSUME SanInv, Signal \/ OtherEnters PROVE SanInv'
<1>1. /\ flag' \in BOOLEAN /\ stopped' \in BOOLEAN /\ (stopped => stopped') /\ (flag' => stopped')
      /\ UNCHANGED <<kind, full, probing, disk, firmware, exec, before, at, todo, seen,
                     tries, errors, heard,
                     faults, result>>
  BY DEF SanInv, TypeOK, Counts, Signal, OtherEnters, request, drive
<1>2. TypeOK' /\ KindOK' /\ Attested' /\ EndsZero' /\ Captures' /\ Counts'
  BY <1>1 DEF SanInv, TypeOK, KindOK, Attested, EndsZero, Captures, Counts, Accepted
<1>3. Written' /\ Plain' /\ Still' /\ Progress' /\ VerifiedLeavesNothing' /\ RefusedForCause'
  BY <1>1 DEF SanInv, Written, Plain, Still, Progress, VerifiedLeavesNothing, RefusedForCause
<1> QED
  BY <1>2, <1>3 DEF SanInv

-----------------------------------------------------------------------------
LEMMA InitialInv == Init => SanInv
<1> SUFFICES ASSUME Init PROVE SanInv
  OBVIOUS
<1>1. DOMAIN NoHashes = {} /\ {Last, MaxErrors} \subseteq Nat \ {0} /\ {Retries, MaxFaults} \subseteq Nat
  BY SanitizationAssumption DEF NoHashes
<1>2. TypeOK
  <2>1. disk \in [Chunks -> Contents] /\ firmware \in FirmwareStates
    BY DEF Init, Contents, FirmwareStates
  <2>2. DOMAIN before = {} /\ DOMAIN seen = {} /\ tries \in 0..Retries /\ errors \in 0..MaxErrors
        /\ faults \in 0..MaxFaults
    BY <1>1 DEF Init
  <2> QED
    BY <2>1, <2>2 DEF Init, TypeOK
<1>3. KindOK /\ Attested /\ EndsZero /\ Captures /\ Counts
  BY <1>1 DEF Init, KindOK, Attested, EndsZero, Captures, Counts, Accepted, Late, Passes
<1>4. Written /\ Plain /\ Still /\ Progress
  BY <1>1 DEF Init, Written, Plain, Still, Progress
<1>5. VerifiedLeavesNothing /\ RefusedForCause
  BY DEF Init, VerifiedLeavesNothing, RefusedForCause, Passes
<1> QED
  BY <1>2, <1>3, <1>4, <1>5 DEF SanInv

LEMMA StepKeeps == SanInv /\ [Next]_vars => SanInv'
<1> SUFFICES ASSUME SanInv, [Next]_vars PROVE SanInv'
  OBVIOUS
<1>1. CASE UNCHANGED vars
  <2>1. TypeOK' /\ KindOK' /\ Attested' /\ EndsZero' /\ Captures' /\ Counts'
    BY <1>1 DEF vars, SanInv, TypeOK, KindOK, Attested, EndsZero, Captures, Counts, Accepted
  <2>2. Written' /\ Plain' /\ Still' /\ Progress' /\ VerifiedLeavesNothing' /\ RefusedForCause'
    BY <1>1 DEF vars, SanInv, Written, Plain, Still, Progress, VerifiedLeavesNothing, RefusedForCause
  <2> QED
    BY <2>1, <2>2 DEF SanInv
<1>2. CASE Next
  BY <1>2, StartCaptureKeeps, RetryKeeps, ReadKeeps, FindDataKeeps, CaptureEndKeeps, EraseKeeps,
     AskKeeps, AnswerKeeps, PrimaryKeeps, ReadEndsKeeps, EndsReadKeeps, SecondaryKeeps, ZerosReadKeeps, JudgeKeeps,
     ReadAgainKeeps, AgainReadKeeps, ReadFailsKeeps, OtherEndKeeps, FirmwareEndsKeeps, SignalKeeps
     DEF Next, Worker
<1> QED
  BY <1>1, <1>2

LEMMA Invariance == Spec => []SanInv
  BY InitialInv, StepKeeps, PTL DEF Spec

(* TypeOK: in particular attempts, consecutive errors and failed reads     *)
(* stay within their limits, and a job has a result if and only if its     *)
(* worker has ended (verification.py, erase_ops.py).                       *)
THEOREM TypeCorrect == Spec => []TypeOK
<1>1. SanInv => TypeOK
  BY DEF SanInv
<1> QED
  BY <1>1, Invariance, PTL

(* VerifiedLeavesNothing: on a drive of any size, whichever chunks the     *)
(* samples picked, whatever part of the drive the command left as it was   *)
(* and however often reads failed or a signal came, a verified wipe left   *)
(* no old data where it was read, before or after.                         *)
THEOREM NothingIsLeft == Spec => []VerifiedLeavesNothing
<1>1. SanInv => VerifiedLeavesNothing
  BY DEF SanInv
<1> QED
  BY <1>1, Invariance, PTL

(* RefusedForCause: a comparison, a check for zeroes or a check of the two *)
(* ends does not refuse a wipe that left nothing in its sample, unless a   *)
(* signal came, the report was unreadable, or more reads failed than the   *)
(* configured retries make good.                                           *)
THEOREM NoneRefusedInVain == Spec => []RefusedForCause
<1>1. SanInv => RefusedForCause
  BY DEF SanInv
<1> QED
  BY <1>1, Invariance, PTL

(* FirmwareAttests: the status parsers of the four interfaces pass no wipe *)
(* whose firmware is at work or has failed, and one that passed is never   *)
(* found at work later, unless the report was unreadable.                  *)
THEOREM PassedIsAttested == Spec => []FirmwareAttests
<1>1. SanInv => FirmwareAttests
  BY DEF SanInv, Attested, Accepted, FirmwareAttests
<1> QED
  BY <1>1, Invariance, PTL
=============================================================================
