---------------------------- MODULE Sanitization ----------------------------
(***************************************************************************)
(* One wipe seen from the drive: the worker hashes a sample of the drive,  *)
(* the drive is erased, its firmware is polled, and the wipe is verified,  *)
(* by the drive's own report and then by reading a sample again.           *)
(*                                                                         *)
(* EraseJobs models the job around it: the rows, the permits and the       *)
(* subprocess.  Here the subprocess is one step, which may leave any part  *)
(* of the drive as it was.                                                 *)
(***************************************************************************)
EXTENDS Naturals, FiniteSets, FiniteSetsExt, SanitizeStatus

CONSTANTS
    Last,      \* the drive is a row of chunks, from 1 to Last
    Retries,   \* blockdev_post_wipe_retries
    MaxErrors, \* max_consecutive_errors of the poll
    Cap,       \* max_read_bytes of the check for zeroes, in chunks
    MaxFaults  \* bound: reads that may fail

ASSUME SanitizationAssumption ==
    /\ {Last, MaxErrors} \subseteq Nat \ {0} /\ {Retries, Cap, MaxFaults} \subseteq Nat

VARIABLES
    kind,     \* the wipe's method and the drive's interface
    full,     \* the request's full_verification
    probing,  \* secondary_verification_mode: FALSE if it is disabled
    disk,     \* what is in each chunk
    firmware, \* what the drive makes of its own sanitization
    exec,     \* execution["ok"]: the command ended well
    before,   \* before_state: the hashes captured, or none
    at,       \* where the worker is
    todo,     \* what is left to read: chunks, and 0 for the capacity
    seen,     \* the hashes of the chunks read so far
    tries,    \* attempts of the present read that failed
    errors,   \* consecutive_errors of the poll
    heard,    \* the report that the primary verification was given
    flag,     \* _verification_interrupted
    stopped,  \* the job's interrupt generation has moved
    faults,   \* reads that failed so far
    result    \* what the job ends with

vars == <<kind, full, probing, disk, firmware, exec, before, at, todo, seen, tries,
          errors, heard, flag, stopped, faults, result>>

request == <<kind, full, probing>>
drive == <<disk, firmware, exec>>

Chunks == 1..Last

(* Old data, zeroes, and what a wiped chunk holds that is not zero *)
Contents == {"old", "zero", "noise"}
NoHashes == [c \in {} |-> "zero"]

(* The first chunk, and some at random *)
Samples == {{0, 1} \cup S : S \in SUBSET (Chunks \ {1})}

Reading == {"capture", "ends", "zeros", "compare", "again"}
Refusals == {"error", "partial", "unchanged", "nonzero", "polling", "interrupted", "erase"}
Passes == {"compared", "sampled", "skipped"}
Results == Refusals \cup Passes \cup {"rejected", "unsupported"}

Init ==
    /\ kind \in Kinds /\ full \in BOOLEAN /\ probing \in BOOLEAN
    /\ disk \in [Chunks -> {"old", "zero"}]
    /\ firmware \in {"never", "done"} /\ exec = FALSE
    /\ before = NoHashes /\ at = "start" /\ todo = {} /\ seen = NoHashes
    /\ tries = 0 /\ errors = 0 /\ heard = NoReport
    /\ flag = FALSE /\ stopped = FALSE /\ faults = 0 /\ result = "none"

End(r) ==
    /\ result' = r /\ at' = "end" /\ todo' = {} /\ tries' = 0
    /\ UNCHANGED <<request, drive, before, errors, heard, flag, stopped, faults>>

Goto(step) ==
    /\ at' = step /\ todo' = {} /\ tries' = 0
    /\ UNCHANGED <<request, drive, errors, heard, stopped, faults, result>>

-----------------------------------------------------------------------------
(* Reading, with retries: the capacity first, then the sample in order     *)

(* Every entry point resets the flag, whoever's signal set it. *)
Enter(step, sample) ==
    /\ at' = step /\ todo' = sample /\ seen' = NoHashes /\ tries' = 0 /\ flag' = FALSE
    /\ UNCHANGED <<request, drive, before, errors, heard, stopped, faults, result>>

Now == Min(todo)

(* The flag is looked at before each read, not before each attempt; the    *)
(* comparison does not look before it asks for the capacity, and the       *)
(* check of the two ends never looks.                                      *)
Looks == tries = 0 /\ at \in {"capture", "zeros", "compare"} /\ (at = "compare" => Now # 0)
MayRead == at \in Reading /\ todo # {} /\ ~(Looks /\ flag)

(* Mutant: the last attempt is never made. *)
TriesLeftOne == tries + 1 < Retries /\ (at = "ends" => Now = 0)

(* Mutant: an attempt more. *)
TriesLeftMore == tries <= Retries /\ (at = "ends" => Now = 0)

(* dd of the two ends is not repeated: only the capacity query is. *)
TriesLeft == tries < Retries /\ (at = "ends" => Now = 0)

Fault == MayRead /\ faults < MaxFaults /\ faults' = faults + 1

Retry ==
    /\ Fault /\ TriesLeft
    /\ tries' = tries + 1
    /\ UNCHANGED <<request, drive, before, at, todo, seen, errors, heard, flag, stopped, result>>

Taken == [c \in (DOMAIN seen \cup {Now}) \ {0} |-> IF c = Now THEN disk[c] ELSE seen[c]]

Took ==
    /\ todo' = todo \ {Now} /\ tries' = 0 /\ seen' = Taken
    /\ UNCHANGED <<request, drive, before, at, errors, heard, flag, stopped, faults, result>>

(* A check for zeroes stops at the first chunk that is not. *)
NotZero == at \in {"ends", "zeros"} /\ Now # 0 /\ disk[Now] # "zero"

Read == MayRead /\ at # "again" /\ ~NotZero /\ Took

FindData ==
    /\ MayRead /\ NotZero
    /\ End("nonzero") /\ seen' = Taken

-----------------------------------------------------------------------------
(* Before the wipe *)

StartCapture == at = "start" /\ \E S \in Samples : Enter("capture", S)

(* The capture is best-effort: a failure or a signal leaves no hashes. *)
EndCapture ==
    /\ at = "capture"
    /\ \/ todo = {} /\ before' = seen
       \/ todo # {} /\ Looks /\ flag /\ UNCHANGED before
    /\ Goto("erase") /\ UNCHANGED <<seen, flag>>

CaptureFails ==
    /\ at = "capture" /\ Fault /\ ~TriesLeft
    /\ at' = "erase" /\ todo' = {} /\ tries' = 0
    /\ UNCHANGED <<request, drive, before, seen, errors, heard, flag, stopped, result>>

Wiped == IF kind = "overwrite" THEN {"zero"} ELSE {"zero", "noise"}

(* What a command, or the firmware behind it, may have done to the drive *)
Erasures == {[c \in Chunks |-> IF c \in S THEN w ELSE disk[c]] : S \in SUBSET Chunks, w \in Wiped}

(* No command is known for kind "none": the job fails before the erase. *)
Erase ==
    /\ at = "erase" /\ kind # "none"
    /\ disk' \in Erasures /\ exec' \in BOOLEAN
    /\ IF kind = "overwrite" THEN UNCHANGED firmware
       ELSE \/ firmware' \in {"running", "failed", "done"}
            \/ ~exec' /\ disk' = disk /\ UNCHANGED firmware
    /\ at' = IF kind = "overwrite" THEN "primary" ELSE "poll"
    /\ UNCHANGED <<request, before, todo, seen, tries, errors, heard, flag, stopped, faults, result>>

NoCommand == at = "erase" /\ kind = "none" /\ End("unsupported") /\ UNCHANGED seen

(* The firmware works on after the command has returned. *)
FirmwareEnds ==
    /\ firmware = "running" /\ firmware' \in {"failed", "done"}
    /\ disk' \in Erasures
    /\ UNCHANGED <<request, exec, before, at, todo, seen, tries, errors, heard, flag, stopped,
                   faults, result>>

-----------------------------------------------------------------------------
(* _poll_firmware_completion looks at the signal and at the clock before   *)
(* it asks, and waits for the answer however long that takes.              *)

Ask ==
    /\ at = "poll" /\ ~stopped /\ at' = "ask"
    /\ UNCHANGED <<request, drive, before, todo, seen, tries, errors, heard, flag, stopped, faults,
                   result>>

Answer ==
    /\ at = "ask"
    /\ \E report \in Printed(kind, firmware) :
         LET verdict == FirmwareVerdict(kind, report)
             failed == IF verdict = Rejected THEN errors + 1 ELSE 0
         IN /\ errors' = failed
            /\ at' = IF verdict = Verified THEN "primary"
                     ELSE IF failed = MaxErrors THEN "end" ELSE "poll"
            /\ result' = IF failed = MaxErrors THEN "polling" ELSE result
    /\ UNCHANGED <<request, drive, before, todo, seen, tries, heard, flag, stopped, faults>>

(* Mutant: the clock only runs while the poll meets errors. *)
PollTimeoutOfErrors == at = "poll" /\ ~stopped /\ errors > 0 /\ End("polling") /\ UNCHANGED seen

PollTimeout == at = "poll" /\ ~stopped /\ End("polling") /\ UNCHANGED seen
PollInterrupted == at = "poll" /\ stopped /\ End("interrupted") /\ UNCHANGED seen

-----------------------------------------------------------------------------
(* verification_for_method *)

Captured == before # NoHashes

(* A firmware wipe is asked once more; an overwrite is read at both ends. *)
Primary ==
    /\ at = "primary" /\ kind # "overwrite"
    /\ heard' \in Printed(kind, firmware)
    /\ IF FirmwareVerdict(kind, heard') = Verified
       THEN at' = "secondary" /\ UNCHANGED result
       ELSE at' = "end" /\ result' = "rejected"
    /\ UNCHANGED <<request, drive, before, todo, seen, tries, errors, flag, stopped, faults>>

EraseFailed ==
    /\ at = "primary" /\ kind = "overwrite" /\ ~exec
    /\ End("erase") /\ UNCHANGED seen

ReadEnds ==
    /\ at = "primary" /\ kind = "overwrite" /\ exec
    /\ at' = "ends" /\ todo' = {0, 1, Last} /\ seen' = NoHashes
    /\ UNCHANGED <<request, drive, before, tries, errors, heard, flag, stopped, faults, result>>

EndsRead == at = "ends" /\ todo = {} /\ Goto("secondary") /\ UNCHANGED <<before, seen, flag>>

ZeroSamples == IF full /\ Last <= Cap THEN {0..Last} ELSE Samples

(* The ratio of a full verification is that of the check for zeroes, which *)
(* is only made when there are no hashes to compare; it is capped besides. *)
Secondary ==
    /\ at = "secondary"
    /\ \/ ~probing /\ End("skipped") /\ UNCHANGED seen
       \/ probing /\ Captured /\ Enter("compare", {0} \cup DOMAIN before)
       \/ probing /\ ~Captured /\ \E S \in ZeroSamples : Enter("zeros", S)

ZerosRead == at = "zeros" /\ todo = {} /\ End("sampled") /\ UNCHANGED seen

(* verify_crypto_hash_comparison *)
Unchanged == {c \in DOMAIN before : seen[c] = before[c]}

(* Mutant: some chunks that changed are enough. *)
AnyChange == IF Unchanged = DOMAIN before THEN "unchanged" ELSE "compared"

Comparison ==
    IF Unchanged = DOMAIN before THEN "unchanged"
    ELSE IF \A c \in Unchanged : before[c] = "zero" THEN "compared" ELSE "partial"

Compared == at = "compare" /\ todo = {}

(* The flag is looked at once more for each chunk that did not change. *)
Judge ==
    /\ Compared /\ Comparison # "unchanged"
    /\ End(IF flag /\ Unchanged # {} THEN "interrupted" ELSE Comparison) /\ UNCHANGED seen

(* If nothing changed and all the hashes are the same, the first chunk is  *)
(* read again: a drive that was zero passes.                               *)
ReadAgain ==
    /\ Compared /\ Comparison = "unchanged"
    /\ IF Cardinality({before[c] : c \in DOMAIN before}) = 1
       THEN at' = "again" /\ todo' = {1} /\ UNCHANGED result
       ELSE at' = "end" /\ result' = "unchanged" /\ UNCHANGED todo
    /\ UNCHANGED <<request, drive, before, seen, tries, errors, heard, flag, stopped, faults>>

AgainRead ==
    /\ at = "again" /\ MayRead
    /\ End(IF disk[1] = "zero" THEN "compared" ELSE "unchanged") /\ UNCHANGED seen

(* Reads that fail to the end, and the flag, end the verification. *)
ReadFails ==
    /\ at \in Reading \ {"capture"} /\ Fault /\ ~TriesLeft
    /\ result' = IF at = "again" THEN "unchanged" ELSE "error"
    /\ at' = "end" /\ todo' = {} /\ tries' = 0
    /\ UNCHANGED <<request, drive, before, seen, errors, heard, flag, stopped>>

Interrupted ==
    /\ at \in {"zeros", "compare"} /\ todo # {} /\ Looks /\ flag
    /\ End("interrupted") /\ UNCHANGED seen

-----------------------------------------------------------------------------
(* The rest of the server: a signal, and other jobs' entry points *)

Signal ==
    /\ at # "end" /\ ~stopped /\ stopped' = TRUE /\ flag' = TRUE
    /\ UNCHANGED <<request, drive, before, at, todo, seen, tries, errors, heard, faults, result>>

OtherEnters ==
    /\ flag /\ flag' = FALSE
    /\ UNCHANGED <<request, drive, before, at, todo, seen, tries, errors, heard, stopped, faults,
                   result>>

Worker ==
    \/ StartCapture \/ Retry \/ Read \/ FindData \/ EndCapture \/ CaptureFails
    \/ Erase \/ NoCommand \/ Ask \/ Answer \/ PollTimeout \/ PollInterrupted
    \/ Primary \/ EraseFailed \/ ReadEnds \/ EndsRead \/ Secondary \/ ZerosRead
    \/ Judge \/ ReadAgain \/ AgainRead \/ ReadFails \/ Interrupted

Next == Worker \/ FirmwareEnds \/ Signal \/ OtherEnters

(* The worker waits for a command: the wipe, a question to the drive, or a *)
(* read.  The questions have no timeout, and at the timeout of a read the  *)
(* worker waits for a sudo child that it may not kill.                     *)
AtCommand ==
    \/ at = "erase" /\ kind # "none"
    \/ at = "ask"
    \/ at = "primary" /\ kind # "overwrite"
    \/ todo # {}

(* The worker goes on unless it waits for a command, of which nothing is   *)
(* assumed.  The poll compares the clock before each question, and once    *)
(* its time is over it stays over.                                         *)
Fairness == WF_vars(~AtCommand /\ Worker) /\ SF_vars(PollTimeout)

Spec == Init /\ [][Next]_vars /\ Fairness

-----------------------------------------------------------------------------
(* The types of the variables *)
TypeOK ==
    /\ kind \in Kinds /\ full \in BOOLEAN /\ probing \in BOOLEAN
    /\ disk \in [Chunks -> Contents] /\ firmware \in FirmwareStates /\ exec \in BOOLEAN
    /\ DOMAIN before \subseteq Chunks /\ DOMAIN seen \subseteq Chunks
    /\ \A c \in DOMAIN before : before[c] \in Contents
    /\ at \in Reading \cup {"start", "erase", "poll", "ask", "primary", "secondary", "end"}
    /\ todo \subseteq 0..Last /\ (todo # {} => at \in Reading)
    /\ tries \in 0..Retries /\ errors \in 0..MaxErrors /\ faults \in 0..MaxFaults
    /\ flag \in BOOLEAN /\ stopped \in BOOLEAN
    /\ result \in Results \cup {"none"} /\ (result = "none" <=> at # "end")

(* A wipe that is verified left no old data in any chunk of the sample: a  *)
(* partial wipe does not pass, nor one that the drive only claims to have  *)
(* made, and a failed capture, a retry or a signal does not change that.   *)
(* Left out is a firmware that is still at work behind a report that the   *)
(* server cannot read: it may change the chunk that is read again.         *)
VerifiedLeavesNothing ==
    /\ result = "compared" /\ heard # Unreadable => \A c \in DOMAIN before : disk[c] # "old"
    /\ result = "sampled" => \A c \in DOMAIN seen : disk[c] # "old"
    /\ result \in Passes /\ kind = "overwrite" => disk[1] = "zero" /\ disk[Last] = "zero"

(* Reading does not refuse a good wipe: if no chunk that was read holds    *)
(* old data, no signal came and the firmware's report was readable, then   *)
(* more reads failed than are repeated, or one failed of those that are    *)
(* not.  In particular a wipe of a drive that was zero is not taken for    *)
(* one that changed nothing.                                               *)
RefusedForCause ==
    result \in {"error", "partial", "unchanged", "nonzero", "interrupted"} =>
        \/ \E c \in DOMAIN seen : seen[c] = "old"
        \/ stopped \/ heard = Unreadable
        \/ faults > Retries
        \/ kind = "overwrite" /\ faults > 0

(* No wipe passes whose firmware was still at work or had failed, in       *)
(* whatever order it was polled and asked again: unless the report was one *)
(* that the server cannot read.                                            *)
FirmwareAttests ==
    result \in Passes /\ kind \in FirmwareKinds /\ heard # Unreadable =>
        firmware \notin {"running", "failed"}

(* Every wipe ends with a result, though the firmware never ends, unless a *)
(* command never returns: the poll gives up on a firmware that answers for *)
(* ever that it is still at work, and nothing else is waited for.          *)
Settles == <>(result # "none") \/ <>[]AtCommand
=============================================================================
