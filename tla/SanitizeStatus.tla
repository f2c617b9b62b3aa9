--------------------------- MODULE SanitizeStatus ---------------------------
(***************************************************************************)
(* What the server makes of a drive's report on its own sanitization:      *)
(* nvme sanitize-log, hdparm --sanitize-status, hdparm -I and sg_sanitize  *)
(* --status.  A report is a record of the words and registers that the     *)
(* server looks for; the text around them is left out.                     *)
(***************************************************************************)
EXTENDS Naturals

(* How a wipe is verified: by its method and, for a firmware wipe, by the  *)
(* interface.  "none" is a method that no interface of this kind has.      *)
FirmwareKinds == {"nvme", "sata_sanitize", "sata_security", "sas"}
Kinds == FirmwareKinds \cup {"overwrite", "none"}

(* The drive's own account of the sanitization *)
FirmwareStates == {"never", "running", "failed", "done"}

Verified == "verified"
InProgress == "in_progress"
Rejected == "rejected"

(* A register of 16 bits that the server does not find in the output *)
None == 65536

(* A command that failed, or printed nothing *)
NoReport == [words |-> {}, sstat |-> None, sprog |-> None, ok |-> FALSE]

Words(ws) == [NoReport EXCEPT !.words = ws, !.ok = TRUE]
Log(sstat, sprog) == [Words({"log"}) EXCEPT !.sstat = sstat, !.sprog = sprog]

-----------------------------------------------------------------------------
(* nvme sanitize-log.  The low three bits of SSTAT are the status; 0x101   *)
(* is a wipe that is complete, with all data erased.                       *)

Complete == 257
Low(sstat) == sstat % 8
LastProgress == 65535

Known(r) == r.sstat # None

(* Mutant: a status that the table names is the only one looked at. *)
NvmeFailedRows(r) == ~r.ok \/ r.sstat = 0

(* A failure is a word of the output, or a status; a log that says nothing *)
(* but that the progress is complete is inconsistent.                      *)
NvmeFailed(r) ==
    \/ ~r.ok \/ "failed" \in r.words
    \/ r.sstat = 0 \/ (Known(r) /\ Low(r.sstat) = 3)
    \/ r.sprog = LastProgress /\ ~Known(r)

NvmeRunning(r) ==
    \/ Known(r) /\ Low(r.sstat) = 2
    \/ r.sstat # Complete /\ r.sprog # None /\ r.sprog < LastProgress

(* What no rule explains passes: the server calls it defensive success. *)
NvmeVerdict(r) ==
    IF NvmeFailed(r) THEN Rejected ELSE IF NvmeRunning(r) THEN InProgress ELSE Verified

-----------------------------------------------------------------------------
(* hdparm --sanitize-status: the words of the State line *)
SanitizeVerdict(r) ==
    IF "failed" \in r.words THEN Rejected
    ELSE IF "active" \in r.words THEN InProgress
    ELSE IF r.words \cap {"idle", "completed"} # {} THEN Verified ELSE Rejected

(* hdparm -I: a drive that is done has its security disabled again.  A     *)
(* report without the section passes if it has the sections around it.     *)
SecurityVerdict(r) ==
    IF "enabled" \in r.words THEN InProgress
    ELSE IF "security" \in r.words \/ (r.ok /\ "configuration" \in r.words) THEN Verified
    ELSE Rejected

(* sg_sanitize --status: "no sanitize operation in progress" has the words *)
(* of both, and is complete.                                               *)
SasVerdict(r) ==
    IF "failed" \in r.words THEN Rejected
    ELSE IF "complete" \in r.words THEN Verified
    ELSE IF "progress" \in r.words THEN InProgress ELSE Rejected

FirmwareVerdict(kind, r) ==
    CASE kind = "nvme" -> NvmeVerdict(r)
      [] kind = "sata_sanitize" -> SanitizeVerdict(r)
      [] kind = "sata_security" -> SecurityVerdict(r)
      [] kind = "sas" -> SasVerdict(r)

-----------------------------------------------------------------------------
(* What the tools print of a drive in each state, and of any drive when    *)
(* they fail or print what the server does not know.                       *)

Told ==
    [nvme |-> [never |-> {Log(0, LastProgress)}, running |-> {Log(2, 0), Log(2, 100)},
               failed |-> {Log(3, LastProgress), Log(259, LastProgress)},
               done |-> {Log(Complete, LastProgress), Log(1, LastProgress)}],
     sata_sanitize |-> [never |-> {Words({"idle"})}, running |-> {Words({"active"})},
               failed |-> {Words({"failed"})}, done |-> {Words({"idle"}), Words({"completed"})}],
     sata_security |-> [never |-> {Words({"security"}), Words({"security", "enabled"})},
               running |-> {Words({"security", "enabled"})},
               failed |-> {Words({"security", "enabled"})},
               done |-> {Words({"security"}), Words({"configuration"})}],
     sas |-> [never |-> {Words({"complete", "progress"})}, running |-> {Words({"progress"})},
               failed |-> {Words({"failed"})}, done |-> {Words({"complete", "progress"})}]]

Unreadable == Words({"other"})

Printed(kind, state) == Told[kind][state] \cup {NoReport, Unreadable}
=============================================================================
