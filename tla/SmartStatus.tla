---------------------------- MODULE SmartStatus ----------------------------
(***************************************************************************)
(* What the program makes of the answer of smartctl to a self-test query:  *)
(* the status it reports for the drive (smart_test_runner.py) and the      *)
(* result it stores for a test (app.py and smart_routes.py, which differ). *)
(*                                                                         *)
(* An answer is what smartctl prints: whether the drive reports a running  *)
(* test, and the newest entry of its log.  Of a status string the model    *)
(* keeps the words that the code looks for, of the three places where a    *)
(* running test shows (register, current operation, sense code) that it    *)
(* shows.                                                                  *)
(***************************************************************************)
EXTENDS Naturals

\* "scsi_ie" is a SCSI drive whose answer has an informational exceptions page.
Kinds == {"ata", "nvme", "scsi", "scsi_ie"}

Words == {"in progress", "running", "failed", "error", "aborted",
          "complete", "completed", "passed", "completed without error", "success"}

\* passed is smartctl's flag, "absent" where the drive's log has none.
Entry(words, passed) == [words |-> words, passed |-> passed]

\* The strings smartctl prints for the outcomes of a test, by kind of drive.
Printed(kind, outcome) ==
    LET done == {"complete", "completed"} IN
    CASE outcome = "passed" ->
           {Entry(IF kind \in {"ata", "nvme"}
                  THEN done \cup {"completed without error", "error"} ELSE done,
                  IF kind = "nvme" THEN "absent" ELSE "yes")}
      [] outcome = "failed" ->
           IF kind = "ata" THEN {Entry(done, "no"), Entry({"error"}, "no")}
           ELSE IF kind = "nvme"
                THEN {Entry(done \cup {"failed"}, "absent"), Entry({"error"}, "absent")}
                ELSE {Entry({"failed"}, "no"), Entry({"error"}, "no")}
      [] outcome = "aborted" ->
           {Entry({"aborted"}, IF kind \in {"ata", "nvme"} THEN "absent" ELSE "no")}
           \cup (IF kind = "ata" THEN {Entry({}, "absent")} ELSE {})

\* The entry has one of the words.
Has(e, words) == e.words \cap words # {}

\* Whatever comes first decides.
AtaStatus(e) ==
    IF Has(e, {"in progress", "running"}) THEN "in_progress"
    ELSE IF e.passed = "yes" THEN "completed"
    ELSE IF Has(e, {"failed"}) \/ e.passed = "no" THEN "failed"
    ELSE IF Has(e, {"aborted"}) THEN "aborted"
    ELSE IF Has(e, {"completed", "passed"}) THEN "completed" ELSE "unknown"

NvmeStatus(e) ==
    IF Has(e, {"in progress", "running"}) THEN "in_progress"
    ELSE IF Has(e, {"complete", "success"}) THEN "completed"
    ELSE IF Has(e, {"failed", "error"}) THEN "failed"
    ELSE IF Has(e, {"aborted"}) THEN "aborted" ELSE "unknown"

ScsiStatus(e) ==
    IF Has(e, {"in progress"}) THEN "in_progress"
    ELSE IF e.passed = "yes" THEN "completed"
    ELSE IF Has(e, {"failed", "error"}) THEN "failed"
    ELSE IF Has(e, {"aborted"}) THEN "aborted" ELSE "unknown"

LogStatus(kind, e) ==
    CASE kind = "ata" -> AtaStatus(e)
      [] kind = "nvme" -> NvmeStatus(e)
      [] kind = "scsi" -> ScsiStatus(e)
      [] OTHER -> "no_tests"

\* latest is the set of the log's newest entry, empty for an empty log; a
\* running test shows before the log is looked at.
DriveStatus(kind, shown, latest) ==
    IF shown THEN "in_progress"
    ELSE IF latest = {} THEN "no_tests"
    ELSE LogStatus(kind, CHOOSE e \in latest : TRUE)

\* The flag reaches the callers for the kinds of drive whose parser keeps it.
Flag(kind, e) == IF kind = "nvme" THEN "absent" ELSE e.passed

\* The result stored with "completed", given the words of a pass.
Result(flag, e, pass) ==
    IF flag = "yes" THEN "passed"
    ELSE IF flag = "no" THEN "failed"
    ELSE IF Has(e, pass) /\ ~Has(e, {"failed"}) THEN "passed"
    ELSE IF Has(e, {"failed", "error"}) THEN "failed" ELSE "unknown"

\* By the background thread, and by the status endpoint, which also takes a
\* bare "completed" for a pass.
BackgroundResult(kind, e) ==
    Result(Flag(kind, e), e, {"passed", "completed without error"})

PollResult(kind, e) ==
    Result(Flag(kind, e), e, {"passed", "completed without error", "completed"})
=============================================================================
