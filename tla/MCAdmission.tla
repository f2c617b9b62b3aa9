----------------------------- MODULE MCAdmission -----------------------------
(* Small instances of Admission for TLC. *)
EXTENDS Admission

Default ==
    [enabled |-> TRUE, strict |-> FALSE, audit |-> FALSE, failed |-> TRUE, destroy |-> TRUE,
     scratch |-> FALSE, pending |-> 10, defects |-> 5, errors |-> 100]
Cautious == [Default EXCEPT !.audit = TRUE, !.scratch = TRUE, !.pending = 0]
Loose ==
    [Default EXCEPT !.failed = FALSE, !.destroy = FALSE, !.defects = 1000, !.errors = 100000]

SomePolicies ==
    {Default, Cautious, Loose, [Default EXCEPT !.strict = TRUE], [Default EXCEPT !.enabled = FALSE]}

\* A new drive, and drives of each kind that have served.
SomeDrives ==
    {NewDrive("sata", FALSE, NoWear),
     [NewDrive("sata", FALSE, NoWear) EXCEPT !.hours = 500, !.pending = 4],
     [NewDrive("sata", TRUE, 60) EXCEPT !.hours = 1095, !.defects = 5, !.spare = 80],
     [NewDrive("nvme", TRUE, 0) EXCEPT !.media = 1, !.spare = 10],
     [NewDrive("sas", FALSE, NoWear) EXCEPT !.badReads = 9, !.defects = 100]}

\* The values on both sides of the thresholds.
SomeGrid ==
    [hours |-> {0, 18, 500, 1095, 1314, 2190}, writes |-> {0, 6, 200, 7500, 15000},
     wear |-> {0, 40, 60, 95, 100}, spare |-> {100, 80, 79, 10, 9},
     defects |-> {0, 1, 5, 6, 100, 1000, 10000, 10001}, pending |-> {0, 1, 4, 10, 11},
     errors |-> {0, 100, 101, 100000000, 200000000}, media |-> {0, 1, 4},
     badReads |-> {0, 1, 9, 10}, badWrites |-> {0, 1}, badVerifies |-> {0, 1}]
=============================================================================
