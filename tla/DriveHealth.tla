----------------------------- MODULE DriveHealth -----------------------------
(***************************************************************************)
(* What the server makes of a drive's SMART report: its health score, the  *)
(* recommendation that a technician is shown, and the verdict of the gate  *)
(* before a wipe.  A report is a record of the counters that the rules     *)
(* look at.  Scores are in hundredths; hours come in forties, as many as   *)
(* make every threshold a whole number, and what was written to the drive  *)
(* in hundredths of its capacity.                                          *)
(***************************************************************************)
EXTENDS Integers

Capped(x, most) == IF x > most THEN most ELSE x
Floored(x, least) == IF x < least THEN least ELSE x

Interfaces == {"sata", "sas", "nvme"}

(* A new drive of an interface.  wear is none for a drive that does not    *)
(* report it; defects are reallocated sectors, and on SAS grown defects;   *)
(* errors are CRC errors, on SAS non-medium errors, on NVMe log entries.   *)
NoWear == -1

NewDrive(iface, ssd, wear) ==
    [iface |-> iface, ssd |-> ssd, wear |-> wear, hours |-> 0, writes |-> 0, defects |-> 0,
     spare |-> 100, pending |-> 0, errors |-> 0, media |-> 0, badReads |-> 0, badWrites |-> 0,
     badVerifies |-> 0, failed |-> FALSE, prefail |-> FALSE, critical |-> FALSE,
     halted |-> FALSE, sticky |-> FALSE, offline |-> FALSE]

(* The reports that the rules may be given. *)
Reports ==
    [iface : Interfaces, ssd : BOOLEAN, wear : Nat \cup {NoWear}, hours : Nat, writes : Nat,
     defects : Nat, spare : Nat, pending : Nat, errors : Nat, media : Nat, badReads : Nat,
     badWrites : Nat, badVerifies : Nat, failed : BOOLEAN, prefail : BOOLEAN, critical : BOOLEAN,
     halted : BOOLEAN, sticky : BOOLEAN, offline : BOOLEAN]

(* The thresholds of the policy's triage_thresholds, by their defaults *)
HighHours == 1095
NewHours == 18
DestroyScore == 25
ScratchScore == 50
GoodScore == 75
DefectsFail == 10000
NmePenalty == 100000000

-----------------------------------------------------------------------------
(* The status: SAS drives fail for more than their own health byte. *)

Failed(d) ==
    \/ d.failed
    \/ d.iface = "sas" /\ (d.defects > DefectsFail \/ d.halted \/ d.badVerifies > 0)

(* The score *)

(* A quarter at twice the threshold, growing with the square *)
HoursOfSsd(h) ==
    IF h <= HighHours THEN 0
    ELSE LET over == ((h - HighHours) * 100) \div HighHours
         IN Capped((25 * over * over) \div 100, 2500)

HoursOfDisk(h) == IF h <= 500 THEN 0 ELSE Capped((h - 500) * 3, 3000)
WritesOfDisk(w) == Capped(w \div 5, 3000)

(* Wear counts for an SSD that reports it, and nothing else does then but  *)
(* its hours: these leave ten points, though wear alone may leave none.    *)
Base(d) ==
    IF d.ssd /\ d.wear # NoWear
    THEN LET left == Floored(100 - d.wear, 0) * 100
         IN IF d.hours > HighHours THEN Floored(left - HoursOfSsd(d.hours), 1000) ELSE left
    ELSE Floored(10000 - HoursOfDisk(d.hours) - WritesOfDisk(d.writes), 3000)

(* The power of ten below a count, for the logarithm *)
Digits(n) == IF n >= 10000 THEN 4 ELSE IF n >= 1000 THEN 3 ELSE IF n >= 100 THEN 2
             ELSE IF n >= 10 THEN 1 ELSE 0

OfDefects(d) ==
    LET n == d.defects
    IN IF n = 0 THEN 0
       ELSE IF d.ssd THEN Capped(n * (IF d.spare >= 80 THEN 200 ELSE 500), 4000)
       ELSE IF d.iface = "sas" THEN Capped(2000 * Digits(n), 10000)
       ELSE Capped(IF n <= 5 THEN 1000 + (n - 1) * 500 ELSE 3000 + (n - 5) * 1000, 4000)

OfErrors(d) ==
    IF d.iface = "sas" /\ ~d.ssd /\ d.errors >= NmePenalty
    THEN Capped((d.errors - NmePenalty) \div (NmePenalty \div 3000), 3000) ELSE 0

(* Ten bad reads and more are left to the recommendation's hard stop. *)
OfBadReads(d) == IF d.iface = "sas" /\ d.badReads < 10 THEN d.badReads * 500 ELSE 0

Penalties(d) ==
    OfDefects(d) + Capped(d.pending * 1500, 6000) + OfErrors(d) + OfBadReads(d)
    + (IF d.iface = "nvme" THEN Capped(d.media * 2000, 8000) ELSE 0)
    + (IF d.iface = "sas" /\ d.sticky THEN 1500 ELSE 0)

(* Half a point goes to the even neighbour. *)
Rounded(x) ==
    LET whole == x \div 100
    IN IF x % 100 > 50 \/ (x % 100 = 50 /\ whole % 2 = 1) THEN whole + 1 ELSE whole

Overridden(d) == Failed(d) \/ d.prefail \/ (d.iface = "nvme" /\ d.critical)

Score(d) ==
    LET points == Rounded(Floored(Base(d) - Penalties(d), 0))
    IN IF Overridden(d) THEN Capped(points, 5) ELSE points

-----------------------------------------------------------------------------
(* The recommendation *)

HardStop(d) ==
    d.iface = "sas" /\ (d.badVerifies > 0 \/ d.badWrites > 0 \/ d.badReads >= 10
                        \/ d.defects >= DefectsFail)

AsNew(d) ==
    /\ d.hours < NewHours /\ d.defects = 0
    /\ IF d.ssd THEN d.writes < 6 /\ d.wear \in {0, NoWear} ELSE d.writes < 200

(* Mutant: only the score counts. *)
RecommendationByScore(d) ==
    IF Score(d) <= DestroyScore THEN "DESTROY"
    ELSE IF Score(d) <= ScratchScore THEN "SCRATCH"
    ELSE IF AsNew(d) THEN "NEW_STOCK"
    ELSE IF Score(d) >= GoodScore THEN "USED_GOOD" ELSE "USED_HEAVY"

Recommendation(d) ==
    IF HardStop(d) \/ Failed(d) \/ Score(d) <= DestroyScore THEN "DESTROY"
    ELSE IF Score(d) <= ScratchScore THEN "SCRATCH"
    ELSE IF AsNew(d) THEN "NEW_STOCK"
    ELSE IF Score(d) >= GoodScore THEN "USED_GOOD" ELSE "USED_HEAVY"

Rank(d) ==
    [DESTROY |-> 0, SCRATCH |-> 1, USED_HEAVY |-> 2, USED_GOOD |-> 3, NEW_STOCK |-> 4][Recommendation(d)]

-----------------------------------------------------------------------------
(* The gate, under a policy's prewipe_health_gate settings *)

Blocked(policy, d) ==
    /\ policy.enabled
    /\ \/ policy.failed /\ Failed(d)
       \/ policy.destroy /\ (Score(d) <= DestroyScore \/ Recommendation(d) = "DESTROY")
       \/ policy.scratch /\ Recommendation(d) = "SCRATCH"
       \/ d.pending > policy.pending \/ d.defects > policy.defects \/ d.errors > policy.errors
       \/ d.iface = "nvme" /\ (d.spare < 10 \/ d.critical)
       \/ d.iface = "sas" /\ (d.defects > DefectsFail \/ d.halted \/ d.badVerifies > 0
                              \/ d.badWrites > 0 \/ d.badReads >= 10 \/ d.sticky)
       \/ d.offline

(* The settings, as the policy's schema has them. *)
Rules ==
    [enabled : BOOLEAN, strict : BOOLEAN, audit : BOOLEAN, failed : BOOLEAN, destroy : BOOLEAN,
     scratch : BOOLEAN, pending : Nat, defects : Nat, errors : Nat]

(* A technician may override it, unless the policy is strict. *)
Overridable(policy) == ~policy.strict /\ ~policy.audit
=============================================================================
