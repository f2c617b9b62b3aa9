--------------------------- MODULE AdmissionProofs ---------------------------
(***************************************************************************)
(* What is admitted to a wipe, for every set of drives and policies, every *)
(* rule of DriveHealth's gate and any number of changes.  The invariant    *)
(* says of each place of the request what its checks have established so   *)
(* far; that is needed since the checks look at different states of the    *)
(* world: only what they leave behind lasts until the wipe.  Then, of the  *)
(* rules themselves, that a drive that gets worse is never judged better.  *)
(***************************************************************************)
EXTENDS Admission, TLAPS

Spots == {"start", "validate", "gate", "waiting", "queued", "wiping", "refused", "failed"}

(* The lookups of the system drive that must have failed so far *)
Looked ==
    /\ at = "start" => blind = 0
    /\ at = "validate" /\ seen = "data" => place = "data" \/ (place = "os" /\ blind = 1)
    /\ at \in {"gate", "waiting", "queued", "wiping"} =>
          place = "data" \/ (place = "os" /\ blind = 2)

(* What the gate's verdict means once the request has passed it *)
Gated ==
    at \in {"waiting", "queued", "wiping"} =>
        /\ ~others /\ gate \in {"passed", "blocked"}
        /\ Blocked(then, read) => gate = "blocked"
        /\ gate = "blocked" => override /\ Overridable(then)

(* What the worker adds to it *)
Confirmed == at = "wiping" /\ gate = "blocked" => Overridable(now) /\ trail = "override"

AdmissionInv == at \in Spots /\ Looked /\ Gated /\ Confirmed

(* The requests start with nothing established. *)
LEMMA InitEstablishes == Init => AdmissionInv
  BY DEF Init, AdmissionInv, Spots, Looked, Gated, Confirmed

(* Each step of the request establishes its part and keeps the others; the *)
(* world touches nothing that was established.                             *)
LEMMA StepKeeps == AdmissionInv /\ [Next]_vars => AdmissionInv'
<1> SUFFICES ASSUME AdmissionInv, [Next]_vars PROVE AdmissionInv'
    OBVIOUS
<1> USE DEF AdmissionInv, Spots, Looked, Gated, Confirmed
<1>1. CASE Discover
    BY <1>1 DEF Discover, LookUp, world, request
<1>2. CASE Validate
  <2>1. CASE Refuse /\ UNCHANGED blind
      BY <1>2, <2>1 DEF Validate, Refuse, world, request
  <2>2. CASE ~(Refuse /\ UNCHANGED blind)
    <3>1. at = "validate" /\ at' = "gate" /\ seen = "data" /\ UNCHANGED place
        BY <1>2, <2>2 DEF Validate, Valid, Erasable, world
    <3>2. PICK look \in LookUp(place) : look.found # "os" /\ blind' = blind + look.failures
        BY <1>2, <2>2 DEF Validate
    <3>3. place' = "data" \/ (place' = "os" /\ blind' = 2)
        BY <3>1, <3>2 DEF LookUp
    <3> QED
        BY <3>1, <3>3
  <2> QED
      BY <2>1, <2>2
<1>3. CASE PreWipeGate
  <2>1. PICK blocked \in {Blocked(then, smart)} \cup (IF then.enabled THEN {TRUE} ELSE {}),
             other \in BOOLEAN :
          /\ gate' = IF blocked THEN "blocked" ELSE "passed"
          /\ read' = smart /\ others' = other
          /\ at' = IF other \/ (blocked /\ ~Accepts(then)) THEN "refused" ELSE "waiting"
      BY <1>3 DEF PreWipeGate
  <2>2. at = "gate" /\ UNCHANGED <<place, override, then, blind>>
      BY <1>3 DEF PreWipeGate, world, request
  <2>3. Blocked(then, smart) => blocked
      BY <2>1
  <2>4. CASE at' = "refused"
      BY <2>4
  <2>5. CASE at' # "refused"
    <3>1. at' = "waiting" /\ ~others' /\ ~(blocked /\ ~Accepts(then))
        BY <2>1, <2>5
    <3>2. (Blocked(then, read))' => gate' = "blocked"
        BY <2>1, <2>2, <2>3
    <3>3. gate' = "blocked" => override' /\ Overridable(then')
        BY <2>1, <2>2, <3>1 DEF Accepts
    <3> QED
        BY <2>1, <2>2, <3>1, <3>2, <3>3
  <2> QED
      BY <2>4, <2>5
<1>4. CASE CreateJob
    BY <1>4 DEF CreateJob, world, request
<1>5. CASE CheckHealthGate
  <2>1. at = "queued" /\ now' = policy
        /\ UNCHANGED <<place, override, then, gate, read, others, blind>>
      BY <1>5 DEF CheckHealthGate, world, request
  <2>2. CASE gate = "passed" /\ at' = "wiping" /\ UNCHANGED trail
      BY <2>1, <2>2
  <2>3. CASE gate = "blocked" /\ Accepts(now') /\ at' = "wiping" /\ trail' = "override"
      BY <2>1, <2>3 DEF Accepts
  <2>4. CASE gate = "blocked" /\ ~Accepts(now') /\ at' = "failed" /\ trail' = "blocked"
      BY <2>1, <2>4
  <2> QED
      BY <1>5, <2>2, <2>3, <2>4 DEF CheckHealthGate
<1>6. CASE Decay \/ Exchange \/ ChangePolicy
    BY <1>6 DEF Decay, Exchange, ChangePolicy, request
<1>7. CASE UNCHANGED vars
    BY <1>7 DEF vars
<1> QED
    BY <1>1, <1>2, <1>3, <1>4, <1>5, <1>6, <1>7 DEF Next

(* A wipe starts only on what was admitted: start_erase, and the worker's  *)
(* _check_health_gate, which trusts the gate's earlier result.             *)
THEOREM OnlyAdmittedWiped == Spec => []WipesOnlyAdmitted
<1>1. AdmissionInv => WipesOnlyAdmitted
    BY DEF AdmissionInv, Looked, Gated, Confirmed, WipesOnlyAdmitted, GateHolds, OnlyData
<1> QED
    BY InitEstablishes, StepKeeps, <1>1, PTL DEF Spec

-----------------------------------------------------------------------------
(* A drive that gets worse.  The rules are sums and products of many cases *)
(* with thresholds of their own: each term of the score is shown to move   *)
(* in one direction only, and the two places where one does not (the least *)
(* base of a worn SSD that gets old, the tenth bad read) to lie where the  *)
(* recommendation is DESTROY already.                                      *)

(* e is a report of the drive of d in which something may have got worse. *)
NoBetter(d, e) ==
    /\ e.iface = d.iface /\ e.ssd = d.ssd /\ (d.wear = NoWear <=> e.wear = NoWear)
    /\ d.wear <= e.wear /\ d.hours <= e.hours /\ d.writes <= e.writes /\ d.defects <= e.defects
    /\ e.spare <= d.spare /\ d.pending <= e.pending /\ d.errors <= e.errors /\ d.media <= e.media
    /\ d.badReads <= e.badReads /\ d.badWrites <= e.badWrites /\ d.badVerifies <= e.badVerifies
    /\ (d.failed => e.failed) /\ (d.prefail => e.prefail) /\ (d.critical => e.critical)
    /\ (d.halted => e.halted) /\ (d.sticky => e.sticky) /\ (d.offline => e.offline)

(* A cap, a floor and a division keep the order of what they are given. *)
LEMMA CapsInOrder ==
    ASSUME NEW x \in Int, NEW y \in Int, NEW most \in Int, x <= y
    PROVE  Capped(x, most) \in Int /\ Capped(x, most) <= Capped(y, most)
  BY DEF Capped

LEMMA FloorsInOrder ==
    ASSUME NEW x \in Int, NEW y \in Int, NEW least \in Int, x <= y
    PROVE  Floored(x, least) \in Int /\ Floored(x, least) <= Floored(y, least)
  BY DEF Floored

LEMMA QuotientsInOrder ==
    ASSUME NEW x \in Nat, NEW y \in Nat, x <= y
    PROVE  /\ x \div 5 \in Nat /\ x \div 5 <= y \div 5
           /\ x \div 100 \in Nat /\ x \div 100 <= y \div 100
  OBVIOUS

(* Half points go to the even neighbour, and that keeps the order too. *)
LEMMA RoundsInOrder ==
    ASSUME NEW x \in Nat, NEW y \in Nat, x <= y
    PROVE  /\ Rounded(x) \in Nat /\ Rounded(x) <= Rounded(y)
           /\ x <= 1000 => Rounded(x) <= 10
  BY DEF Rounded

(* The penalty for an SSD's hours grows with the square of their excess. *)
LEMMA HoursOfSsdGrow ==
    ASSUME NEW h \in Nat, NEW k \in Nat, h <= k
    PROVE  HoursOfSsd(h) \in Nat /\ HoursOfSsd(h) <= HoursOfSsd(k)
<1> DEFINE Over(n) == ((n - HighHours) * 100) \div HighHours
           Square(n) == 25 * Over(n) * Over(n)
<1>1. ASSUME NEW n \in Nat, n > HighHours
      PROVE  Over(n) \in Nat /\ Square(n) \in Nat
  <2>1. Over(n) \in Nat
      BY <1>1 DEF HighHours
  <2> HIDE DEF Over
  <2> QED
      BY <2>1
<1>2. ASSUME NEW n \in Nat, n > HighHours
      PROVE  HoursOfSsd(n) = Capped(Square(n) \div 100, 2500)
      BY <1>2 DEF HoursOfSsd, HighHours
<1>3. ASSUME NEW n \in Nat, n <= HighHours
      PROVE  HoursOfSsd(n) = 0
      BY <1>3 DEF HoursOfSsd
<1>4. ASSUME NEW n \in Nat, n > HighHours
      PROVE  HoursOfSsd(n) \in Nat
  <2> HIDE DEF Square
  <2> QED
      BY <1>1, <1>2, <1>4, QuotientsInOrder DEF Capped
<1>5. CASE h > HighHours
  <2>1. k > HighHours
      BY <1>5 DEF HighHours
  <2>2. Over(h) <= Over(k)
      BY <1>5 DEF HighHours
  <2>3. Square(h) <= Square(k)
    <3>1. Over(h) \in Nat /\ Over(k) \in Nat
        BY <1>1, <1>5, <2>1
    <3> HIDE DEF Over
    <3>2. Over(h) * Over(h) <= Over(h) * Over(k) /\ Over(h) * Over(k) <= Over(k) * Over(k)
        BY <2>2, <3>1
    <3> QED
        BY <3>1, <3>2
  <2> HIDE DEF Square
  <2>4. Square(h) \div 100 <= Square(k) \div 100
        /\ Square(h) \div 100 \in Nat /\ Square(k) \div 100 \in Nat
      BY <1>1, <1>5, <2>1, <2>3, QuotientsInOrder
  <2> QED
      BY <1>2, <1>4, <1>5, <2>1, <2>4, CapsInOrder
<1>6. CASE ~(h > HighHours)
    BY <1>3, <1>4, <1>6 DEF HighHours
<1> QED
    BY <1>5, <1>6

LEMMA DiskWearGrows ==
    ASSUME NEW h \in Nat, NEW k \in Nat, h <= k
    PROVE  /\ HoursOfDisk(h) \in Nat /\ HoursOfDisk(h) <= HoursOfDisk(k)
           /\ WritesOfDisk(h) \in Nat /\ WritesOfDisk(h) <= WritesOfDisk(k)
  BY QuotientsInOrder DEF HoursOfDisk, WritesOfDisk, Capped

(* The base falls, or is the least that hours leave of a worn SSD. *)
LEMMA BaseFalls ==
    ASSUME NEW d \in Reports, NEW e \in Reports, NoBetter(d, e)
    PROVE  Base(d) \in Nat /\ (Base(e) <= Base(d) \/ Base(e) <= 1000)
<1>1. /\ HoursOfSsd(d.hours) \in Nat /\ HoursOfSsd(e.hours) \in Nat
      /\ HoursOfSsd(d.hours) <= HoursOfSsd(e.hours)
    BY HoursOfSsdGrow DEF Reports, NoBetter
<1>2. /\ HoursOfDisk(d.hours) \in Nat /\ HoursOfDisk(e.hours) \in Nat
      /\ WritesOfDisk(d.writes) \in Nat /\ WritesOfDisk(e.writes) \in Nat
      /\ HoursOfDisk(d.hours) <= HoursOfDisk(e.hours)
      /\ WritesOfDisk(d.writes) <= WritesOfDisk(e.writes)
    BY DiskWearGrows DEF Reports, NoBetter
<1> QED
    BY <1>1, <1>2 DEF Base, Floored, Reports, NoBetter, NoWear, HighHours

(* Every penalty grows, but for the bad reads of SAS drives at the tenth. *)
LEMMA PenaltiesGrow ==
    ASSUME NEW d \in Reports, NEW e \in Reports, NoBetter(d, e)
    PROVE  /\ Penalties(d) \in Nat
           /\ (e.iface = "sas" /\ e.badReads >= 10) \/ Penalties(d) <= Penalties(e)
<1>1. OfDefects(d) \in Nat /\ OfDefects(e) \in Nat /\ OfDefects(d) <= OfDefects(e)
  <2>1. /\ d.defects \in Nat /\ e.defects \in Nat /\ d.spare \in Nat /\ e.spare \in Nat
        /\ d.defects <= e.defects /\ e.spare <= d.spare /\ e.ssd = d.ssd /\ e.iface = d.iface
      BY DEF Reports, NoBetter
  <2>2. CASE d.ssd
      BY <2>1, <2>2 DEF OfDefects, Capped
  <2>3. CASE ~d.ssd /\ d.iface = "sas"
      BY <2>1, <2>3 DEF OfDefects, Digits, Capped
  <2>4. CASE ~d.ssd /\ d.iface # "sas"
      BY <2>1, <2>4 DEF OfDefects, Capped
  <2> QED
      BY <2>2, <2>3, <2>4
<1>2. OfErrors(d) \in Nat /\ OfErrors(e) \in Nat /\ OfErrors(d) <= OfErrors(e)
    BY DEF OfErrors, NmePenalty, Capped, Reports, NoBetter
<1>3. /\ OfBadReads(d) \in Nat /\ OfBadReads(e) \in Nat
      /\ (e.iface = "sas" /\ e.badReads >= 10) \/ OfBadReads(d) <= OfBadReads(e)
    BY DEF OfBadReads, Reports, NoBetter
<1> QED
    BY <1>1, <1>2, <1>3 DEF Penalties, Capped, Reports, NoBetter

LEMMA StatusFalls ==
    ASSUME NEW d \in Reports, NEW e \in Reports, NoBetter(d, e)
    PROVE  /\ (Failed(d) => Failed(e)) /\ (Overridden(d) => Overridden(e))
           /\ (HardStop(d) => HardStop(e)) /\ (AsNew(e) => AsNew(d))
  BY DEF Failed, Overridden, HardStop, AsNew, DefectsFail, NewHours, NoWear, Reports, NoBetter

(* The score falls, or is one that means DESTROY. *)
LEMMA ScoreFalls ==
    ASSUME NEW d \in Reports, NEW e \in Reports, NoBetter(d, e)
    PROVE  /\ Score(d) \in Nat
           /\ HardStop(e) \/ Score(e) <= Score(d) \/ Score(e) <= DestroyScore
<1> DEFINE Left(r) == Floored(Base(r) - Penalties(r), 0)
<1>1. /\ Base(d) \in Nat /\ Base(e) \in Nat /\ Penalties(d) \in Nat /\ Penalties(e) \in Nat
      /\ Base(e) <= Base(d) \/ Base(e) <= 1000
      /\ HardStop(e) \/ Penalties(d) <= Penalties(e)
  <2>1. NoBetter(e, e)
      BY DEF NoBetter, Reports, NoWear
  <2> QED
      BY <2>1, BaseFalls, PenaltiesGrow DEF HardStop
<1>2. /\ Left(d) \in Nat /\ Left(e) \in Nat
      /\ HardStop(e) \/ Left(e) <= Left(d) \/ Left(e) <= 1000
    BY <1>1 DEF Floored
<1>3. Score(d) = IF Overridden(d) THEN Capped(Rounded(Left(d)), 5) ELSE Rounded(Left(d))
    BY DEF Score
<1>4. Score(e) = IF Overridden(e) THEN Capped(Rounded(Left(e)), 5) ELSE Rounded(Left(e))
    BY DEF Score
<1> HIDE DEF Left
<1>5. Rounded(Left(d)) \in Nat /\ Rounded(Left(e)) \in Nat
    BY <1>2, RoundsInOrder
<1>6. HardStop(e) \/ Rounded(Left(e)) <= Rounded(Left(d)) \/ Rounded(Left(e)) <= 10
    BY <1>2, RoundsInOrder
<1>7. Overridden(d) => Overridden(e)
    BY StatusFalls
<1> QED
    BY <1>3, <1>4, <1>5, <1>6, <1>7 DEF Capped, DestroyScore

(* The recommendation is never for better. *)
LEMMA RankFalls ==
    ASSUME NEW d \in Reports, NEW e \in Reports, NoBetter(d, e)
    PROVE  /\ Rank(e) <= Rank(d)
           /\ Recommendation(d) = "DESTROY" => Recommendation(e) = "DESTROY"
           /\ Recommendation(d) = "SCRATCH" => Recommendation(e) \in {"SCRATCH", "DESTROY"}
           /\ Score(d) <= DestroyScore => Recommendation(d) = "DESTROY"
<1>1. Score(d) \in Nat /\ Score(e) \in Nat
      /\ (HardStop(e) \/ Score(e) <= Score(d) \/ Score(e) <= DestroyScore)
  <2>1. NoBetter(e, e)
      BY DEF NoBetter, Reports, NoWear
  <2> QED
      BY <2>1, ScoreFalls
<1>2. (Failed(d) => Failed(e)) /\ (HardStop(d) => HardStop(e)) /\ (AsNew(e) => AsNew(d))
    BY StatusFalls
<1> QED
    BY <1>1, <1>2 DEF Rank, Recommendation, DestroyScore, ScratchScore, GoodScore

(* What the gate blocks it goes on blocking. *)
LEMMA BlockStays ==
    ASSUME NEW d \in Reports, NEW e \in Reports, NoBetter(d, e),
           NEW p \in Rules, p.scratch => p.destroy, Blocked(p, d)
    PROVE  Blocked(p, e)
<1>1. p.enabled
    BY DEF Blocked
<1>2. CASE p.failed /\ Failed(d)
    BY <1>1, <1>2, StatusFalls DEF Blocked
<1>3. CASE p.destroy /\ (Score(d) <= DestroyScore \/ Recommendation(d) = "DESTROY")
    BY <1>1, <1>3, RankFalls DEF Blocked
<1>4. CASE p.scratch /\ Recommendation(d) = "SCRATCH"
    BY <1>1, <1>4, RankFalls DEF Blocked
<1>5. CASE d.pending > p.pending \/ d.defects > p.defects \/ d.errors > p.errors
  <2>1. e.pending > p.pending \/ e.defects > p.defects \/ e.errors > p.errors
      BY <1>5 DEF NoBetter, Reports, Rules
  <2> QED
      BY <1>1, <2>1 DEF Blocked
<1>6. CASE d.iface = "nvme" /\ (d.spare < 10 \/ d.critical)
  <2>1. e.iface = "nvme" /\ (e.spare < 10 \/ e.critical)
      BY <1>6 DEF NoBetter, Reports
  <2> QED
      BY <1>1, <2>1 DEF Blocked
<1>7. CASE d.iface = "sas" /\ (d.defects > DefectsFail \/ d.halted \/ d.badVerifies > 0
                              \/ d.badWrites > 0 \/ d.badReads >= 10 \/ d.sticky)
  <2>1. e.iface = "sas" /\ (e.defects > DefectsFail \/ e.halted \/ e.badVerifies > 0
                            \/ e.badWrites > 0 \/ e.badReads >= 10 \/ e.sticky)
      BY <1>7 DEF NoBetter, Reports, DefectsFail
  <2> QED
      BY <1>1, <2>1 DEF Blocked
<1>8. CASE d.offline
    BY <1>1, <1>8 DEF Blocked, NoBetter
<1> QED
    BY <1>2, <1>3, <1>4, <1>5, <1>6, <1>7, <1>8 DEF Blocked

(* One thing about the drive gets worse, and nothing better. *)
LEMMA WorseIsNoBetter ==
    ASSUME NEW d \in Reports, NEW e \in Worse(d)
    PROVE  e \in Reports /\ NoBetter(d, e)
<1> USE DEF Reports, NoBetter, NoWear
<1>1. CASE \E a \in Counters(d) : e \in {[d EXCEPT ![a] = w] : w \in Above(a, d[a])}
  <2>1. PICK a \in Counters(d) : \E w \in Above(a, d[a]) : e = [d EXCEPT ![a] = w]
      BY <1>1
  <2>2. PICK w \in Above(a, d[a]) : e = [d EXCEPT ![a] = w]
      BY <2>1
  <2>3. /\ a \in {"hours", "writes", "errors", "defects", "pending", "media", "badReads",
                  "badWrites", "badVerifies", "wear"}
        /\ a = "wear" => d.wear # NoWear
      BY DEF Counters, Interfaces
  <2>4. w \in Nat /\ w > d[a]
      BY <2>3, AdmissionAssumption DEF Above, Tallies
  <2>5. CASE a \in {"hours", "writes"}
      BY <2>2, <2>4, <2>5
  <2>6. CASE a \in {"errors", "defects"}
      BY <2>2, <2>4, <2>6
  <2>7. CASE a \in {"pending", "media"}
      BY <2>2, <2>4, <2>7
  <2>8. CASE a \in {"badReads", "badWrites"}
      BY <2>2, <2>4, <2>8
  <2>9. CASE a \in {"badVerifies", "wear"}
      BY <2>2, <2>3, <2>4, <2>9
  <2> QED
      BY <2>3, <2>5, <2>6, <2>7, <2>8, <2>9
<1>2. CASE e \in {[d EXCEPT ![a] = TRUE] : a \in {s \in Signs(d) : ~d[s]}}
  <2>1. PICK a \in Signs(d) : e = [d EXCEPT ![a] = TRUE]
      BY <1>2
  <2>2. a \in {"failed", "prefail", "offline", "halted", "sticky", "critical"}
      BY DEF Signs, Interfaces
  <2>3. \A s \in {"failed", "prefail", "offline", "halted", "sticky", "critical"} : d[s] => e[s]
      BY <2>1, <2>2
  <2>4. /\ e.iface = d.iface /\ e.ssd = d.ssd /\ e.wear = d.wear
        /\ e.hours = d.hours /\ e.writes = d.writes /\ e.defects = d.defects
        /\ e.spare = d.spare /\ e.pending = d.pending /\ e.errors = d.errors
        /\ e.media = d.media /\ e.badReads = d.badReads /\ e.badWrites = d.badWrites
        /\ e.badVerifies = d.badVerifies
      BY <2>1, <2>2
  <2>5. e \in Reports
      BY <2>1, <2>2
  <2>6. e.wear <= e.wear /\ e.hours <= e.hours /\ e.writes <= e.writes /\ e.defects <= e.defects
        /\ e.spare <= e.spare /\ e.pending <= e.pending /\ e.errors <= e.errors
        /\ e.media <= e.media /\ e.badReads <= e.badReads /\ e.badWrites <= e.badWrites
        /\ e.badVerifies <= e.badVerifies
      BY <2>5
  <2> QED
      BY Zenon, <2>3, <2>4, <2>5, <2>6
<1>3. CASE e \in {[d EXCEPT !.spare = w] : w \in Below("spare", d.spare)}
    BY <1>3, AdmissionAssumption DEF Below, Tallies
<1>4. \/ \E a \in Counters(d) : e \in {[d EXCEPT ![a] = w] : w \in Above(a, d[a])}
      \/ e \in {[d EXCEPT ![a] = TRUE] : a \in {s \in Signs(d) : ~d[s]}}
      \/ e \in {[d EXCEPT !.spare = w] : w \in Below("spare", d.spare)}
    BY DEF Worse
<1> QED
    BY <1>1, <1>2, <1>3, <1>4

(* The report stays one, and the count of decays a number. *)
ReportInv == smart \in Reports /\ decays \in Nat

LEMMA ReportKept == ReportInv /\ [Next]_vars => ReportInv'
<1> SUFFICES ASSUME ReportInv, [Next]_vars PROVE ReportInv'
    OBVIOUS
<1> USE DEF ReportInv
<1>1. CASE Decay
    BY <1>1, WorseIsNoBetter DEF Decay
<1>2. CASE Exchange
    BY <1>2, AdmissionAssumption DEF Exchange
<1>3. CASE UNCHANGED <<smart, decays>>
    BY <1>3
<1> QED
    BY <1>1, <1>2, <1>3 DEF Next, vars, world, Discover, Validate, PreWipeGate, CreateJob,
       CheckHealthGate, ChangePolicy

(* A drive of which anything got worse is never recommended for better and *)
(* never passes a gate that blocked it: compute_health_score, the triage   *)
(* and pre_wipe_health_gate, for every report, every step of any counter   *)
(* and every policy that blocks for destruction if it does for scratch.    *)
THEOREM NothingGetsBetter == Spec => DecayNeverHelps
<1>1. Init => ReportInv
    BY AdmissionAssumption DEF Init, ReportInv
<1>2. ASSUME ReportInv, [Next]_vars
      PROVE  [decays' > decays =>
                /\ Rank(smart') <= Rank(smart)
                /\ \A p \in Policies :
                     (p.scratch => p.destroy) /\ Blocked(p, smart) => Blocked(p, smart')]_vars
  <2>1. CASE Decay
    <3>1. smart' \in Reports /\ NoBetter(smart, smart')
        BY <1>2, <2>1, WorseIsNoBetter DEF Decay, ReportInv
    <3> QED
        BY <1>2, <3>1, RankFalls, BlockStays, AdmissionAssumption DEF ReportInv
  <2>2. CASE UNCHANGED decays
      BY <1>2, <2>2 DEF ReportInv
  <2> QED
      BY <1>2, <2>1, <2>2 DEF Next, vars, world, Discover, Validate, PreWipeGate, CreateJob,
         CheckHealthGate, Exchange, ChangePolicy
<1> QED
    BY <1>1, <1>2, ReportKept, PTL DEF Spec, DecayNeverHelps
=============================================================================
