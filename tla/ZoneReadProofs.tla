--------------------------- MODULE ZoneReadProofs ---------------------------
(***************************************************************************)
(* A drive that is reported as zeroed was read and held nothing where it   *)
(* was to be read, for drives and zones of every size and every order of   *)
(* dd, the reader and the watcher.                                         *)
(***************************************************************************)
EXTENDS ZoneRead, TLAPS

Reasons == {NoReason, "nonzero", "cancelled", "timeout"}
Outcomes == {NoReason, "zeroed", "data_present", "cancelled", "inconclusive", "failed"}
Steps == {"start", "read", "found", "join", "judge", "end"}

ZTypeOK ==
    /\ capacity \in Capacities /\ data \in 0..capacity
    /\ zone \in 1..(Len(ZoneStarts) + 1) /\ got \in Nat
    /\ proc \in [at : {"none", "running", "exited", "failed", "killed"}, out : Nat]
    /\ thread \in Steps /\ watcher \in {"none", "poll", "look", "kill", "end"}
    /\ reason \in Reasons /\ cancel \in BOOLEAN /\ late \in BOOLEAN /\ outcome \in Outcomes

(* A zone is read, or dd runs, only while there is one. *)
InZone ==
    thread \in {"read", "found", "join", "judge"} \/ proc.at # "none" => zone <= Len(ZoneStarts)

(* dd ends well only when it has put out its zone. *)
Complete == proc.at = "exited" => proc.out = Length(zone)

Clean(z, n) == \A i \in 1..n : ~Holds(z, i)

(* The thread goes on only while what it has seen is clean; it has no reason to
   stop only if it saw the end of the output. *)
Looked ==
    /\ thread = "read" => Clean(zone, got)
    /\ thread \in {"join", "judge"} /\ reason = NoReason =>
         Clean(zone, got) /\ proc.at # "running" /\ proc.out = got

(* The zones before this one were read to their end. *)
Behind == \A z \in 1..(zone - 1) : Clean(z, Length(z))

Concluded == outcome = "zeroed" => zone = Len(ZoneStarts) + 1

ZoneInv == ZTypeOK /\ InZone /\ Complete /\ Looked /\ Behind /\ Concluded

-----------------------------------------------------------------------------
(* Where the zones lie *)

LEMMA AlignedIs ==
    ASSUME NEW n \in Nat
    PROVE  Aligned(n) \in Nat /\ Aligned(n) <= n /\ n < Aligned(n) + Block
  <1>1. Block \in Nat /\ Block > 0
    BY ZoneReadAssumption
  <1> DEFINE q == n \div Block
  <1>2. q \in Nat /\ q * Block <= n /\ n < q * Block + Block
    BY <1>1
  <1> QED
    BY <1>1, <1>2 DEF Aligned

LEMMA ZoneSizeIs == ZoneSize \in Nat /\ ZoneSize > 0
  <1>1. Block \in Nat /\ Block > 0 /\ ZoneCount \in Nat /\ ZoneCount > 0 /\ Total \in Nat
    BY ZoneReadAssumption
  <1>2. Total \div ZoneCount \in Nat
    BY <1>1
  <1>3. Aligned(Total \div ZoneCount) \in Nat
    BY <1>2, AlignedIs
  <1> QED
    BY <1>1, <1>3 DEF ZoneSize

LEMMA MinusIs ==
    ASSUME NEW a \in Nat, NEW b \in Nat
    PROVE  Minus(a, b) \in Nat /\ (a >= b => Minus(a, b) = a - b) /\ (a < b => Minus(a, b) = 0)
  BY DEF Minus

LEMMA AroundIs == ASSUME NEW n \in Nat PROVE Around(n) \in Nat
  <1>1. ZoneSize \div 2 \in Nat
    BY ZoneSizeIs
  <1> QED
    BY <1>1, MinusIs, AlignedIs DEF Around

(* Every zone begins in the drive or behind its end, and is cut off there. *)
LEMMA ZonesAre ==
    ASSUME capacity \in Nat, NEW z \in 1..Len(ZoneStarts)
    PROVE  ZoneStarts[z] \in Nat /\ Length(z) \in Nat
  <1>1. /\ capacity \div 4 \in Nat /\ capacity \div 2 \in Nat /\ (3 * capacity) \div 4 \in Nat
        /\ Minus(capacity, ZoneSize) \in Nat
    <2>1. capacity \div 4 \in Nat /\ capacity \div 2 \in Nat /\ (3 * capacity) \div 4 \in Nat
      OBVIOUS
    <2> QED
      BY <2>1, ZoneSizeIs, MinusIs
  <1>2. \A s \in 1..5 : Starts[s] \in Nat
    <2>1. /\ Around(capacity \div 4) \in Nat /\ Around(capacity \div 2) \in Nat
          /\ Around((3 * capacity) \div 4) \in Nat /\ Aligned(Minus(capacity, ZoneSize)) \in Nat
      BY <1>1, AroundIs, AlignedIs
    <2> QED
      BY <2>1 DEF Starts
  <1>3. ZoneStarts[z] \in Nat
    BY <1>2 DEF ZoneStarts, Starts
  <1> QED
    BY <1>3, ZoneSizeIs DEF Length, Least

LEMMA ZonesStand ==
    ASSUME UNCHANGED capacity
    PROVE  ZoneStarts' = ZoneStarts /\ \A z : Length(z)' = Length(z)
  BY DEF ZoneStarts, Starts, Around, Length

LEMMA AtLeastOneZone == Len(ZoneStarts) \in {1, 5}
  BY DEF ZoneStarts, Starts

-----------------------------------------------------------------------------
(* The steps *)

LEMMA ReturnKeeps ==
    ASSUME ZoneInv, NEW result \in Outcomes, Return(result),
           result = "zeroed" => zone > Len(ZoneStarts)
    PROVE  ZoneInv'
  <1> USE DEF ZoneInv, Return
  <1>1. ZoneStarts' = ZoneStarts /\ \A z : Length(z)' = Length(z)
    BY ZonesStand
  <1>2. ZTypeOK'
    BY <1>1 DEF ZTypeOK, Steps
  <1>3. InZone' /\ Looked'
    BY <1>1 DEF InZone, Looked
  <1>4. Complete' /\ Behind'
    BY <1>1 DEF Complete, Length, Behind, Clean, Holds
  <1>5. Concluded'
    <2>1. zone <= Len(ZoneStarts) + 1 /\ zone \in Nat /\ Len(ZoneStarts) \in Nat
      BY AtLeastOneZone DEF ZTypeOK
    <2> QED
      BY <1>1, <2>1 DEF Concluded
  <1> QED
    BY <1>2, <1>3, <1>4, <1>5

LEMMA StartZoneKeeps ==
    ASSUME ZoneInv, StartZone
    PROVE  ZoneInv'
  <1> USE DEF ZoneInv, StartZone
  <1>1. ZoneStarts' = ZoneStarts /\ \A z : Length(z)' = Length(z)
    BY ZonesStand
  <1>2. ZTypeOK'
    BY <1>1 DEF ZTypeOK, Steps, Reasons
  <1>3. InZone' /\ Complete' /\ Concluded'
    BY <1>1 DEF InZone, Complete, Concluded
  <1>4. Looked' /\ Behind'
    BY <1>1 DEF Looked, Behind, Clean, Holds
  <1> QED
    BY <1>2, <1>3, <1>4

LEMMA ReadBlockKeeps ==
    ASSUME ZoneInv, ReadBlock
    PROVE  ZoneInv'
  <1> USE DEF ZoneInv, ReadBlock
  <1>1. ZoneStarts' = ZoneStarts /\ \A z : Length(z)' = Length(z)
    BY ZonesStand
  <1>2. NextBlock \in Nat
    BY ZoneReadAssumption DEF ZTypeOK, NextBlock, Least
  <1>3. ZTypeOK'
    BY <1>1, <1>2 DEF ZTypeOK, Steps
  <1>4. InZone' /\ Concluded'
    BY <1>1 DEF InZone, Concluded
  <1>5. Complete' /\ Behind'
    BY <1>1 DEF Complete, Length, Behind, Clean, Holds
  <1>6. Looked'
    <2>1. thread' \in {"read", "found"}
      OBVIOUS
    <2>2. ASSUME thread' = "read", NEW i \in 1..got' PROVE ~Holds(zone, i)
      <3>1. ~ \E k \in (got + 1)..(got + NextBlock) : Holds(zone, k)
        BY <2>2
      <3>2. i \in 1..got \/ i \in (got + 1)..(got + NextBlock)
        BY <1>2, <2>2 DEF ZTypeOK
      <3> QED
        BY <3>1, <3>2 DEF Looked, Clean
    <2> QED
      BY <1>1, <2>1, <2>2 DEF Looked, Clean, Holds
  <1> QED
    BY <1>3, <1>4, <1>5, <1>6

LEMMA FoundKeeps ==
    ASSUME ZoneInv, Found
    PROVE  ZoneInv'
  <1> USE DEF ZoneInv, Found, TryKill
  <1>1. ZoneStarts' = ZoneStarts /\ \A z : Length(z)' = Length(z)
    BY ZonesStand
  <1>2. /\ proc' \in [at : {"none", "running", "exited", "failed", "killed"}, out : Nat]
        /\ proc'.at = "exited" => proc' = proc
    BY DEF ZTypeOK
  <1>3. reason' \in Reasons \ {NoReason}
    BY DEF ZTypeOK, Reasons, NoReason
  <1>4. ZTypeOK'
    BY <1>1, <1>2, <1>3 DEF ZTypeOK, Steps
  <1>5. InZone' /\ Concluded' /\ Looked'
    BY <1>1, <1>3 DEF InZone, Concluded, Looked
  <1>6. Complete' /\ Behind'
    BY <1>1, <1>2 DEF Complete, Length, Behind, Clean, Holds
  <1> QED
    BY <1>4, <1>5, <1>6

LEMMA EndOfOutputKeeps ==
    ASSUME ZoneInv, EndOfOutput
    PROVE  ZoneInv'
  <1> USE DEF ZoneInv, EndOfOutput
  <1>1. ZoneStarts' = ZoneStarts /\ \A z : Length(z)' = Length(z)
    BY ZonesStand
  <1>2. ZTypeOK'
    BY <1>1 DEF ZTypeOK, Steps
  <1>3. InZone' /\ Concluded'
    BY <1>1 DEF InZone, Concluded
  <1>4. Complete' /\ Behind' /\ Looked'
    BY <1>1 DEF Complete, Length, Behind, Looked, Clean, Holds
  <1> QED
    BY <1>2, <1>3, <1>4

LEMMA JoinKeeps ==
    ASSUME ZoneInv, Join
    PROVE  ZoneInv'
  <1> USE DEF ZoneInv, Join
  <1>1. ZoneStarts' = ZoneStarts /\ \A z : Length(z)' = Length(z)
    BY ZonesStand
  <1>2. ZTypeOK'
    BY <1>1 DEF ZTypeOK, Steps
  <1>3. InZone' /\ Concluded'
    BY <1>1 DEF InZone, Concluded
  <1>4. Complete' /\ Behind' /\ Looked'
    BY <1>1 DEF Complete, Length, Behind, Looked, Clean, Holds
  <1> QED
    BY <1>2, <1>3, <1>4

(* A zone is taken for clean only if it was read to its end. *)
LEMMA ZoneCleanKeeps ==
    ASSUME ZoneInv, ZoneClean
    PROVE  ZoneInv'
  <1> USE DEF ZoneInv, ZoneClean
  <1>1. ZoneStarts' = ZoneStarts /\ \A z : Length(z)' = Length(z)
    BY ZonesStand
  <1>2. reason = NoReason /\ proc.at = "exited" /\ thread = "judge"
    BY DEF JudgedAs, ZoneResult, ZTypeOK, Reasons, NoReason
  <1>3. Clean(zone, Length(zone))
    BY <1>2 DEF Looked, Complete
  <1>4. zone \in Nat /\ Len(ZoneStarts) \in Nat /\ zone <= Len(ZoneStarts) /\ zone >= 1
    BY <1>2, AtLeastOneZone DEF InZone, ZTypeOK
  <1>5. ZTypeOK'
    BY <1>1, <1>4 DEF ZTypeOK, Steps, NoProc
  <1>6. InZone' /\ Complete' /\ Looked' /\ Concluded'
    <2>1. outcome # "zeroed"
      BY <1>4 DEF Concluded
    <2> QED
      BY <2>1 DEF InZone, Complete, Looked, Concluded, NoProc
  <1>7. Behind'
    <2>1. \A z \in 1..zone : Clean(z, Length(z))
      BY <1>3, <1>4 DEF Behind
    <2> QED
      BY <1>1, <1>4, <2>1 DEF Behind, Clean, Holds
  <1> QED
    BY <1>5, <1>6, <1>7

(* The watcher, dd and the outside: the thread stays where it is. *)
LEMMA OthersKeep ==
    ASSUME ZoneInv, UNCHANGED <<capacity, data, zone, got, thread, outcome>>,
           cancel' \in BOOLEAN, late' \in BOOLEAN, reason' \in Reasons,
           watcher' \in {"none", "poll", "look", "kill", "end"},
           proc' \in [at : {"none", "running", "exited", "failed", "killed"}, out : Nat],
           reason' = NoReason => reason = NoReason,
           proc.at # "running" => proc'.at # "running" /\ proc'.out = proc.out,
           proc'.at = "exited" => proc'.out = Length(zone),
           proc.at = "none" => proc'.at = "none"
    PROVE  ZoneInv'
  <1> USE DEF ZoneInv
  <1>1. ZoneStarts' = ZoneStarts /\ \A z : Length(z)' = Length(z)
    BY ZonesStand
  <1>2. ZTypeOK'
    BY <1>1 DEF ZTypeOK
  <1>3. InZone' /\ Concluded'
    BY <1>1 DEF InZone, Concluded
  <1>4. Complete' /\ Behind' /\ Looked'
    BY <1>1 DEF Complete, Length, Behind, Looked, Clean, Holds
  <1> QED
    BY <1>2, <1>3, <1>4

LEMMA WatcherKeeps ==
    ASSUME ZoneInv, Poll \/ Look \/ Kill
    PROVE  ZoneInv'
  <1> USE DEF ZoneInv, WatcherMoves
  <1>1. CASE Poll
    BY <1>1, OthersKeep DEF Poll, ZTypeOK, Complete
  <1>2. CASE Look
    <2>1. Cause \in Reasons
      BY DEF Cause, Reasons
    <2> QED
      BY <1>2, <2>1, OthersKeep DEF Look, ZTypeOK, Complete
  <1>3. CASE Kill
    <2>1. /\ proc' \in [at : {"none", "running", "exited", "failed", "killed"}, out : Nat]
          /\ proc'.out = proc.out /\ proc'.at \in {proc.at, "killed"}
      BY <1>3 DEF Kill, TryKill, ZTypeOK
    <2> QED
      BY <1>3, <2>1, OthersKeep DEF Kill, TryKill, ZTypeOK, Complete
  <1> QED
    BY <1>1, <1>2, <1>3

LEMMA OutsideKeeps ==
    ASSUME ZoneInv, Write \/ ExitDone \/ ExitFailed \/ Cancel \/ Deadline
    PROVE  ZoneInv'
  <1> USE DEF ZoneInv, ProcMoves
  <1>1. CASE Write
    <2>1. Length(zone) \in Nat
      <3>1. zone \in 1..Len(ZoneStarts) /\ capacity \in Nat
        BY <1>1, AtLeastOneZone, ZoneReadAssumption DEF InZone, ZTypeOK, Write
      <3> QED
        BY <3>1, ZonesAre
    <2>2. Least(proc.out + Block, Length(zone)) \in Nat
      BY <2>1, ZoneReadAssumption DEF Least, ZTypeOK
    <2>3. proc' \in [at : {"none", "running", "exited", "failed", "killed"}, out : Nat]
          /\ proc.at = "running" /\ proc'.at = "running"
      BY <1>1, <2>2 DEF Write, ZTypeOK
    <2> QED
      BY <1>1, <2>3, OthersKeep DEF Write, ZTypeOK
  <1>2. CASE ExitDone
    BY <1>2, OthersKeep DEF ExitDone, ZTypeOK, Complete
  <1>3. CASE ExitFailed
    BY <1>3, OthersKeep DEF ExitFailed, ZTypeOK, Complete
  <1>4. CASE Cancel
    BY <1>4, OthersKeep DEF Cancel, ZTypeOK, Complete
  <1>5. CASE Deadline
    BY <1>5, OthersKeep DEF Deadline, ZTypeOK, Complete
  <1> QED
    BY <1>1, <1>2, <1>3, <1>4, <1>5

-----------------------------------------------------------------------------
(* What the zones of a clean drive cover *)

LEMMA InitZone == ZoneInit => ZoneInv
  <1> SUFFICES ASSUME ZoneInit PROVE ZoneInv
    OBVIOUS
  <1> USE DEF ZoneInit
  <1>1. zone \in 1..(Len(ZoneStarts) + 1) /\ got \in Nat
    BY AtLeastOneZone
  <1>2. proc \in [at : {"none", "running", "exited", "failed", "killed"}, out : Nat]
    BY DEF NoProc
  <1>3. ZTypeOK
    BY <1>1, <1>2 DEF ZTypeOK, Steps, Reasons, Outcomes
  <1> QED
    BY <1>3 DEF ZoneInv, InZone, Complete, Looked, Behind, Concluded, NoProc, NoReason

LEMMA ZoneInvariant == ZoneInv /\ [ZoneNext]_zvars => ZoneInv'
  <1> SUFFICES ASSUME ZoneInv, [ZoneNext]_zvars PROVE ZoneInv'
    OBVIOUS
  <1>1. CASE AllZonesRead \/ CancelledBetween \/ ZoneStops
    BY <1>1, ReturnKeeps DEF AllZonesRead, CancelledBetween, ZoneStops, Outcomes
  <1>2. CASE StartZone \/ ReadBlock \/ Found \/ EndOfOutput \/ Join \/ ZoneClean
    BY <1>2, StartZoneKeeps, ReadBlockKeeps, FoundKeeps, EndOfOutputKeeps, JoinKeeps, ZoneCleanKeeps
  <1>3. CASE Poll \/ Look \/ Kill
    BY <1>3, WatcherKeeps
  <1>4. CASE Write \/ ExitDone \/ ExitFailed \/ Cancel \/ Deadline
    BY <1>4, OutsideKeeps
  <1>5. CASE UNCHANGED zvars
    BY <1>5, OthersKeep DEF zvars, ZoneInv, ZTypeOK, Complete
  <1> QED
    BY <1>1, <1>2, <1>3, <1>4, <1>5 DEF ZoneNext, ThreadStep

(* The first zone begins with the drive, the last ends with its last whole
   block, and a small drive is one zone. *)
LEMMA ZonesCover ==
    ASSUME ZTypeOK, \A z \in 1..Len(ZoneStarts) : Clean(z, Length(z))
    PROVE  /\ data \notin 1..ZoneSize /\ (capacity <= Small => data = 0)
           /\ data \notin (Minus(capacity, ZoneSize) + 1)..Minus(capacity, Block - 1)
  <1>1. /\ capacity \in Nat /\ data \in 0..capacity /\ Small \in Nat
        /\ Block \in Nat /\ Block > 0 /\ ZoneSize \in Nat /\ ZoneSize > 0
    BY ZoneReadAssumption, ZoneSizeIs DEF ZTypeOK
  <1>2. CASE capacity <= Small
    <2>1. ZoneStarts = <<0>>
      BY <1>2 DEF ZoneStarts
    <2>2. Length(1) = capacity
      BY <1>1, <1>2, <2>1 DEF Length, Least
    <2>3. ~ \E i \in 1..capacity : data = 0 + i
      BY <2>1, <2>2 DEF Clean, Holds
    <2>4. data = 0
      BY <1>1, <2>3
    <2>5. Minus(capacity, ZoneSize) \in Nat
      BY <1>1, MinusIs
    <2> QED
      BY <1>1, <2>4, <2>5
  <1>3. CASE ~(capacity <= Small)
    <2> DEFINE first == Minus(capacity, ZoneSize)
               start == Aligned(first)
    <2>1. /\ first \in Nat /\ (capacity >= ZoneSize => first = capacity - ZoneSize)
          /\ (capacity < ZoneSize => first = 0)
          /\ Minus(capacity, Block - 1) \in Nat
          /\ (capacity >= Block - 1 => Minus(capacity, Block - 1) = capacity - (Block - 1))
          /\ (capacity < Block - 1 => Minus(capacity, Block - 1) = 0)
      <3>1. Block - 1 \in Nat
        BY <1>1
      <3> QED
        BY <1>1, <3>1, MinusIs
    <2>2. start \in Nat /\ start <= first /\ first < start + Block
      BY <2>1, AlignedIs
    <2>3. /\ Len(ZoneStarts) = 5 /\ ZoneStarts[1] = 0 /\ ZoneStarts[5] = start
      BY <1>3 DEF ZoneStarts, Starts
    <2>4. /\ Length(1) = Least(ZoneSize, capacity)
          /\ Length(5) = Least(ZoneSize, capacity - Least(start, capacity))
      <3>1. Least(0, capacity) = 0
        BY <1>1 DEF Least
      <3> QED
        BY <1>1, <1>3, <2>3, <3>1 DEF Length
    <2>5. ~ \E i \in 1..Length(1) : data = 0 + i
      BY <2>3 DEF Clean, Holds
    <2>6. ~ \E i \in 1..Length(5) : data = start + i
      BY <2>3 DEF Clean, Holds
    <2> HIDE DEF first, start
    <2>7. data \notin 1..ZoneSize
      BY <1>1, <2>4, <2>5 DEF Least
    <2>8. ASSUME data \in (first + 1)..Minus(capacity, Block - 1) PROVE FALSE
      <3>1. data - start \in 1..Length(5)
        <4>1. data >= first + 1 /\ data <= capacity /\ data + Block <= capacity + 1
          BY <1>1, <2>1, <2>8
        <4>2. data - start >= 1 /\ data - start <= capacity - start /\ start <= capacity
          BY <1>1, <2>1, <2>2, <4>1
        <4>3. data - start <= ZoneSize
          BY <1>1, <2>1, <2>2, <4>1
        <4>4. Length(5) = Least(ZoneSize, capacity - start)
          BY <1>1, <2>2, <2>4, <4>2 DEF Least
        <4> QED
          BY <1>1, <2>2, <4>2, <4>3, <4>4 DEF Least
      <3> QED
        BY <1>1, <2>2, <2>6, <3>1
    <2> QED
      BY <1>3, <2>7, <2>8 DEF first
  <1> QED
    BY <1>2, <1>3

(* A drive that is reported as zeroed has no data where it was to be read, for
   every size of the drive, its blocks and its zones, and whichever of dd, the
   reader and the watcher goes first: no process that was killed or failed, and
   no zone that was given up, counts as read. *)
THEOREM ZeroedWasRead == ZoneSpec => []ZeroedIsRead
  <1>1. ZoneInv => ZeroedIsRead
    <2> SUFFICES ASSUME ZoneInv, outcome = "zeroed"
                 PROVE  /\ data \notin 1..ZoneSize /\ (capacity <= Small => data = 0)
                        /\ data \notin (Minus(capacity, ZoneSize) + 1)..Minus(capacity, Block - 1)
      BY DEF ZeroedIsRead
    <2>1. \A z \in 1..Len(ZoneStarts) : Clean(z, Length(z))
      BY AtLeastOneZone DEF ZoneInv, Behind, Concluded
    <2> QED
      BY <2>1, ZonesCover DEF ZoneInv
  <1> QED
    BY <1>1, InitZone, ZoneInvariant, PTL DEF ZoneSpec

EveryZoneClean == outcome = "zeroed" => \A z \in 1..Len(ZoneStarts) : Clean(z, Length(z))

(* The same of the zones in between: none that the check was to read holds the
   data when it reports a drive as zeroed. *)
THEOREM EveryZoneWasRead == ZoneSpec => []EveryZoneClean
  <1>1. ZoneInv => EveryZoneClean
    BY AtLeastOneZone DEF EveryZoneClean, ZoneInv, Behind, Concluded
  <1> QED
    BY <1>1, InitZone, ZoneInvariant, PTL DEF ZoneSpec
=============================================================================
