------------------------------ MODULE ZoneRead ------------------------------
(***************************************************************************)
(* The zero check before a wipe: zones of the drive are read by a dd       *)
(* process, its output is looked at by the checking thread, and a watcher  *)
(* thread kills the process when the check is cancelled or a zone takes    *)
(* too long.                                                               *)
(*                                                                         *)
(* The drive is a row of sectors, one of which may hold data.  The         *)
(* capacity query and its retries are those of Sanitization.               *)
(***************************************************************************)
EXTENDS Naturals, Sequences

CONSTANTS
    Capacities, \* sectors a drive may have
    Block,      \* zero_check_block_size_mb, in sectors
    Total,      \* zero_check_total_bytes_gb
    ZoneCount,  \* zero_check_zone_count
    Small       \* zero_check_small_drive_threshold_gb

ASSUME ZoneReadAssumption ==
    /\ Capacities \subseteq Nat \ {0}
    /\ {Block, ZoneCount} \subseteq Nat \ {0} /\ {Total, Small} \subseteq Nat

VARIABLES
    capacity, data, \* the drive: its sectors, and the one with data, or 0
    zone,           \* the zone that is read
    got,            \* sectors of the zone the thread has looked at
    proc,           \* dd: [at, out], out the sectors it has written
    thread,         \* the checking thread
    watcher,        \* the watcher of this zone
    reason,         \* kill_reason
    cancel,         \* cancel_event
    late,           \* the zone's deadline has passed
    outcome         \* what check_drive_already_zeroed returns

zvars == <<capacity, data, zone, got, proc, thread, watcher, reason, cancel, late, outcome>>

NoReason == "none"
NoProc == [at |-> "none", out |-> 0]

-----------------------------------------------------------------------------
(* Which sectors are read *)

Aligned(n) == (n \div Block) * Block
Least(a, b) == IF a < b THEN a ELSE b
Minus(a, b) == IF a < b THEN 0 ELSE a - b

ZoneSize == IF Aligned(Total \div ZoneCount) = 0 THEN Block ELSE Aligned(Total \div ZoneCount)

(* The middle of a zone lies at a quarter, a half, three quarters. *)
Around(n) == Aligned(Minus(n, ZoneSize \div 2))

Starts ==
    <<0, Around(capacity \div 4), Around(capacity \div 2), Around((3 * capacity) \div 4),
      Aligned(Minus(capacity, ZoneSize))>>

ZoneStarts == IF capacity <= Small THEN <<0>> ELSE Starts

(* A zone is cut off at the end of the drive; none lies behind it. *)
Length(z) ==
    LET size == IF capacity <= Small THEN capacity ELSE ZoneSize
    IN  Least(size, capacity - Least(ZoneStarts[z], capacity))

(* Sector s of the drive, from 1 on, is sector i of zone z. *)
Holds(z, i) == data = ZoneStarts[z] + i

ZoneInit ==
    /\ capacity \in Capacities /\ data \in 0..capacity
    /\ zone = 1 /\ got = 0 /\ proc = NoProc
    /\ thread = "start" /\ watcher = "none" /\ reason = NoReason
    /\ cancel = FALSE /\ late = FALSE /\ outcome = NoReason

-----------------------------------------------------------------------------
(* The checking thread *)

Return(result) ==
    /\ outcome' = result /\ thread' = "end"
    /\ UNCHANGED <<capacity, data, zone, got, proc, watcher, reason, cancel, late>>

AllZonesRead == thread = "start" /\ zone > Len(ZoneStarts) /\ Return("zeroed")

CancelledBetween ==
    thread = "start" /\ zone <= Len(ZoneStarts) /\ cancel /\ Return("cancelled")

(* Popen, and a watcher for the process; each zone has its own deadline. *)
StartZone ==
    /\ thread = "start" /\ zone <= Len(ZoneStarts) /\ ~cancel
    /\ proc' = [at |-> "running", out |-> 0] /\ got' = 0
    /\ thread' = "read" /\ watcher' = "poll" /\ reason' = NoReason /\ late' = FALSE
    /\ UNCHANGED <<capacity, data, zone, cancel, outcome>>

(* stdout.read returns a block, or what is left when dd has ended. *)
NextBlock ==
    IF proc.at = "running" THEN Block ELSE Least(Block, proc.out - got)

ReadBlock ==
    /\ thread = "read" /\ proc.out > got /\ got + NextBlock <= proc.out
    /\ got' = got + NextBlock
    /\ thread' = IF \E i \in (got + 1)..(got + NextBlock) : Holds(zone, i) THEN "found" ELSE "read"
    /\ UNCHANGED <<capacity, data, zone, proc, watcher, reason, cancel, late, outcome>>

(* proc.kill(), whatever it raises swallowed.  The child is a sudo, which  *)
(* the user of the service may not be allowed to signal: dd then runs on.  *)
TryKill ==
    \/ UNCHANGED proc
    \/ proc.at = "running" /\ proc' = [proc EXCEPT !.at = "killed"]

(* The first reason stands, as far as this thread is concerned. *)
Found ==
    /\ thread = "found"
    /\ reason' = IF reason = NoReason THEN "nonzero" ELSE reason
    /\ TryKill
    /\ thread' = "join"
    /\ UNCHANGED <<capacity, data, zone, got, watcher, cancel, late, outcome>>

EndOfOutput ==
    /\ thread = "read" /\ proc.at # "running" /\ proc.out = got
    /\ thread' = "join"
    /\ UNCHANGED <<capacity, data, zone, got, proc, watcher, reason, cancel, late, outcome>>

(* The join of the watcher waits two seconds: it may give up. *)
Join ==
    /\ thread = "join" /\ thread' = "judge"
    /\ UNCHANGED <<capacity, data, zone, got, proc, watcher, reason, cancel, late, outcome>>

(* Mutant: what was read decides, whatever ended the reading. *)
ResultOfData == IF reason = "nonzero" THEN "nonzero" ELSE IF got = 0 THEN "failed" ELSE "clean"

(* What _run_cancellable_zone_read makes of the reason and the process *)
ZoneResult ==
    CASE reason # NoReason -> reason
      [] reason = NoReason /\ (got = 0 \/ proc.at # "exited") -> "failed"
      [] OTHER -> "clean"

JudgedAs(result) == thread = "judge" /\ ZoneResult = result

ZoneClean ==
    /\ JudgedAs("clean")
    /\ zone' = zone + 1 /\ thread' = "start" /\ proc' = NoProc /\ watcher' = "none" /\ got' = 0
    /\ UNCHANGED <<capacity, data, reason, cancel, late, outcome>>

ZoneStops ==
    \/ JudgedAs("nonzero") /\ Return("data_present")
    \/ JudgedAs("cancelled") /\ Return("cancelled")
    \/ JudgedAs("timeout") /\ Return("inconclusive")
    \/ JudgedAs("failed") /\ Return("failed")

-----------------------------------------------------------------------------
(* The watcher *)

WatcherMoves(at) ==
    /\ watcher' = at
    /\ UNCHANGED <<capacity, data, zone, got, thread, cancel, late, outcome>>

Poll ==
    /\ watcher = "poll"
    /\ WatcherMoves(IF proc.at = "running" THEN "look" ELSE "end")
    /\ UNCHANGED <<proc, reason>>

(* Mutant: only a cancelled check ends a read. *)
CancelOnly == IF cancel THEN "cancelled" ELSE NoReason

Cause == IF cancel THEN "cancelled" ELSE IF late THEN "timeout" ELSE NoReason

(* Under the lock, whatever reason there is by then. *)
Look ==
    /\ watcher = "look"
    /\ \/ /\ Cause = NoReason
          /\ WatcherMoves("poll") /\ UNCHANGED <<proc, reason>>
       \/ /\ Cause # NoReason
          /\ reason' = Cause /\ WatcherMoves("kill") /\ UNCHANGED proc

Kill ==
    /\ watcher = "kill"
    /\ TryKill
    /\ WatcherMoves("end") /\ UNCHANGED reason

-----------------------------------------------------------------------------
(* dd and the outside.  A process that makes no progress is not excluded.  *)

ProcMoves(to) ==
    /\ proc' = to
    /\ UNCHANGED <<capacity, data, zone, got, thread, watcher, reason, cancel, late, outcome>>

Write ==
    /\ proc.at = "running" /\ proc.out < Length(zone)
    /\ ProcMoves([proc EXCEPT !.out = Least(@ + Block, Length(zone))])

ExitDone ==
    proc.at = "running" /\ proc.out = Length(zone) /\ ProcMoves([proc EXCEPT !.at = "exited"])

ExitFailed == proc.at = "running" /\ ProcMoves([proc EXCEPT !.at = "failed"])

Cancel ==
    /\ ~cancel /\ outcome = NoReason /\ cancel' = TRUE
    /\ UNCHANGED <<capacity, data, zone, got, proc, thread, watcher, reason, late, outcome>>

Deadline ==
    /\ ~late /\ thread = "read" /\ late' = TRUE
    /\ UNCHANGED <<capacity, data, zone, got, proc, thread, watcher, reason, cancel, outcome>>

ThreadStep ==
    \/ AllZonesRead \/ CancelledBetween \/ StartZone \/ ReadBlock \/ Found
    \/ EndOfOutput \/ Join \/ ZoneClean \/ ZoneStops

ZoneNext ==
    \/ ThreadStep \/ Poll \/ Look \/ Kill
    \/ Write \/ ExitDone \/ ExitFailed \/ Cancel \/ Deadline

ZoneFairness ==
    /\ WF_zvars(ThreadStep) /\ WF_zvars(Poll) /\ WF_zvars(Look) /\ WF_zvars(Kill)
    /\ WF_zvars(Deadline)

ZoneSpec == ZoneInit /\ [][ZoneNext]_zvars /\ ZoneFairness

-----------------------------------------------------------------------------
(* A drive that is reported as zeroed has no data in the first zone, nor   *)
(* in the last one but for the sectors behind the last whole block; a      *)
(* small drive has none at all.  A process that was killed or failed, by   *)
(* whichever thread and in whatever order, never makes a drive zeroed.     *)
ZeroedIsRead ==
    outcome = "zeroed" =>
        /\ data \notin 1..ZoneSize /\ (capacity <= Small => data = 0)
        /\ data \notin (Minus(capacity, ZoneSize) + 1)..Minus(capacity, Block - 1)

(* A check ends, unless dd hangs for ever although the watcher had its     *)
(* reason and tried to kill it: a read of its output has no time limit, so *)
(* only the deadline's kill ends it, and that may be refused.              *)
Unkillable == proc.at = "running" /\ reason # NoReason /\ watcher = "end"

CheckEnds == <>(outcome # NoReason) \/ <>[]Unkillable
=============================================================================
