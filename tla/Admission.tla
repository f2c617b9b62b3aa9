------------------------------ MODULE Admission ------------------------------
(***************************************************************************)
(* How one bay of a start request comes to be wiped: discovery, the        *)
(* validation of the bay, the health gate, the wait for a slot, and the    *)
(* gate's second look in the worker, while the drive decays, technicians   *)
(* exchange it and administrators change the policy.                       *)
(*                                                                         *)
(* EraseJobs takes all this for one step: here it has no slots, rows or    *)
(* cancels.  The other bays of the request are one answer of the gate.     *)
(***************************************************************************)
EXTENDS DriveHealth

CONSTANTS
    Drives,     \* the drives that may be in the bay, as they are at first
    Grid,       \* the values that a counter of a drive goes through
    Policies,   \* what policy.json may hold
    MaxDecays,  \* bound: steps that drives decay
    MaxChanges  \* bound: changes of the policy

\* What a drive counts
Tallies == {"hours", "writes", "wear", "spare", "defects", "pending", "errors", "media",
            "badReads", "badWrites", "badVerifies"}

ASSUME AdmissionAssumption ==
    /\ Drives \subseteq Reports /\ Policies \subseteq Rules
    /\ \A a \in Tallies : Grid[a] \subseteq Nat
    /\ {MaxDecays, MaxChanges} \subseteq Nat

VARIABLES
    place,      \* what the bay is and holds
    smart,      \* the drive's report, as smartctl would print it now
    policy,     \* policy.json
    override,   \* the request's health_gate_override
    named,      \* it names a technician and a ticket
    at,         \* where the request, and then the job, is
    then,       \* the policy that the request loaded
    seen,       \* the bay as discovery found it
    gate,       \* health_gate_result: is the drive blocked?
    read,       \* and the report it was made of
    others,     \* another bay of the request was blocked
    now,        \* the policy that the worker loaded
    trail,      \* what the job records of an override
    blind,      \* lookups of the system drive that failed
    decays, changes

vars == <<place, smart, policy, override, named, at, then, seen, gate, read, others, now,
          trail, blind, decays, changes>>

world == <<place, smart, policy, decays, changes>>
request == <<override, named>>

Places == {"data", "os", "locked", "empty", "secondary"}
Unread == NewDrive("sata", FALSE, NoWear)
Lax == CHOOSE p \in Policies : TRUE

Init ==
    /\ place \in Places /\ smart \in Drives /\ policy \in Policies
    /\ override \in BOOLEAN /\ named \in BOOLEAN
    /\ at = "start" /\ then = Lax /\ seen = "empty" /\ gate = "none" /\ read = Unread
    /\ others = FALSE /\ now = Lax /\ trail = "none" /\ blind = 0 /\ decays = 0 /\ changes = 0

Refuse == at' = "refused" /\ UNCHANGED <<gate, read, others>>

-----------------------------------------------------------------------------
(* start_erase *)

(* The system drive is found by its device; if that fails, and the bay is  *)
(* not configured as its own, it is taken for a drive like any other.      *)
LookUp(p) == {[found |-> p, failures |-> 0]} \cup
             (IF p = "os" THEN {[found |-> "data", failures |-> 1]} ELSE {})

Discover ==
    /\ at = "start" /\ at' = "validate" /\ then' = policy
    /\ \E look \in LookUp(place) :
         seen' = look.found /\ blind' = blind + look.failures
    /\ UNCHANGED <<world, request, gate, read, others, now, trail>>

(* What discovery found is a drive for wiping. *)
Erasable(found) == found = "data"

(* A strict audit wants names; the system drive is looked up again, and    *)
(* the bay may be refused for its method.                                  *)
Valid == Erasable(seen) /\ (then.audit => named)

Validate ==
    /\ at = "validate"
    /\ \/ Refuse /\ UNCHANGED blind
       \/ /\ Valid /\ at' = "gate" /\ UNCHANGED <<gate, read, others>>
          /\ \E look \in LookUp(place) :
               look.found # "os" /\ blind' = blind + look.failures
    /\ UNCHANGED <<world, request, then, seen, now, trail>>

(* Mutant: an override is taken whatever the policy says of it. *)
AcceptsAny(p) == override

(* check_health_gate_sync and _check_health_gate ask the same. *)
Accepts(p) == override /\ Overridable(p)

(* pre_wipe_health_gate reads the drive afresh: a report that cannot be    *)
(* read blocks it.  Any drive of the request that is blocked refuses all.  *)
PreWipeGate ==
    /\ at = "gate"
    /\ \E blocked \in {Blocked(then, smart)} \cup (IF then.enabled THEN {TRUE} ELSE {}),
          other \in BOOLEAN :
         /\ gate' = IF blocked THEN "blocked" ELSE "passed"
         /\ read' = smart /\ others' = other
         /\ at' = IF other \/ (blocked /\ ~Accepts(then)) THEN "refused" ELSE "waiting"
    /\ UNCHANGED <<world, request, then, seen, now, trail, blind>>

(* The request waits for a slot of the wipe semaphore, for as long as the  *)
(* wipes before it take; then the job is made of what it found before.     *)
CreateJob ==
    /\ at = "waiting" /\ at' = "queued"
    /\ UNCHANGED <<world, request, then, seen, gate, read, others, now, trail, blind>>

-----------------------------------------------------------------------------
(* The worker's _check_health_gate: the policy is loaded again, the result *)
(* of the request is kept.                                                 *)
CheckHealthGate ==
    /\ at = "queued" /\ now' = policy
    /\ \/ gate = "passed" /\ at' = "wiping" /\ UNCHANGED trail
       \/ gate = "blocked" /\ Accepts(now') /\ at' = "wiping" /\ trail' = "override"
       \/ gate = "blocked" /\ ~Accepts(now') /\ at' = "failed" /\ trail' = "blocked"
    /\ UNCHANGED <<world, request, then, seen, gate, read, others, blind>>

-----------------------------------------------------------------------------
(* The world moves before the request and while it waits for its slot:     *)
(* between its other steps there is nothing that the steps would notice.   *)

Open == at \in {"start", "waiting"}

Counters(d) ==
    {"hours", "writes", "errors"}
    \cup (CASE d.iface = "sata" -> {"defects", "pending"} [] d.iface = "nvme" -> {"media"}
            [] d.iface = "sas" -> {"defects", "badReads", "badWrites", "badVerifies"})
    \cup (IF d.ssd /\ d.wear # NoWear THEN {"wear"} ELSE {})

Signs(d) ==
    {"failed", "prefail", "offline"}
    \cup (CASE d.iface = "sata" -> {} [] d.iface = "sas" -> {"halted", "sticky"}
            [] d.iface = "nvme" -> {"critical"})

Above(a, v) == {w \in Grid[a] : w > v /\ \A u \in Grid[a] : u > v => w <= u}
Below(a, v) == {w \in Grid[a] : w < v /\ \A u \in Grid[a] : u < v => w >= u}

(* One thing about the drive gets worse. *)
Worse(d) ==
    (UNION {{[d EXCEPT ![a] = w] : w \in Above(a, d[a])} : a \in Counters(d)})
    \cup {[d EXCEPT ![a] = TRUE] : a \in {s \in Signs(d) : ~d[s]}}
    \cup (IF d.ssd THEN {[d EXCEPT !.spare = w] : w \in Below("spare", d.spare)} ELSE {})

Decay ==
    /\ Open /\ decays < MaxDecays /\ decays' = decays + 1
    /\ smart' \in Worse(smart)
    /\ UNCHANGED <<place, policy, request, at, then, seen, gate, read, others, now, trail,
                   blind, changes>>

(* The drive is exchanged: whatever is at the device is wiped. *)
Exchange ==
    /\ at = "waiting" /\ smart' \in Drives \ {smart}
    /\ UNCHANGED <<place, policy, request, at, then, seen, gate, read, others, now, trail,
                   blind, decays, changes>>

ChangePolicy ==
    /\ Open /\ changes < MaxChanges /\ changes' = changes + 1
    /\ policy' \in Policies \ {policy}
    /\ UNCHANGED <<place, smart, request, at, then, seen, gate, read, others, now, trail,
                   blind, decays>>

Next ==
    \/ Discover \/ Validate \/ PreWipeGate \/ CreateJob \/ CheckHealthGate
    \/ Decay \/ Exchange \/ ChangePolicy

Spec == Init /\ [][Next]_vars

-----------------------------------------------------------------------------
(* The gate holds: no drive that it blocked is wiped, unless an override   *)
(* was asked for that the policy allowed both to the request and, hours    *)
(* later, to the worker, and that the job records; and none is wiped of a  *)
(* request of which another drive was blocked.                             *)
GateHolds ==
    at = "wiping" =>
        /\ ~others
        /\ Blocked(then, read) => gate = "blocked"
        /\ gate = "blocked" =>
             override /\ Overridable(then) /\ Overridable(now) /\ trail = "override"

(* Only a bay with a drive for wiping is wiped: the system drive is one    *)
(* only if both looks for it failed, in discovery and in validation.       *)
OnlyData == at = "wiping" => place = "data" \/ (place = "os" /\ blind = 2)

(* A wipe starts only on what was admitted, though the drive decays, the   *)
(* policy changes and the request waits between its checks and the wipe.   *)
WipesOnlyAdmitted == GateHolds /\ OnlyData

(* A drive of which anything got worse is never recommended for better,    *)
(* and never passes a gate that blocked it; but a policy that blocks the   *)
(* drives for scratch and not those for destruction is left out, since     *)
(* under it a drive passes when it gets from the one to the other.         *)
DecayNeverHelps ==
    [][decays' > decays =>
         /\ Rank(smart') <= Rank(smart)
         /\ \A p \in Policies : (p.scratch => p.destroy) /\ Blocked(p, smart) => Blocked(p, smart')]_vars
=============================================================================
