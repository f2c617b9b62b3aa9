----------------------------- MODULE DriveCache -----------------------------
(***************************************************************************)
(* The cache of drive data: discoveries that list the bays, collect what   *)
(* the cache misses and hand drives with an identity only to the pool of   *)
(* the extended SMART data; hot plug, wipes, refreshes and policy changes  *)
(* that invalidate it.                                                     *)
(*                                                                         *)
(* A device is its bay, numbered in bay order.  A payload is reduced to    *)
(* the drive it was read from, how often that drive had been wiped,        *)
(* whether it counts as full (smart_polling is off), and what it says of   *)
(* the marker that a verified wipe leaves on the drive.  A smartctl that   *)
(* fails is no error: the payload then names no drive.  Each bay's place   *)
(* in the enclosure, its controller, the disk of the operating system, the *)
(* second path of a drive with two ports and the bound on the workers of a *)
(* pool are left out.                                                      *)
(***************************************************************************)
EXTENDS Naturals, Sequences, SequencesExt

CONSTANTS
    Devices,    \* device nodes, in bay order
    Drives,     \* physical drives
    Clients,    \* threads that run discoveries
    TTL,        \* DRIVE_DATA_CACHE_TTL, in ticks
    MaxEvents   \* bound: drives plugged or unplugged, erase jobs, failed
                \* collections, refreshes, policy changes and signals

ASSUME DriveCacheAssumption ==
    /\ Devices \subseteq Nat
    /\ TTL \in Nat \ {0} /\ MaxEvents \in Nat

None == "none"
ASSUME NoneIsNoDrive == None \notin Drives

VARIABLES
    occupant, \* the drive a device answers for
    wiped,    \* how often a drive was wiped
    marker,   \* that of a device's drive: none, or is it clean or written since
    events,   \* udev: devices whose add or remove is still to be handled
    cache,    \* _DRIVE_DATA_CACHE: [data, age], or NoEntry
    pending,  \* _EXTENDED_SMART_PENDING
    pool,     \* _EXTENDED_SMART_EXECUTOR, named by the events left when made
    down,     \* _shutdown_event
    tasks,    \* tasks given to a pool: [device, at, data]
    disc,     \* discoveries: [at, down, running, todo, bays, sub, pool]
    wipe,     \* the erase job of a device
    left      \* how many of the bounded events are left

vars == <<occupant, wiped, marker, events, cache, pending, pool, down, tasks, disc, wipe, left>>

drives == <<occupant, wiped, marker, events>>

(* Writes that a drive does not count leave its marker clean. *)
Markers(p) == IF p = None THEN {"none"} ELSE {"none", "clean", "written"}

NoData == [drive |-> None, wiped |-> 0, full |-> FALSE, marker |-> "none"]
NoPool == MaxEvents + 1
NoEntry == [data |-> NoData, age |-> TTL]
(* A marker is compared with the drive's counter of writes.  Without one,  *)
(* as when only the identity is collected, it is taken for pristine.       *)
Tolerated(m, full) == full => m # "written"

MarkerStatus(m, full) ==
    CASE m = "none" -> "none" [] ~Tolerated(m, full) -> "written_since_wipe" [] OTHER -> "pristine"

Payload(d, full) ==
    [drive |-> occupant[d], full |-> full, marker |-> MarkerStatus(marker[d], full),
     wiped |-> IF occupant[d] = None THEN 0 ELSE wiped[occupant[d]]]

(* What a smartctl that fails leaves of it: the empty template, which says *)
(* that it is full when it stands for the SMART data, and the marker,      *)
(* which is read from the disk and has no counter to be compared with.     *)
Hollow(d, full) == [NoData EXCEPT !.full = full, !.marker = MarkerStatus(marker[d], FALSE)]

Bay(as, data) == [as |-> as, data |-> data]
Absent == Bay("absent", NoData)
Idle == [at |-> "idle", down |-> FALSE, running |-> {}, todo |-> {}, sub |-> 0, pool |-> NoPool,
         bays |-> [d \in Devices |-> Absent]]

Init ==
    /\ occupant \in {o \in [Devices -> Drives \cup {None}] :
                     \A d, e \in Devices : o[d] = o[e] => d = e \/ o[d] = None}
    /\ wiped = [p \in Drives |-> 0] /\ events = {}
    /\ marker \in {m \in [Devices -> {"none", "clean", "written"}] :
                     \A d \in Devices : m[d] \in Markers(occupant[d])}
    /\ cache = [d \in Devices |-> NoEntry]
    /\ pending = {} /\ pool = NoPool /\ down = FALSE /\ tasks = <<>>
    /\ disc = [c \in Clients |-> Idle]
    /\ wipe = [d \in Devices |-> None]
    /\ left = MaxEvents

Event == left > 0 /\ left' = left - 1

-----------------------------------------------------------------------------
(* The cache *)

Live(entry) == entry.age < TTL

(* _store_drive_payload *)
Store(d, data) == cache' = [cache EXCEPT ![d] = [data |-> data, age |-> 0]]

(* _touch_cached_drive_payload *)
Touch(d) == cache' = IF Live(cache[d]) THEN [cache EXCEPT ![d].age = 0] ELSE cache

(* Mutant: reading an entry refreshes it, as touching does *)
GetRefreshes(d) == Touch(d)

(* _get_cached_drive_payload: a live entry is read as it is *)
Get(d) == UNCHANGED cache

(* invalidate_drive_cache: the entries, then the pending keys *)
Invalidate(ds) ==
    /\ cache' = [d \in Devices |-> IF d \in ds THEN NoEntry ELSE cache[d]]
    /\ pending' = pending \ ds

-----------------------------------------------------------------------------
(* A discovery *)

With(c, as, d) == [disc EXCEPT ![c].bays[d] = as, ![c].todo = @ \ {d}]

(* running_devices is taken from ERASE_JOBS before the discovery. *)
Running == {d \in Devices : wipe[d] \in {"running", "erased"}}

Begin(c) ==
    /\ disc[c].at = "idle"
    /\ disc' = [disc EXCEPT ![c] =
                   [Idle EXCEPT !.at = "look", !.down = down, !.todo = Devices, !.running = Running]]
    /\ UNCHANGED <<drives, cache, pending, pool, down, tasks, wipe, left>>

(* _check_discovery_interrupted: a signal came since the discovery began. *)
Interrupted(c) == disc[c].down # down

(* What becomes of a bay.  The loop over the slots of the enclosures and   *)
(* the one over the bays of the older bay map do the same.                 *)
Turn(c, d) ==
    \/ /\ occupant[d] = None
       /\ disc' = With(c, Absent, d) /\ UNCHANGED cache
    \/ /\ occupant[d] # None /\ d \in disc[c].running
       /\ disc' = With(c, Bay("running", NoData), d) /\ Touch(d)
    \/ /\ occupant[d] # None /\ d \notin disc[c].running /\ Live(cache[d])
       /\ disc' = With(c, Bay("shown", cache[d].data), d) /\ Get(d)
    \/ /\ occupant[d] # None /\ d \notin disc[c].running /\ ~Live(cache[d])
       /\ disc' = With(c, Bay("wanted", NoData), d) /\ UNCHANGED cache

LookUp(c) ==
    /\ disc[c].at = "look" /\ ~Interrupted(c)
    /\ \E d \in disc[c].todo :
        /\ \A e \in disc[c].todo : d <= e
        /\ Turn(c, d)
    /\ UNCHANGED <<drives, pending, pool, down, tasks, wipe, left>>

(* An interrupted discovery returns no drives. *)
GiveUp(c) ==
    /\ disc[c].at = "look" /\ Interrupted(c)
    /\ disc[c].todo # {} \/ \E d \in Devices : disc[c].bays[d].as = "wanted"
    /\ disc' = [disc EXCEPT ![c] = Idle]
    /\ UNCHANGED <<drives, cache, pending, pool, down, tasks, wipe, left>>

(* The loop's end: what is wanted is collected in parallel. *)
EndLoop(c) ==
    /\ disc[c].at = "look" /\ disc[c].todo = {}
    /\ (\E d \in Devices : disc[c].bays[d].as = "wanted") => ~Interrupted(c)
    /\ disc' = [disc EXCEPT ![c].at = "collect", ![c].down = FALSE, ![c].running = {}]
    /\ UNCHANGED <<drives, cache, pending, pool, down, tasks, wipe, left>>

(* _collect_drive_data with use_identity_only, in a worker thread *)
Read(c, d) ==
    /\ disc[c].at = "collect" /\ disc[c].bays[d].as = "wanted"
    /\ disc' = [disc EXCEPT ![c].bays[d] = Bay("read", Payload(d, FALSE))]
    /\ UNCHANGED <<drives, cache, pending, pool, down, tasks, wipe, left>>

ReadBlind(c, d) ==
    /\ disc[c].at = "collect" /\ disc[c].bays[d].as = "wanted"
    /\ Event
    /\ disc' = [disc EXCEPT ![c].bays[d] = Bay("read", Hollow(d, FALSE))]
    /\ UNCHANGED <<drives, cache, pending, pool, down, tasks, wipe>>

(* The future's result is stored and applied by the discovery's thread. *)
Collected(c, d) ==
    /\ disc[c].at = "collect" /\ disc[c].bays[d].as = "read"
    /\ disc' = [disc EXCEPT ![c].bays[d].as = "shown"]
    /\ Store(d, disc[c].bays[d].data)
    /\ UNCHANGED <<drives, pending, pool, down, tasks, wipe, left>>

(* The collection raises or exceeds its deadline: nothing is stored. *)
CollectFails(c, d) ==
    /\ disc[c].at = "collect" /\ disc[c].bays[d].as \in {"wanted", "read"}
    /\ Event
    /\ disc' = [disc EXCEPT ![c].bays[d] = Bay("failed", NoData)]
    /\ UNCHANGED <<drives, cache, pending, pool, down, tasks, wipe>>

(* _finalize_discovery: the bays whose payload is still polling *)
Polling(bays) == {d \in Devices : bays[d].as = "shown" /\ ~bays[d].data.full}

EndCollect(c) ==
    /\ disc[c].at = "collect"
    /\ \A d \in Devices : disc[c].bays[d].as \notin {"wanted", "read"}
    /\ disc' = [disc EXCEPT ![c].at = "submit", ![c].todo = Polling(disc[c].bays)]
    /\ UNCHANGED <<drives, cache, pending, pool, down, tasks, wipe, left>>

-----------------------------------------------------------------------------
(* Handing a drive to the pool: _submit_drive_for_extended_smart *)

Enqueue(c) ==
    /\ disc[c].at = "submit"
    /\ \E d \in disc[c].todo :
        /\ \A e \in disc[c].todo : d <= e
        /\ \/ /\ down \/ d \in pending
              /\ disc' = [disc EXCEPT ![c].todo = @ \ {d}] /\ UNCHANGED pending
           \/ /\ ~down /\ d \notin pending
              /\ disc' = [disc EXCEPT ![c].todo = @ \ {d}, ![c].at = "pool", ![c].sub = d]
              /\ pending' = pending \cup {d}
    /\ UNCHANGED <<drives, cache, pool, down, tasks, wipe, left>>

(* _get_extended_smart_executor makes a pool when there is none, and none  *)
(* once the shutdown began.                                                *)
GetPool(c) ==
    /\ disc[c].at = "pool"
    /\ \/ /\ pool = NoPool /\ down
          /\ disc' = [disc EXCEPT ![c].at = "submit"]
          /\ pending' = pending \ {disc[c].sub} /\ UNCHANGED pool
       \/ /\ pool # NoPool \/ ~down
          /\ pool' = IF pool # NoPool THEN pool ELSE left
          /\ disc' = [disc EXCEPT ![c].at = "hand", ![c].pool = pool'] /\ UNCHANGED pending
    /\ UNCHANGED <<drives, cache, down, tasks, wipe, left>>

(* submit: a pool that was shut down in between raises RuntimeError. *)
HandOver(c) ==
    /\ disc[c].at = "hand" /\ disc[c].pool = pool
    /\ tasks' = Append(tasks, [device |-> disc[c].sub, at |-> "queued", data |-> NoData])
    /\ disc' = [disc EXCEPT ![c].at = "submit", ![c].pool = NoPool, ![c].sub = 0]
    /\ UNCHANGED <<drives, cache, pending, pool, down, wipe, left>>

(* Mutant: the key stays in the pending set *)
NotDiscarded(d) == UNCHANGED pending

Discarded(d) == pending' = pending \ {d}

HandRefused(c) ==
    /\ disc[c].at = "hand" /\ disc[c].pool # pool
    /\ disc' = [disc EXCEPT ![c].at = "submit", ![c].pool = NoPool, ![c].sub = 0]
    /\ Discarded(disc[c].sub)
    /\ UNCHANGED <<drives, cache, pool, down, tasks, wipe, left>>

AllSubmitted(c) == disc[c].at = "submit" /\ disc[c].todo = {}

-----------------------------------------------------------------------------
(* A task of the pool: _process_single_drive_extended_smart *)

AtTask(i, at) == i \in DOMAIN tasks /\ tasks[i].at = at

(* Mutant: an entry with the identity alone will do *)
RedundantAny(d) == Live(cache[d])

(* The checks before the collection: the entry may be there already. *)
Redundant(d) == Live(cache[d]) /\ cache[d].data.full

Leave(i) ==
    /\ tasks' = RemoveAt(tasks, i)
    /\ Discarded(tasks[i].device)

TaskSkips(i) ==
    /\ AtTask(i, "queued") /\ (down \/ Redundant(tasks[i].device))
    /\ Leave(i)
    /\ UNCHANGED <<drives, cache, pool, down, disc, wipe, left>>

TaskReads(i) ==
    /\ AtTask(i, "queued") /\ ~down /\ ~Redundant(tasks[i].device)
    /\ tasks' = [tasks EXCEPT ![i].at = "store", ![i].data = Payload(tasks[i].device, TRUE)]
    /\ UNCHANGED <<drives, cache, pending, pool, down, disc, wipe, left>>

TaskReadsBlind(i) ==
    /\ AtTask(i, "queued") /\ ~down /\ ~Redundant(tasks[i].device)
    /\ Event
    /\ tasks' = [tasks EXCEPT ![i].at = "store", ![i].data = Hollow(tasks[i].device, TRUE)]
    /\ UNCHANGED <<drives, cache, pending, pool, down, disc, wipe>>

TaskStores(i) ==
    /\ AtTask(i, "store")
    /\ Store(tasks[i].device, tasks[i].data)
    /\ tasks' = [tasks EXCEPT ![i].at = "leave", ![i].data = NoData]
    /\ UNCHANGED <<drives, pending, pool, down, disc, wipe, left>>

(* The finally branch. *)
TaskLeaves(i) ==
    /\ AtTask(i, "leave") /\ Leave(i)
    /\ UNCHANGED <<drives, cache, pool, down, disc, wipe, left>>

(* Something else than smartctl raises, and nothing is stored. *)
TaskFails(i) ==
    /\ AtTask(i, "store") /\ Event
    /\ tasks' = [tasks EXCEPT ![i].at = "leave", ![i].data = NoData]
    /\ UNCHANGED <<drives, cache, pending, pool, down, disc, wipe>>

TaskStep(i) == TaskSkips(i) \/ TaskReads(i) \/ TaskStores(i) \/ TaskLeaves(i)

-----------------------------------------------------------------------------
(* Erase jobs, as far as they touch the cache *)

(* validate_single_bay lets every drive through that start_erase found. *)
StartWipe(c, d) ==
    /\ AllSubmitted(c) /\ disc[c].bays[d].as # "absent"
    /\ wipe[d] = None /\ Event
    /\ wipe' = [wipe EXCEPT ![d] = "running"]
    /\ disc' = [disc EXCEPT ![c] = Idle]
    /\ UNCHANGED <<drives, cache, pending, pool, down, tasks>>

(* A request that only lists the drives returns them. *)
Listed(c) ==
    /\ AllSubmitted(c)
    /\ disc' = [disc EXCEPT ![c] = Idle]
    /\ UNCHANGED <<drives, cache, pending, pool, down, tasks, wipe, left>>

(* The marker is in the first sectors: a wipe takes it. *)
Erase(d) ==
    /\ wipe[d] = "running"
    /\ wiped' = [p \in Drives |-> IF p = occupant[d] THEN wiped[p] + 1 ELSE wiped[p]]
    /\ marker' = [marker EXCEPT ![d] = "none"]
    /\ wipe' = [wipe EXCEPT ![d] = "erased"]
    /\ UNCHANGED <<occupant, events, cache, pending, pool, down, tasks, disc, left>>

(* write_marker_and_verify: it fails, or is not asked for unless the wipe  *)
(* is verified; and the counter, read before the marker is written, may    *)
(* move by more than the tolerance until the marker is read back.          *)
Mark(d) == \E m \in Markers(occupant[d]) : marker' = [marker EXCEPT ![d] = m]

Conclude(d) ==
    /\ wipe[d] = "erased" /\ Mark(d)
    /\ wipe' = [wipe EXCEPT ![d] = "concluded"]
    /\ UNCHANGED <<occupant, wiped, events, cache, pending, pool, down, tasks, disc, left>>

(* _finalize_job and _fail_job_init drop the device's entry last. *)
DropAfterWipe(d) ==
    /\ wipe[d] = "concluded"
    /\ Invalidate({d})
    /\ wipe' = [wipe EXCEPT ![d] = None]
    /\ UNCHANGED <<drives, pool, down, tasks, disc, left>>

-----------------------------------------------------------------------------
(* Hot plug, refreshes, policy changes, shutdown, time *)

Change(d) ==
    /\ Event
    /\ events' = events \cup {d}

Unplug(d) ==
    /\ occupant[d] # None /\ Change(d)
    /\ occupant' = [occupant EXCEPT ![d] = None]
    /\ marker' = [marker EXCEPT ![d] = "none"]
    /\ UNCHANGED <<wiped, cache, pending, pool, down, tasks, disc, wipe>>

(* The drive may have been written to, or wiped and marked, elsewhere. *)
Plug(p, d) ==
    /\ occupant[d] = None /\ p \notin {occupant[e] : e \in Devices} /\ Change(d)
    /\ occupant' = [occupant EXCEPT ![d] = p]
    /\ \E m \in Markers(p) : marker' = [marker EXCEPT ![d] = m]
    /\ UNCHANGED <<wiped, cache, pending, pool, down, tasks, disc, wipe>>

(* udev_event_listener_thread drops the entry, or ignores the event: of a  *)
(* bay it cannot match, or when the bay map cannot be read.                *)
HotPlug(d) ==
    /\ d \in events
    /\ events' = events \ {d}
    /\ Invalidate({d}) \/ UNCHANGED <<cache, pending>>
    /\ UNCHANGED <<occupant, wiped, marker, pool, down, tasks, disc, wipe, left>>

(* force_refresh, and a change of the passphrase *)
Refresh ==
    /\ Event /\ Invalidate(Devices)
    /\ UNCHANGED <<drives, pool, down, tasks, disc, wipe>>

(* stop_extended_smart_pool(wait=False): tasks in its queue still run. *)
StopPool ==
    /\ Event /\ pool' = NoPool /\ pending' = {}
    /\ UNCHANGED <<drives, cache, down, tasks, disc, wipe>>

(* _handle_discovery_signal, then stop_extended_smart_pool *)
Signal ==
    /\ Event /\ ~down /\ down' = TRUE
    /\ UNCHANGED <<drives, cache, pending, pool, tasks, disc, wipe>>

(* An entry that expires is never read again: it is as good as gone. *)
Older(entry) == IF entry.age + 1 < TTL THEN [entry EXCEPT !.age = @ + 1] ELSE NoEntry

Tick ==
    /\ \E d \in Devices : Live(cache[d])
    /\ cache' = [d \in Devices |-> Older(cache[d])]
    /\ UNCHANGED <<drives, pending, pool, down, tasks, disc, wipe, left>>

-----------------------------------------------------------------------------
DiscStep(c) ==
    \/ Begin(c) \/ LookUp(c) \/ EndLoop(c) \/ EndCollect(c)
    \/ \E d \in Devices : Read(c, d) \/ Collected(c, d)
    \/ Enqueue(c) \/ GetPool(c) \/ HandOver(c) \/ HandRefused(c)
    \/ GiveUp(c) \/ Listed(c)

WipeStep(d) == Erase(d) \/ Conclude(d) \/ DropAfterWipe(d)

Next ==
    \/ \E c \in Clients :
        DiscStep(c) \/ \E d \in Devices : ReadBlind(c, d) \/ CollectFails(c, d) \/ StartWipe(c, d)
    \/ \E i \in DOMAIN tasks : TaskStep(i) \/ TaskReadsBlind(i) \/ TaskFails(i)
    \/ \E d \in Devices : WipeStep(d) \/ HotPlug(d) \/ Unplug(d) \/ \E p \in Drives : Plug(p, d)
    \/ Refresh \/ StopPool \/ Signal \/ Tick

(* Threads are scheduled; of udev's listener, which may have ended, nothing *)
(* is assumed.                                                             *)
Fairness ==
    /\ \A c \in Clients : WF_vars(DiscStep(c))
    /\ WF_vars(TaskStep(1))
    /\ \A d \in Devices : WF_vars(WipeStep(d))
    /\ WF_vars(Tick)

Spec == Init /\ [][Next]_vars /\ Fairness

-----------------------------------------------------------------------------
(* A key in the pending set is on its way to a task or has one: the set    *)
(* keeps a drive out of the pool only while somebody will take the key out *)
(* again, whatever pool is stopped and whichever key is invalidated while  *)
(* the drive is handed over.                                               *)
PendingOwned ==
    \A d \in pending :
        \/ \E i \in DOMAIN tasks : tasks[i].device = d
        \/ \E c \in Clients : disc[c].at \in {"pool", "hand"} /\ disc[c].sub = d

Fresh(d) == cache[d].data = Payload(d, cache[d].data.full)

(* Once drives are no longer plugged, unplugged or wiped and smartctl no    *)
(* longer fails, the cache comes to hold nothing but what the drives are:  *)
(* data that a collection stored after the invalidation, of a drive whose  *)
(* removal was ignored, or without anything in it, expires, although       *)
(* clients keep reading it and wipes keep touching their devices' entries. *)
CacheConverges == <>[](\A d \in Devices : Live(cache[d]) => Fresh(d))

(* While clients list the drives, the SMART data of a drive that stays in  *)
(* its bay reaches the cache again and again once smartctl answers: an     *)
(* empty payload that passes for full keeps it out for its lifetime only,  *)
(* and so does what was dropped, refused or stored late before.  With the  *)
(* data comes the verdict on the marker, so that a drive which was written *)
(* to since its wipe, and counts that, is not shown as pristine for good.  *)
SmartArrives ==
    \A d \in Devices :
        []<>(down \/ occupant[d] = None
             \/ (Live(cache[d]) /\ cache[d].data = Payload(d, TRUE)))
=============================================================================
