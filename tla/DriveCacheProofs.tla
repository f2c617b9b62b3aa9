-------------------------- MODULE DriveCacheProofs --------------------------
(***************************************************************************)
(* Keys of the pending set have an owner, for all devices, drives and      *)
(* clients and any number of events.  A key enters the set before there is *)
(* a task that takes it out again, and may be dropped by others meanwhile: *)
(* the proof follows it from the discovery that puts it there to the pool. *)
(***************************************************************************)
EXTENDS DriveCache, SequenceTheorems, TLAPS

Occupants == Drives \cup {None}
Marks == {"none", "clean", "written"}

Payloads ==
    [drive: Occupants, full: BOOLEAN, marker: {"none", "pristine", "written_since_wipe"}, wiped: Nat]

Entries == [data: Payloads, age: Nat]
TaskRecords == [device: Devices, at: {"queued", "store", "leave"}, data: Payloads]
Looks == [as: {"absent", "running", "shown", "wanted", "read", "failed"}, data: Payloads]

Discs ==
    [at: {"idle", "look", "collect", "submit", "pool", "hand"}, down: BOOLEAN,
     running: SUBSET Devices, todo: SUBSET Devices, sub: Devices \cup {0}, pool: Nat,
     bays: [Devices -> Looks]]

(* The types of the variables *)
WorldOK ==
    /\ occupant \in [Devices -> Occupants] /\ wiped \in [Drives -> Nat]
    /\ marker \in [Devices -> Marks] /\ events \in SUBSET Devices
    /\ wipe \in [Devices -> {None, "running", "erased", "concluded"}]

CacheOK ==
    /\ cache \in [Devices -> Entries] /\ pending \in SUBSET Devices
    /\ pool \in Nat /\ left \in Nat /\ down \in BOOLEAN

TasksOK == tasks \in Seq(TaskRecords)

DiscOK == disc \in [Clients -> Discs]

(* A discovery that hands a drive over knows which. *)
HandOK == \A c \in Clients : disc[c].at \in {"pool", "hand"} => disc[c].sub \in Devices

CacheInv == WorldOK /\ CacheOK /\ TasksOK /\ DiscOK /\ HandOK /\ PendingOwned

-----------------------------------------------------------------------------
(* Sequences and records *)

LEMMA Removal ==
    ASSUME NEW S, NEW s \in Seq(S), NEW i \in 1..Len(s)
    PROVE  /\ RemoveAt(s, i) \in Seq(S)
           /\ Len(RemoveAt(s, i)) = Len(s) - 1
           /\ \A k \in 1..(i - 1) : RemoveAt(s, i)[k] = s[k]
           /\ \A k \in (i + 1)..Len(s) : RemoveAt(s, i)[k - 1] = s[k]
  <1> DEFINE front == SubSeq(s, 1, i - 1)
             back == SubSeq(s, i + 1, Len(s))
  <1>1. front \in Seq(S) /\ Len(front) = i - 1 /\ \A k \in 1..(i - 1) : front[k] = s[k]
    OBVIOUS
  <1>2. back \in Seq(S) /\ Len(back) = Len(s) - i
        /\ \A k \in 1..(Len(s) - i) : back[k] = s[i + k]
    OBVIOUS
  <1>3. RemoveAt(s, i) = front \o back
    BY DEF RemoveAt
  <1> HIDE DEF front, back
  <1>4. /\ front \o back \in Seq(S) /\ Len(front \o back) = Len(s) - 1
        /\ \A k \in 1..(Len(s) - 1) : (front \o back)[k] =
              IF k <= Len(front) THEN front[k] ELSE back[k - Len(front)]
    <2>1. Len(front) + Len(back) = Len(s) - 1
      BY <1>1, <1>2
    <2> QED
      BY <1>1, <1>2, <2>1
  <1>5. ASSUME NEW k \in (i + 1)..Len(s) PROVE (front \o back)[k - 1] = s[k]
    <2>1. /\ k - 1 \in 1..(Len(s) - 1) /\ ~(k - 1 <= Len(front))
          /\ (k - 1) - Len(front) = k - i
      BY <1>1
    <2>2. k - i \in 1..(Len(s) - i) /\ i + (k - i) = k
      OBVIOUS
    <2> QED
      BY <1>2, <1>4, <2>1, <2>2
  <1>6. ASSUME NEW k \in 1..(i - 1) PROVE (front \o back)[k] = s[k]
    BY <1>1, <1>4
  <1> QED
    BY <1>3, <1>4, <1>5, <1>6

LEMMA Constants ==
    /\ NoData \in Payloads /\ NoEntry \in Entries /\ Absent \in Looks
    /\ NoPool \in Nat /\ Idle \in Discs /\ Idle.at = "idle"
  <1>1. NoData \in Payloads
    BY DEF NoData, Payloads, Occupants
  <1>2. NoEntry \in Entries /\ Absent \in Looks /\ NoPool \in Nat
    BY <1>1, DriveCacheAssumption DEF NoEntry, Entries, Absent, Bay, Looks, NoPool
  <1>3. Idle \in Discs /\ Idle.at = "idle"
    BY <1>2 DEF Idle, Discs
  <1> QED
    BY <1>1, <1>2, <1>3

LEMMA PayloadTyped ==
    ASSUME WorldOK, NEW d \in Devices, NEW full \in BOOLEAN
    PROVE  Payload(d, full) \in Payloads
  <1>1. MarkerStatus(marker[d], full) \in {"none", "pristine", "written_since_wipe"}
    BY DEF MarkerStatus
  <1>2. occupant[d] \in Occupants /\ (occupant[d] # None => wiped[occupant[d]] \in Nat)
    BY DEF WorldOK, Occupants
  <1> QED
    BY <1>1, <1>2 DEF Payload, Payloads

LEMMA HollowTyped ==
    ASSUME NEW d \in Devices, NEW full \in BOOLEAN
    PROVE  Hollow(d, full) \in Payloads
  <1>1. MarkerStatus(marker[d], FALSE) \in {"none", "pristine", "written_since_wipe"}
    BY DEF MarkerStatus
  <1> QED
    BY <1>1 DEF Hollow, NoData, Payloads, Occupants

LEMMA BayTyped ==
    ASSUME NEW data \in Payloads,
           NEW as \in {"absent", "running", "shown", "wanted", "read", "failed"}
    PROVE  Bay(as, data) \in Looks
  BY DEF Bay, Looks

LEMMA EntriesTyped ==
    ASSUME CacheOK, NEW d \in Devices, NEW data \in Payloads
    PROVE  /\ Store(d, data) => cache' \in [Devices -> Entries]
           /\ Touch(d) => cache' \in [Devices -> Entries]
  <1>1. Store(d, data) => cache' \in [Devices -> Entries]
    <2>1. [data |-> data, age |-> 0] \in Entries
      BY DEF Entries
    <2> QED
      BY <2>1 DEF Store, CacheOK
  <1>2. Touch(d) => cache' \in [Devices -> Entries]
    <2>1. cache[d] \in Entries
      BY DEF CacheOK
    <2>2. [cache[d] EXCEPT !.age = 0] \in Entries
      BY <2>1 DEF Entries
    <2> QED
      BY <2>2 DEF Touch, CacheOK
  <1> QED
    BY <1>1, <1>2

LEMMA Invalidation ==
    ASSUME CacheOK, NEW ds \in SUBSET Devices, Invalidate(ds)
    PROVE  cache' \in [Devices -> Entries] /\ pending' \in SUBSET pending
  BY Constants DEF Invalidate, CacheOK

LEMMA EventTyped == CacheOK /\ Event => left' \in Nat
  BY DEF CacheOK, Event

-----------------------------------------------------------------------------
(* Owners are kept by every step that keeps the tasks and the discoveries  *)
(* that hand a drive over.                                                 *)
LEMMA OwnersKept ==
    ASSUME PendingOwned, pending' \in SUBSET pending,
           \A i \in DOMAIN tasks : i \in DOMAIN tasks' /\ tasks'[i].device = tasks[i].device,
           \A c \in Clients : disc[c].at \in {"pool", "hand"} =>
                disc'[c].at \in {"pool", "hand"} /\ disc'[c].sub = disc[c].sub
    PROVE  PendingOwned'
  BY DEF PendingOwned

(* A step of a discovery that hands nothing over *)
LEMMA LookingKeeps ==
    ASSUME CacheInv, NEW c \in Clients, disc[c].at \notin {"pool", "hand"},
           NEW r \in Discs, r.at \notin {"pool", "hand"}, disc' = [disc EXCEPT ![c] = r],
           WorldOK', cache' \in [Devices -> Entries], left' \in Nat,
           UNCHANGED <<pending, pool, down, tasks>>
    PROVE  CacheInv'
  <1>1. DiscOK' /\ TasksOK' /\ CacheOK'
    BY DEF CacheInv, DiscOK, TasksOK, CacheOK
  <1>2. \A b \in Clients : b # c => disc'[b] = disc[b]
    BY DEF CacheInv, DiscOK
  <1>3. disc'[c] = r
    BY DEF CacheInv, DiscOK
  <1>4. PendingOwned'
    BY <1>2, OwnersKept DEF CacheInv
  <1>5. HandOK'
    BY <1>2, <1>3 DEF CacheInv, HandOK
  <1> QED
    BY <1>1, <1>4, <1>5 DEF CacheInv

(* What becomes of one bay *)
LEMMA WithTyped ==
    ASSUME DiscOK, NEW c \in Clients, NEW d \in Devices, NEW look \in Looks
    PROVE  \E r \in Discs : r.at = disc[c].at /\ With(c, look, d) = [disc EXCEPT ![c] = r]
  <1> DEFINE r == [disc[c] EXCEPT !.bays = [@ EXCEPT ![d] = look], !.todo = @ \ {d}]
  <1>1. disc[c] \in Discs
    BY DEF DiscOK
  <1>2. r \in Discs /\ r.at = disc[c].at
    <2>1. [disc[c].bays EXCEPT ![d] = look] \in [Devices -> Looks] /\ disc[c].todo \ {d} \in SUBSET Devices
      BY <1>1 DEF Discs
    <2> QED
      BY <1>1, <2>1 DEF Discs
  <1>3. With(c, look, d) = [disc EXCEPT ![c] = r]
    BY <1>1 DEF With, DiscOK, Discs
  <1> QED
    BY <1>2, <1>3

(* A step of the discovery that lists the bays and submits none of them *)
LEMMA ListingKeeps ==
    ASSUME CacheInv, NEW c \in Clients,
           \/ Begin(c) \/ LookUp(c) \/ GiveUp(c) \/ EndLoop(c) \/ EndCollect(c) \/ Listed(c)
           \/ \E d \in Devices :
                \/ Read(c, d) \/ ReadBlind(c, d) \/ Collected(c, d) \/ CollectFails(c, d)
                \/ StartWipe(c, d)
    PROVE  CacheInv'
<1>1. disc[c] \in Discs /\ WorldOK /\ DiscOK /\ CacheOK
  BY DEF CacheInv, DiscOK
<1>2. CASE Begin(c)
  <2> DEFINE r == [Idle EXCEPT !.at = "look", !.down = down, !.todo = Devices, !.running = Running]
  <2>1. r \in Discs /\ r.at = "look"
    BY <1>1, Constants DEF Discs, Running, CacheOK
  <2>2. disc[c].at \notin {"pool", "hand"} /\ r.at \notin {"pool", "hand"}
    BY <1>2, <2>1 DEF Begin
  <2>3. disc' = [disc EXCEPT ![c] = r]
    BY <1>2 DEF Begin
  <2> HIDE DEF r
  <2>4. WorldOK' /\ cache' \in [Devices -> Entries] /\ left' \in Nat
        /\ UNCHANGED <<pending, pool, down, tasks>>
    BY <1>1, <1>2 DEF Begin, drives, WorldOK, CacheOK
  <2> QED
    BY <2>1, <2>2, <2>3, <2>4, LookingKeeps
<1>3. CASE LookUp(c)
  <2>1. PICK d \in Devices : Turn(c, d)
    BY <1>1, <1>3 DEF LookUp, Discs
  <2>2. PICK look \in Looks : disc' = With(c, look, d)
    <3>1. NoData \in Payloads /\ cache[d].data \in Payloads /\ Absent \in Looks
      BY <1>1, Constants DEF CacheOK, Entries
    <3> QED
      BY <2>1, <3>1, BayTyped DEF Turn
  <2>3. PICK r \in Discs : r.at = disc[c].at /\ disc' = [disc EXCEPT ![c] = r]
    BY <1>1, <2>2, WithTyped
  <2>4. cache' \in [Devices -> Entries]
    <3>1. Touch(d) => cache' \in [Devices -> Entries]
      BY <1>1, Constants, EntriesTyped
    <3> QED
      BY <1>1, <2>1, <3>1 DEF Turn, Get, CacheOK
  <2>5. WorldOK' /\ left' \in Nat /\ UNCHANGED <<pending, pool, down, tasks>>
    BY <1>1, <1>3 DEF LookUp, drives, WorldOK, CacheOK
  <2>6. disc[c].at = "look"
    BY <1>3 DEF LookUp
  <2> QED
    BY <2>3, <2>4, <2>5, <2>6, LookingKeeps
<1>4. CASE GiveUp(c) \/ Listed(c) \/ \E d \in Devices : StartWipe(c, d)
  <2>1. disc' = [disc EXCEPT ![c] = Idle] /\ disc[c].at \notin {"pool", "hand"}
    BY <1>4 DEF GiveUp, Listed, StartWipe, AllSubmitted
  <2>2. WorldOK'
    BY <1>1, <1>4 DEF GiveUp, Listed, StartWipe, drives, WorldOK
  <2>3. cache' \in [Devices -> Entries] /\ left' \in Nat
        /\ UNCHANGED <<pending, pool, down, tasks>>
    BY <1>1, <1>4 DEF GiveUp, Listed, StartWipe, Event, CacheOK
  <2>4. Idle \in Discs /\ Idle.at \notin {"pool", "hand"}
    BY Constants
  <2> QED
    BY <2>1, <2>2, <2>3, <2>4, LookingKeeps
<1>5. CASE EndLoop(c) \/ EndCollect(c)
  <2>1. PICK r \in Discs : r.at \in {"collect", "submit"} /\ disc' = [disc EXCEPT ![c] = r]
    <3>1. CASE EndLoop(c)
      <4> DEFINE r == [disc[c] EXCEPT !.at = "collect", !.down = FALSE, !.running = {}]
      <4>1. r \in Discs /\ r.at = "collect"
        BY <1>1 DEF Discs
      <4>2. disc' = [disc EXCEPT ![c] = r]
        BY <1>1, <3>1 DEF EndLoop, DiscOK, Discs
      <4> QED
        BY <4>1, <4>2
    <3>2. CASE EndCollect(c)
      <4> DEFINE r == [disc[c] EXCEPT !.at = "submit", !.todo = Polling(disc[c].bays)]
      <4>1. r \in Discs /\ r.at = "submit"
        BY <1>1 DEF Discs, Polling
      <4>2. disc' = [disc EXCEPT ![c] = r]
        BY <1>1, <3>2 DEF EndCollect, DiscOK, Discs
      <4> QED
        BY <4>1, <4>2
    <3> QED
      BY <1>5, <3>1, <3>2
  <2>2. disc[c].at \notin {"pool", "hand"}
    BY <1>5 DEF EndLoop, EndCollect
  <2>3. WorldOK' /\ cache' \in [Devices -> Entries] /\ left' \in Nat
        /\ UNCHANGED <<pending, pool, down, tasks>>
    BY <1>1, <1>5 DEF EndLoop, EndCollect, drives, WorldOK, CacheOK
  <2> QED
    BY <2>1, <2>2, <2>3, LookingKeeps
<1>6. ASSUME NEW d \in Devices,
             Read(c, d) \/ ReadBlind(c, d) \/ Collected(c, d) \/ CollectFails(c, d)
      PROVE  CacheInv'
  <2>1. disc[c].at = "collect" /\ disc[c].bays[d] \in Looks /\ disc[c].bays[d].data \in Payloads
    BY <1>1, <1>6 DEF Read, ReadBlind, Collected, CollectFails, Discs, Looks
  <2>2. PICK look \in Looks : disc' = [disc EXCEPT ![c].bays[d] = look]
    <3>1. CASE Read(c, d)
      BY <1>1, <3>1, PayloadTyped, BayTyped DEF Read
    <3>2. CASE Collected(c, d)
      <4>1. [disc[c].bays[d] EXCEPT !.as = "shown"] \in Looks
        BY <2>1 DEF Looks
      <4>2. disc' = [disc EXCEPT ![c].bays[d] = [disc[c].bays[d] EXCEPT !.as = "shown"]]
        BY <3>2 DEF Collected
      <4> QED
        BY <4>1, <4>2
    <3>3. CASE CollectFails(c, d)
      BY <3>3, Constants, BayTyped DEF CollectFails
    <3>4. CASE ReadBlind(c, d)
      BY <1>1, <3>4, HollowTyped, BayTyped DEF ReadBlind
    <3> QED
      BY <1>6, <3>1, <3>2, <3>3, <3>4
  <2> DEFINE r == [disc[c] EXCEPT !.bays = [@ EXCEPT ![d] = look]]
  <2>3. r \in Discs /\ r.at = "collect"
    <3>1. [disc[c].bays EXCEPT ![d] = look] \in [Devices -> Looks]
      BY <1>1 DEF Discs
    <3> QED
      BY <1>1, <2>1, <3>1 DEF Discs
  <2>4. disc' = [disc EXCEPT ![c] = r]
    BY <1>1, <2>2 DEF DiscOK, Discs
  <2> HIDE DEF r
  <2>5. cache' \in [Devices -> Entries]
    <3>1. Store(d, disc[c].bays[d].data) => cache' \in [Devices -> Entries]
      BY <1>1, <2>1, EntriesTyped
    <3> QED
      BY <1>1, <1>6, <3>1 DEF Read, ReadBlind, Collected, CollectFails, CacheOK
  <2>6. WorldOK' /\ UNCHANGED <<pending, pool, down, tasks>>
    BY <1>1, <1>6 DEF Read, ReadBlind, Collected, CollectFails, drives, WorldOK
  <2>7. left' \in Nat
    BY <1>1, <1>6, EventTyped DEF Read, ReadBlind, Collected, CollectFails, CacheOK
  <2> QED
    BY <2>1, <2>3, <2>4, <2>5, <2>6, <2>7, LookingKeeps
<1> QED
  BY <1>2, <1>3, <1>4, <1>5, <1>6

-----------------------------------------------------------------------------
(* Handing a drive over *)

(* The steps of a discovery that hands a drive over: its key enters the    *)
(* set with the discovery as its owner, which passes it on to a task or    *)
(* takes it out.                                                           *)
LEMMA HandingKeeps ==
    ASSUME CacheInv, NEW c \in Clients,
           Enqueue(c) \/ GetPool(c) \/ HandOver(c) \/ HandRefused(c)
    PROVE  CacheInv'
<1>1. disc[c] \in Discs /\ WorldOK /\ DiscOK /\ CacheOK /\ TasksOK
  BY DEF CacheInv, DiscOK
<1>2. WorldOK'
  BY <1>1 DEF Enqueue, GetPool, HandOver, HandRefused, drives, WorldOK
<1>3. ASSUME NEW r \in Discs, r.at \in {"pool", "hand"} => r.sub \in Devices,
             disc' = [disc EXCEPT ![c] = r]
      PROVE  DiscOK' /\ HandOK' /\ disc'[c] = r /\ \A b \in Clients : b # c => disc'[b] = disc[b]
  <2>1. disc'[c] = r /\ \A b \in Clients : b # c => disc'[b] = disc[b]
    BY <1>1, <1>3 DEF DiscOK
  <2>2. DiscOK'
    BY <1>1, <1>3 DEF DiscOK
  <2> QED
    BY <1>3, <2>1, <2>2 DEF CacheInv, HandOK
<1>4. CASE Enqueue(c)
  <2>1. PICK d \in Devices :
            \/ disc' = [disc EXCEPT ![c].todo = @ \ {d}] /\ UNCHANGED pending
            \/ /\ disc' = [disc EXCEPT ![c].todo = @ \ {d}, ![c].at = "pool", ![c].sub = d]
               /\ pending' = pending \cup {d}
    BY <1>1, <1>4 DEF Enqueue, Discs
  <2>2. disc[c].at = "submit" /\ CacheOK' /\ TasksOK' /\ UNCHANGED tasks
    BY <1>1, <1>4, <2>1 DEF Enqueue, CacheOK, TasksOK
  <2>3. CASE disc' = [disc EXCEPT ![c].todo = @ \ {d}] /\ UNCHANGED pending
    <3> DEFINE r == [disc[c] EXCEPT !.todo = @ \ {d}]
    <3>1. r \in Discs /\ r.at = "submit"
      BY <1>1, <2>2 DEF Discs
    <3>2. disc' = [disc EXCEPT ![c] = r]
      BY <1>1, <2>3 DEF DiscOK, Discs
    <3> HIDE DEF r
    <3>3. DiscOK' /\ HandOK' /\ \A b \in Clients : b # c => disc'[b] = disc[b]
      BY <1>3, <3>1, <3>2
    <3>4. PendingOwned'
      BY <2>2, <2>3, <3>3, OwnersKept DEF CacheInv
    <3> QED
      BY <1>2, <2>2, <3>3, <3>4 DEF CacheInv
  <2>4. CASE /\ disc' = [disc EXCEPT ![c].todo = @ \ {d}, ![c].at = "pool", ![c].sub = d]
             /\ pending' = pending \cup {d}
    <3> DEFINE r == [disc[c] EXCEPT !.todo = @ \ {d}, !.at = "pool", !.sub = d]
    <3>1. r \in Discs /\ r.at = "pool" /\ r.sub = d
      BY <1>1, <2>2 DEF Discs
    <3>2. disc' = [disc EXCEPT ![c] = r]
      BY <1>1, <2>4 DEF DiscOK, Discs
    <3> HIDE DEF r
    <3>3. DiscOK' /\ HandOK' /\ disc'[c] = r /\ \A b \in Clients : b # c => disc'[b] = disc[b]
      BY <1>3, <3>1, <3>2
    <3>4. PendingOwned'
      <4>1. ASSUME NEW e \in pending', e # d
            PROVE  \/ \E i \in DOMAIN tasks : tasks[i].device = e
                   \/ \E b \in Clients : disc'[b].at \in {"pool", "hand"} /\ disc'[b].sub = e
        <5>1. e \in pending
          BY <2>4, <4>1
        <5>2. disc[c].at \notin {"pool", "hand"}
          BY <2>2
        <5> QED
          BY <3>3, <5>1, <5>2 DEF CacheInv, PendingOwned
      <4> QED
        BY <2>2, <3>1, <3>3, <4>1 DEF PendingOwned
    <3> QED
      BY <1>2, <2>2, <3>3, <3>4 DEF CacheInv
  <2> QED
    BY <2>1, <2>3, <2>4
<1>5. CASE GetPool(c)
  <2>1. disc[c].at = "pool" /\ disc[c].sub \in Devices /\ TasksOK' /\ UNCHANGED tasks
    BY <1>1, <1>5 DEF GetPool, CacheInv, HandOK, TasksOK
  <2>2. CASE disc' = [disc EXCEPT ![c].at = "submit"] /\ pending' = pending \ {disc[c].sub} /\ UNCHANGED pool
    <3> DEFINE r == [disc[c] EXCEPT !.at = "submit"]
    <3>1. r \in Discs /\ r.at = "submit"
      BY <1>1 DEF Discs
    <3>2. disc' = [disc EXCEPT ![c] = r]
      BY <1>1, <2>2 DEF DiscOK, Discs
    <3> HIDE DEF r
    <3>3. DiscOK' /\ HandOK' /\ \A b \in Clients : b # c => disc'[b] = disc[b]
      BY <1>3, <3>1, <3>2
    <3>4. PendingOwned'
      BY <2>1, <2>2, <3>3 DEF CacheInv, PendingOwned
    <3>5. CacheOK'
      BY <1>1, <1>5, <2>2 DEF GetPool, CacheOK
    <3> QED
      BY <1>2, <2>1, <3>3, <3>4, <3>5 DEF CacheInv
  <2>3. CASE /\ pool' = (IF pool # NoPool THEN pool ELSE left)
             /\ disc' = [disc EXCEPT ![c].at = "hand", ![c].pool = pool'] /\ UNCHANGED pending
    <3> DEFINE r == [disc[c] EXCEPT !.at = "hand", !.pool = pool']
    <3>1. pool' \in Nat
      BY <1>1, <2>3 DEF CacheOK
    <3>2. r \in Discs /\ r.at = "hand" /\ r.sub = disc[c].sub
      BY <1>1, <3>1 DEF Discs
    <3>3. disc' = [disc EXCEPT ![c] = r]
      BY <1>1, <2>3 DEF DiscOK, Discs
    <3> HIDE DEF r
    <3>4. DiscOK' /\ HandOK' /\ disc'[c] = r /\ \A b \in Clients : b # c => disc'[b] = disc[b]
      BY <1>3, <2>1, <3>2, <3>3
    <3>5. PendingOwned'
      BY <2>1, <2>3, <3>2, <3>4, OwnersKept DEF CacheInv
    <3>6. CacheOK'
      BY <1>1, <1>5, <2>3, <3>1 DEF GetPool, CacheOK
    <3> QED
      BY <1>2, <2>1, <3>4, <3>5, <3>6 DEF CacheInv
  <2> QED
    BY <1>5, <2>2, <2>3 DEF GetPool
<1>6. CASE HandOver(c) \/ HandRefused(c)
  <2> DEFINE r == [disc[c] EXCEPT !.at = "submit", !.pool = NoPool, !.sub = 0]
  <2>1. disc[c].at = "hand" /\ disc[c].sub \in Devices
    BY <1>6 DEF HandOver, HandRefused, CacheInv, HandOK
  <2>2. r \in Discs /\ r.at = "submit"
    BY <1>1, Constants DEF Discs
  <2>3. disc' = [disc EXCEPT ![c] = r]
    BY <1>1, <1>6 DEF HandOver, HandRefused, DiscOK, Discs
  <2> HIDE DEF r
  <2>4. DiscOK' /\ HandOK' /\ \A b \in Clients : b # c => disc'[b] = disc[b]
    BY <1>3, <2>2, <2>3
  <2>5. CASE HandOver(c)
    <3> DEFINE t == [device |-> disc[c].sub, at |-> "queued", data |-> NoData]
    <3>1. t \in TaskRecords /\ t.device = disc[c].sub
      BY <2>1, Constants DEF TaskRecords
    <3>2. tasks' = Append(tasks, t) /\ UNCHANGED pending /\ CacheOK'
      BY <1>1, <2>5 DEF HandOver, CacheOK
    <3> HIDE DEF t
    <3>3. /\ tasks' \in Seq(TaskRecords) /\ DOMAIN tasks \subseteq DOMAIN tasks'
          /\ \A i \in DOMAIN tasks : tasks'[i] = tasks[i]
          /\ Len(tasks) + 1 \in DOMAIN tasks' /\ tasks'[Len(tasks) + 1] = t
      BY <1>1, <3>1, <3>2 DEF TasksOK
    <3>4. PendingOwned'
      <4>1. ASSUME NEW d \in pending, NEW b \in Clients,
                   disc[b].at \in {"pool", "hand"} /\ disc[b].sub = d
            PROVE  \/ \E i \in DOMAIN tasks' : tasks'[i].device = d
                   \/ disc'[b].at \in {"pool", "hand"} /\ disc'[b].sub = d
        <5>1. CASE b = c
          BY <3>1, <3>3, <4>1, <5>1
        <5>2. CASE b # c
          BY <2>4, <4>1, <5>2
        <5> QED
          BY <5>1, <5>2
      <4>2. ASSUME NEW d \in pending, NEW i \in DOMAIN tasks, tasks[i].device = d
            PROVE  \E k \in DOMAIN tasks' : tasks'[k].device = d
        BY <3>3, <4>2
      <4> QED
        BY <3>2, <4>1, <4>2 DEF CacheInv, PendingOwned
    <3> QED
      BY <1>2, <2>4, <3>2, <3>3, <3>4 DEF CacheInv, TasksOK
  <2>6. CASE HandRefused(c)
    <3>1. pending' = pending \ {disc[c].sub} /\ UNCHANGED tasks
      BY <2>6 DEF HandRefused, Discarded
    <3>2. CacheOK' /\ TasksOK'
      BY <1>1, <2>6, <3>1 DEF HandRefused, CacheOK, TasksOK
    <3>3. PendingOwned'
      BY <2>4, <3>1 DEF CacheInv, PendingOwned
    <3> QED
      BY <1>2, <2>4, <3>2, <3>3 DEF CacheInv
  <2> QED
    BY <1>6, <2>5, <2>6
<1> QED
  BY <1>4, <1>5, <1>6

-----------------------------------------------------------------------------
(* Tasks, wipes and what happens to the enclosure *)

(* A task that leaves takes its key with it: no other key loses its owner. *)
LEMMA TasksKeep ==
    ASSUME CacheInv, NEW i \in DOMAIN tasks, TaskStep(i) \/ TaskReadsBlind(i) \/ TaskFails(i)
    PROVE  CacheInv'
<1>1. /\ tasks[i] \in TaskRecords /\ WorldOK /\ DiscOK /\ CacheOK /\ TasksOK
      /\ i \in 1..Len(tasks) /\ Len(tasks) \in Nat /\ DOMAIN tasks = 1..Len(tasks)
  BY DEF CacheInv, TasksOK
<1>2. WorldOK' /\ DiscOK' /\ HandOK' /\ UNCHANGED disc
  BY <1>1 DEF TaskStep, TaskSkips, TaskReads, TaskReadsBlind, TaskStores, TaskLeaves, TaskFails,
              drives, WorldOK, DiscOK, CacheInv, HandOK
<1>3. tasks[i].device \in Devices /\ tasks[i].data \in Payloads
  BY <1>1 DEF TaskRecords
<1>4. CASE TaskSkips(i) \/ TaskLeaves(i)
  <2>1. tasks' = RemoveAt(tasks, i) /\ pending' = pending \ {tasks[i].device} /\ CacheOK'
    BY <1>1, <1>4 DEF TaskSkips, TaskLeaves, Leave, Discarded, CacheOK
  <2>2. /\ tasks' \in Seq(TaskRecords) /\ Len(tasks') = Len(tasks) - 1
        /\ \A k \in 1..(i - 1) : tasks'[k] = tasks[k]
        /\ \A k \in (i + 1)..Len(tasks) : tasks'[k - 1] = tasks[k]
    BY <1>1, <2>1, Removal DEF TasksOK
  <2>3. ASSUME NEW d \in pending', NEW k \in DOMAIN tasks, tasks[k].device = d
        PROVE  \E n \in DOMAIN tasks' : tasks'[n].device = d
    <3>1. k # i /\ DOMAIN tasks' = 1..(Len(tasks) - 1)
      BY <2>1, <2>2, <2>3
    <3>2. CASE k < i
      <4>1. k \in 1..(i - 1) /\ k \in DOMAIN tasks'
        BY <1>1, <3>1, <3>2
      <4> QED
        BY <2>2, <2>3, <4>1
    <3>3. CASE k > i
      <4>1. k \in (i + 1)..Len(tasks) /\ k - 1 \in DOMAIN tasks'
        BY <1>1, <3>1, <3>3
      <4> QED
        BY <2>2, <2>3, <4>1
    <3> QED
      BY <1>1, <3>1, <3>2, <3>3
  <2>4. PendingOwned'
    BY <1>2, <2>1, <2>3 DEF CacheInv, PendingOwned
  <2> QED
    BY <1>2, <2>1, <2>2, <2>4 DEF CacheInv, TasksOK
<1>5. CASE TaskReads(i) \/ TaskReadsBlind(i) \/ TaskStores(i) \/ TaskFails(i)
  <2>1. PICK t \in TaskRecords : t.device = tasks[i].device /\ tasks' = [tasks EXCEPT ![i] = t]
    <3>1. CASE TaskReads(i) \/ TaskReadsBlind(i)
      <4>1. PICK data \in Payloads :
              tasks' = [tasks EXCEPT ![i].at = "store", ![i].data = data]
        BY <1>1, <1>3, <3>1, PayloadTyped, HollowTyped DEF TaskReads, TaskReadsBlind
      <4> DEFINE t == [tasks[i] EXCEPT !.at = "store", !.data = data]
      <4>2. t \in TaskRecords /\ t.device = tasks[i].device
        BY <1>1 DEF TaskRecords
      <4>3. tasks' = [tasks EXCEPT ![i] = t]
        BY <1>1, <4>1 DEF TasksOK, TaskRecords
      <4> QED
        BY <4>2, <4>3
    <3>2. CASE TaskStores(i) \/ TaskFails(i)
      <4> DEFINE t == [tasks[i] EXCEPT !.at = "leave", !.data = NoData]
      <4>1. t \in TaskRecords /\ t.device = tasks[i].device
        BY <1>1, Constants DEF TaskRecords
      <4>2. tasks' = [tasks EXCEPT ![i] = t]
        BY <1>1, <3>2 DEF TaskStores, TaskFails, TasksOK, TaskRecords
      <4> QED
        BY <4>1, <4>2
    <3> QED
      BY <1>5, <3>1, <3>2
  <2>2. /\ tasks' \in Seq(TaskRecords) /\ DOMAIN tasks' = DOMAIN tasks
        /\ \A k \in DOMAIN tasks : tasks'[k].device = tasks[k].device
    BY <1>1, <2>1 DEF TasksOK
  <2>3. CacheOK' /\ UNCHANGED pending
    <3>1. Store(tasks[i].device, tasks[i].data) => cache' \in [Devices -> Entries]
      BY <1>1, <1>3, EntriesTyped
    <3>2. left' \in Nat
      BY <1>1, <1>5, EventTyped DEF TaskReads, TaskReadsBlind, TaskStores, TaskFails, CacheOK
    <3> QED
      BY <1>1, <1>5, <3>1, <3>2 DEF TaskReads, TaskReadsBlind, TaskStores, TaskFails, CacheOK
  <2>4. PendingOwned'
    BY <1>2, <2>2, <2>3, OwnersKept DEF CacheInv
  <2> QED
    BY <1>2, <2>2, <2>3, <2>4 DEF CacheInv, TasksOK
<1> QED
  BY <1>4, <1>5 DEF TaskStep

(* A step that only invalidates entries, or touches neither the tasks nor  *)
(* the discoveries *)
LEMMA OutsideKeeps ==
    ASSUME CacheInv, WorldOK', CacheOK', pending' \in SUBSET pending, UNCHANGED <<tasks, disc>>
    PROVE  CacheInv'
<1>1. TasksOK' /\ DiscOK' /\ HandOK'
  BY DEF CacheInv, TasksOK, DiscOK, HandOK
<1>2. PendingOwned'
  BY OwnersKept DEF CacheInv
<1> QED
  BY <1>1, <1>2 DEF CacheInv

LEMMA DrivesKeep ==
    ASSUME CacheInv, NEW d \in Devices,
           WipeStep(d) \/ HotPlug(d) \/ Unplug(d) \/ \E p \in Drives : Plug(p, d)
    PROVE  CacheInv'
<1>1. WorldOK /\ CacheOK
  BY DEF CacheInv
<1>2. \A p : Markers(p) \subseteq Marks
  BY DEF Markers, Marks
<1>3. UNCHANGED <<tasks, disc>>
  BY DEF WipeStep, Erase, Conclude, DropAfterWipe, HotPlug, Unplug, Plug
<1>4. CASE Erase(d)
  <2>1. wiped' \in [Drives -> Nat] /\ marker' \in [Devices -> Marks]
    BY <1>1, <1>4 DEF Erase, WorldOK, Marks
  <2>2. WorldOK' /\ CacheOK' /\ UNCHANGED pending
    BY <1>1, <1>4, <2>1 DEF Erase, WorldOK, CacheOK
  <2> QED
    BY <1>3, <2>2, OutsideKeeps
<1>5. CASE Conclude(d)
  <2>1. marker' \in [Devices -> Marks]
    BY <1>1, <1>2, <1>5 DEF Conclude, Mark, WorldOK
  <2>2. WorldOK' /\ CacheOK' /\ UNCHANGED pending
    BY <1>1, <1>5, <2>1 DEF Conclude, WorldOK, CacheOK
  <2> QED
    BY <1>3, <2>2, OutsideKeeps
<1>6. CASE DropAfterWipe(d) \/ HotPlug(d)
  <2>1. Invalidate({d}) \/ UNCHANGED <<cache, pending>>
    BY <1>6 DEF DropAfterWipe, HotPlug
  <2>2. cache' \in [Devices -> Entries] /\ pending' \in SUBSET pending
    BY <1>1, <2>1, Invalidation DEF CacheOK
  <2>3. WorldOK'
    BY <1>1, <1>6 DEF DropAfterWipe, HotPlug, drives, WorldOK
  <2>4. CacheOK'
    BY <1>1, <1>6, <2>2 DEF DropAfterWipe, HotPlug, CacheOK
  <2> QED
    BY <1>3, <2>2, <2>3, <2>4, OutsideKeeps
<1>7. CASE Unplug(d) \/ \E p \in Drives : Plug(p, d)
  <2>1. /\ occupant' \in [Devices -> Occupants] /\ marker' \in [Devices -> Marks]
        /\ events' \in SUBSET Devices
    BY <1>1, <1>2, <1>7 DEF Unplug, Plug, Change, WorldOK, Occupants, Marks
  <2>2. WorldOK'
    BY <1>1, <1>7, <2>1 DEF Unplug, Plug, WorldOK
  <2>3. left' \in Nat
    BY <1>1, <1>7 DEF Unplug, Plug, Change, Event, CacheOK
  <2>4. CacheOK' /\ UNCHANGED pending
    BY <1>1, <1>7, <2>3 DEF Unplug, Plug, CacheOK
  <2> QED
    BY <1>3, <2>2, <2>4, OutsideKeeps
<1> QED
  BY <1>4, <1>5, <1>6, <1>7 DEF WipeStep

LEMMA SystemKeeps ==
    ASSUME CacheInv, Refresh \/ StopPool \/ Signal \/ Tick
    PROVE  CacheInv'
<1>1. WorldOK /\ CacheOK
  BY DEF CacheInv
<1>2. WorldOK' /\ UNCHANGED <<tasks, disc>>
  BY <1>1 DEF Refresh, StopPool, Signal, Tick, drives, WorldOK
<1>3. left' \in Nat
  BY <1>1 DEF Refresh, StopPool, Signal, Tick, Event, CacheOK
<1>4. cache' \in [Devices -> Entries] /\ pending' \in SUBSET pending
  <2>1. CASE Refresh
    BY <1>1, <2>1, Invalidation DEF Refresh, CacheOK
  <2>2. CASE StopPool \/ Signal
    BY <1>1, <2>2 DEF StopPool, Signal, CacheOK
  <2>3. CASE Tick
    <3>1. ASSUME NEW d \in Devices PROVE Older(cache[d]) \in Entries
      <4>1. cache[d] \in Entries /\ NoEntry \in Entries
        BY <1>1, Constants DEF CacheOK
      <4>2. [cache[d] EXCEPT !.age = @ + 1] \in Entries
        BY <4>1 DEF Entries
      <4> QED
        BY <4>1, <4>2 DEF Older
    <3> QED
      BY <1>1, <2>3, <3>1 DEF Tick
  <2> QED
    BY <2>1, <2>2, <2>3
<1>5. CacheOK'
  BY <1>1, <1>3, <1>4, Constants DEF Refresh, StopPool, Signal, Tick, CacheOK
<1> QED
  BY <1>2, <1>4, <1>5, OutsideKeeps

-----------------------------------------------------------------------------
LEMMA InitialInv == Init => CacheInv
<1> SUFFICES ASSUME Init PROVE CacheInv
  OBVIOUS
<1>1. WorldOK
  BY DEF Init, WorldOK, Occupants, Marks
<1>2. CacheOK
  BY Constants, DriveCacheAssumption DEF Init, CacheOK
<1>3. TasksOK /\ DiscOK /\ HandOK /\ PendingOwned
  BY Constants DEF Init, TasksOK, DiscOK, HandOK, PendingOwned
<1> QED
  BY <1>1, <1>2, <1>3 DEF CacheInv

LEMMA StepKeeps == CacheInv /\ [Next]_vars => CacheInv'
<1> SUFFICES ASSUME CacheInv, [Next]_vars PROVE CacheInv'
  OBVIOUS
<1>1. CASE UNCHANGED vars
  BY <1>1 DEF vars, CacheInv, WorldOK, CacheOK, TasksOK, DiscOK, HandOK, PendingOwned
<1>2. CASE Next
  BY <1>2, ListingKeeps, HandingKeeps, TasksKeep, DrivesKeep, SystemKeeps DEF Next, DiscStep
<1> QED
  BY <1>1, <1>2

(* PendingOwned: at every moment each key of _EXTENDED_SMART_PENDING is    *)
(* that of a task in the pool, or of a drive that a discovery is just      *)
(* handing over.  No drive is kept from the pool by a key that nobody will *)
(* take out, whatever pool was stopped meanwhile, whichever keys an        *)
(* invalidation dropped, and however many discoveries hand over the same   *)
(* drives (extended_smart.py).                                             *)
THEOREM PendingKeysOwned == Spec => []PendingOwned
<1>1. Spec => []CacheInv
  BY InitialInv, StepKeeps, PTL DEF Spec
<1>2. CacheInv => PendingOwned
  BY DEF CacheInv
<1> QED
  BY <1>1, <1>2, PTL
=============================================================================
