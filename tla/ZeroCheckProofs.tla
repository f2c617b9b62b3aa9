-------------------------- MODULE ZeroCheckProofs --------------------------
(***************************************************************************)
(* Proofs about ZeroCheck, for every set of bays, callers and workers, all *)
(* limits, and any number of tokens and of joins that time out.            *)
(***************************************************************************)
EXTENDS ZeroCheck, FiniteSetTheorems, SequenceTheorems, TLAPS

Threads == Callers \cup Workers

\* Places where a thread's bay is a bay, and where its child is a worker.
AtBay   == Registered \cup {"start", "publish", "signal", "join", "record"}
AtChild == {"announce", "launch", "signal", "join"}

PlacesInv ==
    \A p \in Threads :
        /\ proc[p].at \in AtBay => proc[p].bay \in Bays
        /\ proc[p].at \in AtChild => proc[p].child \in Workers

\* A worker holds its permit from its creation until it releases it.
PermitInv ==
    \A w \in Workers :
        /\ proc[w].at \in Registered => proc[w].mine
        /\ proc[w].mine => proc[w].at \in Registered \cup {"releasing"}

\* The thread that created a worker is the only one to launch it, and until
\* then the worker has not begun.
LaunchInv ==
    \A p \in Threads : proc[p].at \in {"announce", "launch"} =>
        /\ proc[proc[p].child].at = "created"
        /\ \A q \in Threads :
              proc[q].at \in {"announce", "launch"} /\ q # p =>
                  proc[q].child # proc[p].child

\* Tokens only grow, and whoever is about to signal a worker, or has, has
\* made its token a thing of the past.
TokenInv ==
    /\ \A b \in Bays : gen[b] <= counter
    /\ \A w \in Workers : proc[w].at \in Registered =>
          /\ proc[w].token <= gen[proc[w].bay]
          /\ proc[w].event => proc[w].token # gen[proc[w].bay]
          /\ \A c \in Threads : proc[c].at = "signal" /\ proc[c].child = w =>
                proc[w].token # gen[proc[w].bay]

IInv == /\ TypeOK /\ PlacesInv /\ PermitInv /\ LaunchInv
        /\ SlotsKept /\ OneReaderPerBay /\ EntriesFresh /\ TokenInv

(***************************************************************************)
(* Sequences and records.                                                  *)
(***************************************************************************)

LEMMA WithoutEntries ==
    ASSUME queue \in Seq(Bays), NEW b \in Bays
    PROVE  /\ Without(b) \in Seq(Bays)
           /\ \E k \in Nat : \A i \in DOMAIN Without(b) :
                LET h == IF i < k THEN i ELSE i + 1
                IN  h \in DOMAIN queue /\ Without(b)[i] = queue[h]
<1>1. CASE ~Queued(b)
  <2>1. \A i \in DOMAIN queue : i < Len(queue) + 1
    OBVIOUS
  <2> QED
    BY <1>1 DEF Without
<1>2. CASE Queued(b)
  <2> DEFINE k == CHOOSE i \in DOMAIN queue : queue[i] = b
             front == SubSeq(queue, 1, k - 1)
             back == SubSeq(queue, k + 1, Len(queue))
  <2>1. k \in 1..Len(queue)
    BY <1>2 DEF Queued
  <2>2. Without(b) = front \o back
    BY <1>2 DEF Without
  <2> HIDE DEF k
  <2>3. /\ front \in Seq(Bays)
        /\ Len(front) = k - 1
        /\ \A i \in 1..(k - 1) : front[i] = queue[i]
    BY <2>1
  <2>4. /\ back \in Seq(Bays)
        /\ Len(back) = Len(queue) - k
        /\ \A i \in 1..(Len(queue) - k) : back[i] = queue[k + i]
    BY <2>1
  <2> HIDE DEF front, back
  <2>5. /\ Without(b) \in Seq(Bays)
        /\ Len(Without(b)) = Len(queue) - 1
        /\ \A i \in 1..(Len(queue) - 1) : Without(b)[i] =
              IF i <= Len(front) THEN front[i] ELSE back[i - Len(front)]
    <3>1. Len(front) + Len(back) = Len(queue) - 1
      BY <2>1, <2>3, <2>4
    <3> QED
      BY <2>2, <2>3, <2>4, <3>1
  <2>6. ASSUME NEW i \in DOMAIN Without(b)
        PROVE  LET h == IF i < k THEN i ELSE i + 1
               IN  h \in DOMAIN queue /\ Without(b)[i] = queue[h]
    <3>1. i \in 1..(Len(queue) - 1)
      BY <2>5, <2>6
    <3>2. CASE i < k
      BY <2>1, <2>3, <2>5, <3>1, <3>2
    <3>3. CASE ~(i < k)
      <4>1. i - Len(front) \in 1..(Len(queue) - k) /\ k + (i - Len(front)) = i + 1
        BY <2>1, <2>3, <3>1, <3>3
      <4>2. back[i - Len(front)] = queue[i + 1]
        BY <2>4, <4>1
      <4> QED
        BY <2>1, <2>3, <2>5, <4>2
    <3> QED
      BY <3>2, <3>3
  <2> QED
    BY <2>1, <2>5, <2>6
<1> QED
  BY <1>1, <1>2

LEMMA EveryPlace ==
    /\ "start" \in Places /\ "publish" \in Places /\ "drain" \in Places
    /\ "announce" \in Places /\ "launch" \in Places /\ "signal" \in Places
    /\ "join" \in Places /\ "record" \in Places /\ "releasing" \in Places
    /\ "wedged" \in Places /\ "created" \in Places /\ "started" \in Places
    /\ "reading" \in Places /\ "leaving" \in Places /\ "idle" \in Places
BY DEF Places, Registered

LEMMA RestingTyped == Resting \in Locals
BY ZeroCheckAssumption, EveryPlace DEF Resting, Locals

LEMMA PutEffect ==
    ASSUME ProcOK, NEW p \in Threads, NEW r \in Locals, Put(p, r)
    PROVE  /\ ProcOK'
           /\ proc'[p] = r
           /\ \A q \in Threads \ {p} : proc'[q] = proc[q]
BY DEF ProcOK, Threads, Put

LEMMA StepEffect ==
    ASSUME ProcOK, NEW p \in Threads, NEW at \in Places, Step(p, at)
    PROVE  /\ ProcOK'
           /\ proc'[p].at = at
           /\ proc'[p].bay = proc[p].bay /\ proc'[p].token = proc[p].token
           /\ proc'[p].child = proc[p].child /\ proc'[p].event = proc[p].event
           /\ proc'[p].mine = proc[p].mine
           /\ \A q \in Threads \ {p} : proc'[q] = proc[q]
<1> DEFINE r == [proc[p] EXCEPT !.at = at]
<1>1. /\ r \in Locals
      /\ r.at = at /\ r.bay = proc[p].bay /\ r.token = proc[p].token
      /\ r.child = proc[p].child /\ r.event = proc[p].event
      /\ r.mine = proc[p].mine
  BY DEF ProcOK, Threads, Locals
<1> HIDE DEF r
<1> QED
  BY <1>1, PutEffect DEF Step, r

LEMMA ReturnEffect ==
    ASSUME ProcOK, NEW p \in Threads, Return(p)
    PROVE  /\ ProcOK'
           /\ proc'[p] = Resting
           /\ \A q \in Threads \ {p} : proc'[q] = proc[q]
BY RestingTyped, PutEffect DEF Return

(***************************************************************************)
(* What each kind of step does to the threads.                             *)
(***************************************************************************)

\* Thread p moves between places where it is not a registered worker, holds
\* no permit and launches nobody; the other threads stay as they are.
Elsewhere(r) == r.at \notin Registered \cup {"releasing", "announce", "launch"}

TokensGrow == UNCHANGED <<gen, counter>> \/ \E b \in Bays : NewToken(b)

QueueMoves ==
    \/ UNCHANGED queue
    \/ \E b \in Bays : queue' = Without(b)
    \/ \E b \in Bays : /\ NewToken(b) /\ ~Duplicate(b)
                       /\ queue' = Append(queue, b)

Aside(p) ==
    /\ ProcOK' /\ TokensGrow /\ QueueMoves
    /\ Elsewhere(proc[p]) /\ Elsewhere(proc'[p])
    /\ proc'[p].mine = proc[p].mine \/ ~proc'[p].mine
    /\ proc'[p].at \in {"start", "publish", "signal", "join", "record"} =>
          proc'[p].bay \in Bays
    /\ proc'[p].at = "signal" =>
          /\ NewToken(proc'[p].bay)
          /\ proc'[p].child \in Workers
          /\ proc'[p].child = running[proc'[p].bay]
    /\ proc'[p].at # "join"
    /\ \A q \in Threads \ {p} : proc'[q] = proc[q]
    /\ UNCHANGED <<running, limit, capacity, permits>>

LEMMA FindEligibleAside ==
    ASSUME ProcOK, NEW c \in Callers, NEW b \in Bays, FindEligible(c, b)
    PROVE  Aside(c)
<1> DEFINE r == [proc[c] EXCEPT !.at = "start", !.op = "start", !.bay = b]
<1>1. c \in Threads /\ proc[c] \in Locals
  BY DEF ProcOK, Threads
<1>2. r \in Locals /\ r.at = "start" /\ r.bay = b /\ r.mine = proc[c].mine
  BY <1>1, EveryPlace DEF Locals
<1>3. Put(c, r)
  BY DEF FindEligible
<1> HIDE DEF r
<1> QED
  BY <1>1, <1>2, <1>3, PutEffect
     DEF Aside, TokensGrow, QueueMoves, Elsewhere, Registered, FindEligible,
         book, sem

LEMMA ClearAside ==
    ASSUME BookOK, ProcOK, NEW c \in Callers, NEW b \in Bays, Clear(c, b)
    PROVE  Aside(c)
<1> DEFINE r == [proc[c] EXCEPT !.at = "signal", !.op = "clear", !.bay = b,
                                !.child = running[b]]
<1>1. c \in Threads /\ proc[c] \in Locals
  BY DEF ProcOK, Threads
<1>2. CASE running[b] = Nobody
  BY <1>2
     DEF Clear, Aside, TokensGrow, QueueMoves, Elsewhere, Registered, ProcOK,
         sem
<1>3. CASE running[b] # Nobody
  <2>1. running[b] \in Workers
    BY <1>3 DEF BookOK
  <2>2. r \in Locals /\ r.at = "signal" /\ r.bay = b /\ r.mine = proc[c].mine
        /\ r.child = running[b]
    BY <1>1, <2>1, EveryPlace DEF Locals
  <2>3. Put(c, r)
    BY <1>3 DEF Clear
  <2> HIDE DEF r
  <2> QED
    BY <1>1, <2>1, <2>2, <2>3, PutEffect
       DEF Aside, TokensGrow, QueueMoves, Elsewhere, Registered, Clear, sem
<1> QED
  BY <1>2, <1>3

LEMMA CancelAside ==
    ASSUME BookOK, ProcOK, NEW c \in Callers, NEW b \in Bays,
           NEW op \in {"cancel", "wipe"}, Cancel(c, b, op)
    PROVE  Aside(c)
<1> DEFINE r == [proc[c] EXCEPT
                   !.op = op, !.bay = b, !.token = counter', !.child = running[b],
                   !.at = IF running[b] = Nobody THEN "record" ELSE "signal"]
<1>1. c \in Threads /\ proc[c] \in Locals
  BY DEF ProcOK, Threads
<1>2. CASE UNCHANGED proc
  BY <1>2
     DEF Cancel, Aside, TokensGrow, QueueMoves, Elsewhere, Registered, ProcOK,
         sem
<1>3. CASE NewToken(b) /\ Put(c, r)
  <2> DEFINE at == IF running[b] = Nobody THEN "record" ELSE "signal"
  <2>1. running[b] \in Workers \cup {Nobody} /\ counter' \in 0..MaxTokens
    BY <1>3, ZeroCheckAssumption DEF BookOK, NewToken
  <2>2. \/ at = "record"
        \/ at = "signal" /\ running[b] \in Workers
    BY <2>1
  <2> HIDE DEF at
  <2>a. at \in Places
    BY <2>2, EveryPlace
  <2>3. r \in Locals /\ r.at = at
        /\ r.bay = b /\ r.mine = proc[c].mine /\ r.child = running[b]
    BY <1>1, <2>1, <2>a DEF Locals, at
  <2>4. proc'[c] = r /\ ProcOK' /\ \A q \in Threads \ {c} : proc'[q] = proc[q]
    BY <1>1, <1>3, <2>3, PutEffect
  <2> HIDE DEF r
  <2>5. /\ proc[c].at = "idle" /\ UNCHANGED <<running, sem>>
        /\ queue' \in {queue, Without(b)}
    BY DEF Cancel
  <2> QED
    BY <1>3, <2>2, <2>3, <2>4, <2>5
       DEF Aside, TokensGrow, QueueMoves, Elsewhere, Registered, sem
<1> QED
  BY <1>2, <1>3 DEF Cancel

LEMMA StartCheckAside ==
    ASSUME BookOK, ProcOK, PlacesInv, NEW c \in Callers, StartCheck(c)
    PROVE  Aside(c)
<1> DEFINE r == [proc[c] EXCEPT !.at = "publish", !.token = counter']
<1>1. c \in Threads /\ proc[c] \in Locals /\ proc[c].bay \in Bays
  BY DEF ProcOK, Threads, PlacesInv, AtBay, StartCheck
<1>2. CASE Step(c, "wedged")
  BY <1>1, <1>2, EveryPlace, StepEffect
     DEF StartCheck, Aside, TokensGrow, QueueMoves, Elsewhere, Registered, sem
<1>3. CASE NewToken(proc[c].bay) /\ Put(c, r)
  <2>1. counter' \in 0..MaxTokens
    BY <1>3, ZeroCheckAssumption DEF BookOK, NewToken
  <2>2. r \in Locals /\ r.at = "publish" /\ r.bay = proc[c].bay
        /\ r.mine = proc[c].mine
    BY <1>1, <2>1, EveryPlace DEF Locals
  <2> HIDE DEF r
  <2> QED
    BY <1>1, <1>3, <2>2, PutEffect
       DEF StartCheck, Aside, TokensGrow, QueueMoves, Elsewhere, Registered,
           sem
<1> QED
  BY <1>2, <1>3 DEF StartCheck

LEMMA PublishQueuedAside ==
    ASSUME ProcOK, NEW c \in Callers, PublishQueued(c)
    PROVE  Aside(c)
<1>1. c \in Threads /\ proc[c] \in Locals
  BY DEF ProcOK, Threads
<1> QED
  BY <1>1, EveryPlace, StepEffect
     DEF PublishQueued, Aside, TokensGrow, QueueMoves, Elsewhere, Registered,
         sem

LEMMA JoinWorkerAside ==
    ASSUME ProcOK, PlacesInv, NEW c \in Callers, JoinWorker(c)
    PROVE  Aside(c)
<1> DEFINE r == [proc[c] EXCEPT !.at = "record", !.child = Nobody]
<1>1. c \in Threads /\ proc[c] \in Locals /\ proc[c].bay \in Bays
  BY DEF ProcOK, Threads, PlacesInv, AtBay, JoinWorker
<1>2. CASE Return(c)
  BY <1>1, <1>2, ReturnEffect
     DEF JoinWorker, Aside, TokensGrow, QueueMoves, Elsewhere, Registered,
         Resting, book, sem
<1>3. CASE Put(c, r)
  <2>1. r \in Locals /\ r.at = "record" /\ r.bay = proc[c].bay
        /\ r.mine = proc[c].mine
    BY <1>1, EveryPlace DEF Locals
  <2> HIDE DEF r
  <2> QED
    BY <1>1, <1>3, <2>1, PutEffect
       DEF JoinWorker, Aside, TokensGrow, QueueMoves, Elsewhere, Registered,
           book, sem
<1> QED
  BY <1>2, <1>3 DEF JoinWorker

LEMMA ReturnAside ==
    ASSUME ProcOK, NEW p \in Threads,
           \/ p \in Callers /\ (JoinRaises(p) \/ RecordCancelled(p))
           \/ Drained(p)
    PROVE  Aside(p)
<1>1. Return(p)
  BY DEF JoinRaises, RecordCancelled, Drained
<1> QED
  BY ReturnEffect
     DEF JoinRaises, RecordCancelled, Drained, Aside, TokensGrow, QueueMoves,
         Elsewhere, Registered, Resting, book, sem

SameBut(q) ==
    /\ proc'[q].bay = proc[q].bay /\ proc'[q].token = proc[q].token
    /\ proc'[q].child = proc[q].child

LEMMA SignalEffect ==
    ASSUME ProcOK, PlacesInv, NEW c \in Callers, SignalWorker(c)
    PROVE  LET w == proc[c].child
           IN  /\ ProcOK'
               /\ w \in Workers
               /\ w # c
               /\ proc[c].at = "signal" /\ proc'[c].at = "join"
               /\ SameBut(c) /\ SameBut(w)
               /\ proc'[c].mine = proc[c].mine
               /\ proc'[c].event = proc[c].event
               /\ proc'[w].at = proc[w].at /\ proc'[w].mine = proc[w].mine
               /\ \A q \in Threads \ {c, w} : proc'[q] = proc[q]
               /\ UNCHANGED <<book, sem>>
<1> DEFINE w == proc[c].child
           r == [proc[w] EXCEPT !.event = TRUE]
           s == [proc[c] EXCEPT !.at = "join"]
<1>1. c \in Threads /\ proc[c] \in Locals /\ w \in Workers /\ w \in Threads
      /\ w # c /\ proc[w] \in Locals /\ proc[c].at = "signal"
  BY ZeroCheckAssumption DEF ProcOK, Threads, PlacesInv, AtChild, SignalWorker
<1>2. /\ r \in Locals /\ r.at = proc[w].at /\ r.bay = proc[w].bay
      /\ r.token = proc[w].token /\ r.child = proc[w].child
      /\ r.mine = proc[w].mine
  BY <1>1 DEF Locals
<1>3. /\ s \in Locals /\ s.at = "join" /\ s.bay = proc[c].bay
      /\ s.token = proc[c].token /\ s.child = proc[c].child
      /\ s.mine = proc[c].mine /\ s.event = proc[c].event
  BY <1>1, EveryPlace DEF Locals
<1>4. proc' = [proc EXCEPT ![c] = s, ![w] = r]
  BY <1>1 DEF SignalWorker
<1>5. UNCHANGED <<book, sem>>
  BY DEF SignalWorker
<1> HIDE DEF w, r, s
<1>6. /\ proc' \in [Threads -> Locals]
      /\ proc'[c] = s /\ proc'[w] = r
      /\ \A q \in Threads \ {c, w} : proc'[q] = proc[q]
  BY <1>1, <1>2, <1>3, <1>4 DEF ProcOK, Threads
<1> QED
  BY <1>1, <1>2, <1>3, <1>5, <1>6 DEF ProcOK, Threads, SameBut, w

LEMMA ReadingEffect ==
    ASSUME ProcOK, NEW w \in Workers, BeginRead(w) \/ FinishRead(w)
    PROVE  /\ ProcOK'
           /\ proc[w].at \in {"started", "reading"}
           /\ proc'[w].at \in {"reading", "leaving"}
           /\ proc'[w].bay = proc[w].bay /\ proc'[w].token = proc[w].token
           /\ proc'[w].child = proc[w].child /\ proc'[w].event = proc[w].event
           /\ proc'[w].mine = proc[w].mine
           /\ \A q \in Threads \ {w} : proc'[q] = proc[q]
           /\ UNCHANGED <<queue, running, gen, counter, limit, capacity, permits>>
<1>1. w \in Threads
  BY DEF Threads
<1>2. CASE BeginRead(w)
  <2>1. CASE Step(w, "reading")
    BY <1>1, <1>2, EveryPlace, StepEffect DEF BeginRead, book, sem
  <2>2. CASE Step(w, "leaving")
    BY <1>1, <1>2, EveryPlace, StepEffect DEF BeginRead, book, sem
  <2> QED
    BY <1>2, <2>1, <2>2 DEF BeginRead
<1>3. CASE FinishRead(w)
  BY <1>1, <1>3, EveryPlace, StepEffect DEF FinishRead, sem
<1> QED
  BY <1>2, <1>3

LEMMA AnnounceEffect ==
    ASSUME ProcOK, NEW p \in Threads, AnnounceRunning(p)
    PROVE  /\ ProcOK'
           /\ proc[p].at = "announce" /\ proc'[p].at = "launch"
           /\ proc'[p].child = proc[p].child /\ proc'[p].mine = proc[p].mine
           /\ \A q \in Threads \ {p} : proc'[q] = proc[q]
           /\ UNCHANGED <<queue, running, gen, counter, limit, capacity, permits>>
BY EveryPlace, StepEffect DEF AnnounceRunning, sem

LEMMA LaunchEffect ==
    ASSUME ProcOK, PlacesInv, LaunchInv, NEW p \in Threads, Launch(p)
    PROVE  LET w == proc[p].child
           IN  /\ ProcOK'
               /\ proc[p].at = "launch" /\ proc'[p].at = "drain"
               /\ proc'[p].mine = proc[p].mine
               /\ w \in Workers \ {p}
               /\ proc[w].at = "created" /\ proc'[w].at = "started"
               /\ proc'[w].bay = proc[w].bay /\ proc'[w].token = proc[w].token
               /\ proc'[w].child = proc[w].child
               /\ proc'[w].event = proc[w].event
               /\ proc'[w].mine = proc[w].mine
               /\ \A q \in Threads \ {p, w} : proc'[q] = proc[q]
               /\ UNCHANGED <<queue, running, gen, counter, limit, capacity,
                              permits>>
<1> DEFINE w == proc[p].child
           r == [proc[w] EXCEPT !.at = "started"]
           s == [proc[p] EXCEPT !.at = "drain", !.child = Nobody]
<1>1. /\ proc[p] \in Locals /\ w \in Workers /\ w \in Threads
      /\ proc[w] \in Locals
      /\ proc[w].at = "created" /\ proc[p].at = "launch" /\ w # p
  BY DEF ProcOK, Threads, PlacesInv, AtChild, LaunchInv, Launch
<1>2. /\ r \in Locals /\ r.at = "started" /\ r.bay = proc[w].bay
      /\ r.token = proc[w].token /\ r.child = proc[w].child
      /\ r.event = proc[w].event /\ r.mine = proc[w].mine
  BY <1>1, EveryPlace DEF Locals
<1>3. s \in Locals /\ s.at = "drain" /\ s.mine = proc[p].mine
  BY <1>1, EveryPlace DEF Locals
<1>4. proc' = [proc EXCEPT ![p] = s, ![w] = r]
  BY <1>1 DEF Launch
<1> HIDE DEF w, r, s
<1>5. /\ proc' \in [Threads -> Locals]
      /\ proc'[p] = s /\ proc'[w] = r
      /\ \A q \in Threads \ {p, w} : proc'[q] = proc[q]
  BY <1>1, <1>2, <1>3, <1>4 DEF ProcOK, Threads
<1>6. UNCHANGED <<queue, running, gen, counter, limit, capacity, permits>>
  BY DEF Launch, book, sem
<1> QED
  BY <1>1, <1>2, <1>3, <1>5, <1>6 DEF ProcOK, Threads, w

LEMMA CreateEffect ==
    ASSUME BookOK, SemOK, ProcOK, NEW p \in Threads, NEW w \in Workers,
           CreateWorker(p, w)
    PROVE  LET b == Head(queue)
           IN  /\ ProcOK'
               /\ queue # <<>> /\ b \in Bays
               /\ proc[p].at = "drain" /\ proc'[p].at = "announce"
               /\ proc'[p].child = w /\ proc'[p].mine = proc[p].mine
               /\ w # p /\ proc[w].at = "idle"
               /\ \A q \in Threads : proc[q].child # w
               /\ proc'[w].at = "created" /\ proc'[w].bay = b
               /\ proc'[w].token = gen[b] /\ ~proc'[w].event /\ proc'[w].mine
               /\ \A q \in Threads \ {p, w} : proc'[q] = proc[q]
               /\ queue' = Tail(queue)
               /\ running' = [running EXCEPT ![b] = w]
               /\ permits # 0 /\ permits' = permits - 1
               /\ UNCHANGED <<gen, counter, limit, capacity>>
<1> DEFINE b == Head(queue)
           r == [Resting EXCEPT !.at = "created", !.bay = b, !.token = gen[b],
                                !.mine = TRUE]
           s == [proc[p] EXCEPT !.at = "announce", !.child = w]
<1>1. queue # <<>> /\ b \in Bays /\ permits # 0
  BY HeadTailProperties DEF BookOK, CreateWorker, NothingToRun
<1>2. /\ proc[p] \in Locals /\ w # p /\ w \in Threads /\ proc[w].at = "idle"
      /\ proc[p].at = "drain" /\ \A q \in Threads : proc[q].child # w
  BY DEF ProcOK, Threads, CreateWorker, Spare
<1>3. /\ r \in Locals /\ r.at = "created" /\ r.bay = b /\ r.token = gen[b]
      /\ ~r.event /\ r.mine
  <2>1. gen[b] \in 0..MaxTokens
    BY <1>1 DEF BookOK
  <2> QED
    BY <1>1, <2>1, EveryPlace DEF Locals, Resting
<1>4. s \in Locals /\ s.at = "announce" /\ s.child = w /\ s.mine = proc[p].mine
  BY <1>2, EveryPlace DEF Locals
<1>5. proc' = [proc EXCEPT ![p] = s, ![w] = r]
  BY <1>2 DEF CreateWorker
<1>6. /\ queue' = Tail(queue) /\ running' = [running EXCEPT ![b] = w]
      /\ permits' = permits - 1 /\ UNCHANGED <<gen, counter, limit, capacity>>
  BY DEF CreateWorker
<1> HIDE DEF b, r, s
<1>7. /\ proc' \in [Threads -> Locals]
      /\ proc'[p] = s /\ proc'[w] = r
      /\ \A q \in Threads \ {p, w} : proc'[q] = proc[q]
  BY <1>3, <1>4, <1>5 DEF ProcOK, Threads
<1> QED
  BY <1>1, <1>2, <1>3, <1>4, <1>6, <1>7 DEF ProcOK, Threads, b

\* The semaphore stays, or a fresh one replaces it while nobody is registered.
SemaphoreKept ==
    /\ UNCHANGED <<capacity, permits>>
    /\ \A q \in Threads : proc'[q].mine = proc[q].mine

SemaphoreReplaced ==
    /\ \A b \in Bays : running'[b] = Nobody
    /\ capacity' = permits'
    /\ \A q \in Threads : ~proc'[q].mine

LEMMA NewSemaphoreEffect ==
    ASSUME NEW n, NEW procs \in [Threads -> Locals], NewSemaphore(n, procs)
    PROVE  /\ ProcOK'
           /\ capacity' = n /\ permits' = n
           /\ \A q \in Threads :
                /\ proc'[q].at = procs[q].at /\ proc'[q].bay = procs[q].bay
                /\ proc'[q].token = procs[q].token
                /\ proc'[q].child = procs[q].child
                /\ proc'[q].event = procs[q].event /\ ~proc'[q].mine
<1>1. ASSUME NEW q \in Threads
      PROVE  LET r == [procs[q] EXCEPT !.mine = FALSE]
             IN  /\ r \in Locals /\ r.at = procs[q].at /\ r.bay = procs[q].bay
                 /\ r.token = procs[q].token /\ r.child = procs[q].child
                 /\ r.event = procs[q].event /\ ~r.mine
  BY DEF Locals
<1>2. proc' = [q \in Threads |-> [procs[q] EXCEPT !.mine = FALSE]]
  BY DEF NewSemaphore
<1>3. proc' \in [Threads -> Locals]
  BY <1>1, <1>2
<1> QED
  BY <1>1 DEF NewSemaphore, ProcOK, Threads

LEMMA LeaveEffect ==
    ASSUME ProcOK, NEW w \in Workers, Leave(w)
    PROVE  /\ ProcOK'
           /\ proc[w].at = "leaving" /\ proc'[w].at = "releasing"
           /\ \A q \in Threads : SameBut(q) /\ proc'[q].event = proc[q].event
           /\ \A q \in Threads \ {w} : proc'[q].at = proc[q].at
           /\ running' = [running EXCEPT ![proc[w].bay] = Nobody]
           /\ SemaphoreKept \/ SemaphoreReplaced
           /\ capacity' \in {capacity, limit}
           /\ UNCHANGED <<queue, gen, counter, limit>>
<1> DEFINE procs == [proc EXCEPT ![w].at = "releasing"]
<1>1. w \in Threads
  BY DEF Threads
<1>2. /\ procs \in [Threads -> Locals]
      /\ procs[w].at = "releasing"
      /\ \A q \in Threads \ {w} : procs[q].at = proc[q].at
      /\ \A q \in Threads :
            /\ procs[q].bay = proc[q].bay /\ procs[q].token = proc[q].token
            /\ procs[q].child = proc[q].child /\ procs[q].event = proc[q].event
            /\ procs[q].mine = proc[q].mine
  BY EveryPlace DEF ProcOK, Threads, Locals
<1> HIDE DEF procs
<1>3. \/ /\ NewSemaphore(limit, procs)
         /\ \A b \in Bays : running'[b] = Nobody
      \/ proc' = procs /\ UNCHANGED <<capacity, permits>>
  BY DEF Leave, procs
<1>4. /\ proc[w].at = "leaving"
      /\ running' = [running EXCEPT ![proc[w].bay] = Nobody]
      /\ UNCHANGED <<queue, gen, counter, limit>>
  BY DEF Leave
<1>5. CASE /\ NewSemaphore(limit, procs)
           /\ \A b \in Bays : running'[b] = Nobody
  BY <1>1, <1>2, <1>4, <1>5, NewSemaphoreEffect DEF SameBut, SemaphoreReplaced
<1>6. CASE proc' = procs /\ UNCHANGED <<capacity, permits>>
  BY <1>2, <1>4, <1>6 DEF SameBut, SemaphoreKept, ProcOK, Threads
<1> QED
  BY <1>3, <1>5, <1>6

LEMMA SetConcurrencyEffect ==
    ASSUME ProcOK, NEW n \in Limits, SetConcurrency(n)
    PROVE  /\ ProcOK'
           /\ \A q \in Threads : /\ SameBut(q) /\ proc'[q].at = proc[q].at
                                 /\ proc'[q].event = proc[q].event
           /\ SemaphoreKept \/ SemaphoreReplaced
           /\ capacity' \in {capacity, n} /\ limit' = n
           /\ UNCHANGED book
<1>1. proc \in [Threads -> Locals]
  BY DEF ProcOK, Threads
<1>2. CASE NewSemaphore(n, proc) /\ \A b \in Bays : running[b] = Nobody
  BY <1>1, <1>2, NewSemaphoreEffect
     DEF SetConcurrency, SameBut, SemaphoreReplaced, book
<1>3. CASE UNCHANGED <<capacity, permits, proc>>
  BY <1>3 DEF SetConcurrency, SameBut, SemaphoreKept, ProcOK
<1> QED
  BY <1>2, <1>3 DEF SetConcurrency

LEMMA ReleaseEffect ==
    ASSUME ProcOK, NEW w \in Workers, Release(w)
    PROVE  /\ ProcOK'
           /\ proc[w].at = "releasing" /\ proc'[w].at = "drain"
           /\ ~proc'[w].mine
           /\ \A q \in Threads \ {w} : proc'[q] = proc[q]
           /\ permits' = IF proc[w].mine THEN permits + 1 ELSE permits
           /\ UNCHANGED <<queue, running, gen, counter, limit, capacity>>
<1> DEFINE r == [proc[w] EXCEPT !.at = "drain", !.mine = FALSE]
<1>1. w \in Threads /\ proc[w] \in Locals
  BY DEF ProcOK, Threads
<1>2. r \in Locals /\ r.at = "drain" /\ ~r.mine
  BY <1>1, EveryPlace DEF Locals
<1>3. Put(w, r)
  BY DEF Release
<1> HIDE DEF r
<1> QED
  BY <1>1, <1>2, <1>3, PutEffect DEF Release, book

(***************************************************************************)
(* Every step is of one of these kinds.                                    *)
(***************************************************************************)
LEMMA Kinds ==
    ASSUME BookOK, ProcOK, PlacesInv, Next
    PROVE  \/ \E p \in Threads : Aside(p)
           \/ \E c \in Callers : SignalWorker(c)
           \/ \E w \in Workers : BeginRead(w) \/ FinishRead(w)
           \/ \E p \in Threads : AnnounceRunning(p) \/ Launch(p)
           \/ \E p \in Threads, w \in Workers : CreateWorker(p, w)
           \/ \E w \in Workers : Leave(w) \/ Release(w)
           \/ \E n \in Limits : SetConcurrency(n)
BY FindEligibleAside, ClearAside, CancelAside, StartCheckAside,
   PublishQueuedAside, JoinWorkerAside, ReturnAside
   DEF Next, Proceed, ProcessQueue, WorkerStep, Threads

LEMMA ProcOKPreserved ==
    ASSUME BookOK, SemOK, ProcOK, PlacesInv, LaunchInv,
           [Next]_vars
    PROVE  ProcOK'
<1>1. ASSUME NEW p \in Threads, Aside(p)
      PROVE  ProcOK'
  BY <1>1 DEF Aside
<1>2. ASSUME NEW c \in Callers, SignalWorker(c)
      PROVE  ProcOK'
  BY <1>2, SignalEffect
<1>3. ASSUME NEW w \in Workers, BeginRead(w) \/ FinishRead(w)
      PROVE  ProcOK'
  BY <1>3, ReadingEffect
<1>4. ASSUME NEW p \in Threads, AnnounceRunning(p)
      PROVE  ProcOK'
  BY <1>4, AnnounceEffect
<1>5. ASSUME NEW p \in Threads, Launch(p)
      PROVE  ProcOK'
  BY <1>5, LaunchEffect
<1>6. ASSUME NEW p \in Threads, NEW w \in Workers, CreateWorker(p, w)
      PROVE  ProcOK'
  BY <1>6, CreateEffect
<1>7. ASSUME NEW w \in Workers, Leave(w)
      PROVE  ProcOK'
  BY <1>7, LeaveEffect
<1>8. ASSUME NEW w \in Workers, Release(w)
      PROVE  ProcOK'
  BY <1>8, ReleaseEffect
<1>9. ASSUME NEW n \in Limits, SetConcurrency(n)
      PROVE  ProcOK'
  BY <1>9, SetConcurrencyEffect
<1>10. CASE UNCHANGED vars
  BY <1>10 DEF vars, ProcOK
<1> QED
  BY <1>1, <1>2, <1>3, <1>4, <1>5, <1>6, <1>7, <1>8, <1>9, <1>10, Kinds

LEMMA PlacesInvPreserved ==
    ASSUME BookOK, SemOK, ProcOK, PlacesInv, LaunchInv,
           [Next]_vars
    PROVE  PlacesInv'
<1>1. ASSUME NEW p \in Threads, Aside(p)
      PROVE  PlacesInv'
  BY <1>1 DEF PlacesInv, AtBay, AtChild, Aside, Elsewhere
<1>2. ASSUME NEW c \in Callers, SignalWorker(c)
      PROVE  PlacesInv'
  BY <1>2, SignalEffect DEF PlacesInv, AtBay, SameBut
<1>3. ASSUME NEW w \in Workers, BeginRead(w) \/ FinishRead(w)
      PROVE  PlacesInv'
  BY <1>3, ReadingEffect DEF PlacesInv, AtBay, AtChild, Registered
<1>4. ASSUME NEW p \in Threads, AnnounceRunning(p)
      PROVE  PlacesInv'
  BY <1>4, AnnounceEffect DEF PlacesInv, AtBay, AtChild, Registered
<1>5. ASSUME NEW p \in Threads, Launch(p)
      PROVE  PlacesInv'
  BY <1>5, LaunchEffect DEF PlacesInv, AtBay, AtChild, Registered
<1>6. ASSUME NEW p \in Threads, NEW w \in Workers, CreateWorker(p, w)
      PROVE  PlacesInv'
  BY <1>6, CreateEffect DEF PlacesInv, AtBay, AtChild, Registered
<1>7. ASSUME NEW w \in Workers, Leave(w)
      PROVE  PlacesInv'
  BY <1>7, LeaveEffect DEF PlacesInv, AtBay, AtChild, Registered, SameBut
<1>8. ASSUME NEW w \in Workers, Release(w)
      PROVE  PlacesInv'
  BY <1>8, ReleaseEffect DEF PlacesInv, AtBay, AtChild, Registered
<1>9. ASSUME NEW n \in Limits, SetConcurrency(n)
      PROVE  PlacesInv'
  BY <1>9, SetConcurrencyEffect DEF PlacesInv, SameBut
<1>10. CASE UNCHANGED vars
  BY <1>10 DEF vars, PlacesInv
<1> QED
  BY <1>1, <1>2, <1>3, <1>4, <1>5, <1>6, <1>7, <1>8, <1>9, <1>10, Kinds

LEMMA LaunchInvPreserved ==
    ASSUME BookOK, SemOK, ProcOK, PlacesInv, LaunchInv,
           [Next]_vars
    PROVE  LaunchInv'
<1>1. ASSUME NEW p \in Threads, Aside(p)
      PROVE  LaunchInv'
  BY <1>1
     DEF PlacesInv, AtChild, LaunchInv, Registered, Threads, Aside, Elsewhere
<1>2. ASSUME NEW c \in Callers, SignalWorker(c)
      PROVE  LaunchInv'
  BY <1>2, SignalEffect DEF PlacesInv, AtChild, LaunchInv, Threads, SameBut
<1>3. ASSUME NEW w \in Workers, BeginRead(w) \/ FinishRead(w)
      PROVE  LaunchInv'
  BY <1>3, ReadingEffect DEF PlacesInv, AtChild, LaunchInv, Threads
<1>4. ASSUME NEW p \in Threads, AnnounceRunning(p)
      PROVE  LaunchInv'
  BY <1>4, AnnounceEffect DEF PlacesInv, AtChild, LaunchInv, Threads
<1>5. ASSUME NEW p \in Threads, Launch(p)
      PROVE  LaunchInv'
  BY <1>5, LaunchEffect DEF PlacesInv, AtChild, LaunchInv, Threads
<1>6. ASSUME NEW p \in Threads, NEW w \in Workers, CreateWorker(p, w)
      PROVE  LaunchInv'
  BY <1>6, CreateEffect DEF PlacesInv, AtChild, LaunchInv, Threads
<1>7. ASSUME NEW w \in Workers, Leave(w)
      PROVE  LaunchInv'
  BY <1>7, LeaveEffect DEF PlacesInv, AtChild, LaunchInv, Threads, SameBut
<1>8. ASSUME NEW w \in Workers, Release(w)
      PROVE  LaunchInv'
  BY <1>8, ReleaseEffect DEF PlacesInv, AtChild, LaunchInv, Threads
<1>9. ASSUME NEW n \in Limits, SetConcurrency(n)
      PROVE  LaunchInv'
  BY <1>9, SetConcurrencyEffect
     DEF PlacesInv, AtChild, LaunchInv, Threads, SameBut
<1>10. CASE UNCHANGED vars
  BY <1>10 DEF vars, LaunchInv
<1> QED
  BY <1>1, <1>2, <1>3, <1>4, <1>5, <1>6, <1>7, <1>8, <1>9, <1>10, Kinds

LEMMA PermitInvPreserved ==
    ASSUME BookOK, SemOK, ProcOK, PlacesInv, LaunchInv, OneReaderPerBay,
           PermitInv,
           [Next]_vars
    PROVE  PermitInv'
<1>1. ASSUME NEW p \in Threads, Aside(p)
      PROVE  PermitInv'
  BY <1>1 DEF PermitInv, Threads, Aside, Elsewhere
<1>2. ASSUME NEW c \in Callers, SignalWorker(c)
      PROVE  PermitInv'
  BY <1>2, SignalEffect DEF PermitInv, Registered, Threads
<1>3. ASSUME NEW w \in Workers, BeginRead(w) \/ FinishRead(w)
      PROVE  PermitInv'
  BY <1>3, ReadingEffect DEF PermitInv, Registered, Threads
<1>4. ASSUME NEW p \in Threads, AnnounceRunning(p)
      PROVE  PermitInv'
  BY <1>4, AnnounceEffect DEF PermitInv, Registered, Threads
<1>5. ASSUME NEW p \in Threads, Launch(p)
      PROVE  PermitInv'
  BY <1>5, LaunchEffect DEF PermitInv, Registered, Threads
<1>6. ASSUME NEW p \in Threads, NEW w \in Workers, CreateWorker(p, w)
      PROVE  PermitInv'
  BY <1>6, CreateEffect DEF PermitInv, Registered, Threads
<1>7. ASSUME NEW w \in Workers, Leave(w)
      PROVE  PermitInv'
  <2>1. CASE SemaphoreKept
    BY <1>7, <2>1, LeaveEffect
       DEF PermitInv, SemaphoreKept, Registered, Threads
  <2>2. CASE SemaphoreReplaced
    <3>1. ASSUME NEW v \in Workers, proc'[v].at \in Registered
          PROVE  FALSE
      <4>1. v # w /\ proc[v].at \in Registered
        BY <1>7, <3>1, LeaveEffect DEF Registered, Threads
      <4>2. running[proc[v].bay] = v /\ proc[v].bay \in Bays
        BY <4>1 DEF OneReaderPerBay, PlacesInv, AtBay, Threads
      <4>3. running[proc[w].bay] = w
        BY <1>7, LeaveEffect DEF OneReaderPerBay, Registered
      <4>4. running'[proc[v].bay] = v
        BY <1>7, <4>1, <4>2, <4>3, LeaveEffect DEF BookOK
      <4> QED
        BY <2>2, <4>2, <4>4, ZeroCheckAssumption DEF SemaphoreReplaced
    <3> QED
      BY <2>2, <3>1 DEF PermitInv, SemaphoreReplaced, Threads
  <2> QED
    BY <1>7, <2>1, <2>2, LeaveEffect
<1>8. ASSUME NEW w \in Workers, Release(w)
      PROVE  PermitInv'
  BY <1>8, ReleaseEffect DEF PermitInv, Registered, Threads
<1>9. ASSUME NEW n \in Limits, SetConcurrency(n)
      PROVE  PermitInv'
  <2>1. CASE SemaphoreKept
    BY <1>9, <2>1, SetConcurrencyEffect DEF PermitInv, SemaphoreKept, Threads
  <2>2. CASE SemaphoreReplaced
    <3>1. ASSUME NEW v \in Workers, proc'[v].at \in Registered
          PROVE  FALSE
      <4>1. proc[v].at \in Registered
        BY <1>9, <3>1, SetConcurrencyEffect DEF Threads
      <4>2. running'[proc[v].bay] = v /\ proc[v].bay \in Bays
        BY <1>9, <4>1, SetConcurrencyEffect
           DEF OneReaderPerBay, PlacesInv, AtBay, Threads, book
      <4> QED
        BY <2>2, <4>2, ZeroCheckAssumption DEF SemaphoreReplaced
    <3> QED
      BY <2>2, <3>1 DEF PermitInv, SemaphoreReplaced, Threads
  <2> QED
    BY <1>9, <2>1, <2>2, SetConcurrencyEffect
<1>10. CASE UNCHANGED vars
  BY <1>10 DEF vars, PermitInv
<1> QED
  BY <1>1, <1>2, <1>3, <1>4, <1>5, <1>6, <1>7, <1>8, <1>9, <1>10, Kinds

LEMMA OneReaderPerBayPreserved ==
    ASSUME BookOK, SemOK, ProcOK, PlacesInv, LaunchInv, OneReaderPerBay,
           EntriesFresh,
           [Next]_vars
    PROVE  OneReaderPerBay'
<1>1. ASSUME NEW p \in Threads, Aside(p)
      PROVE  OneReaderPerBay'
  BY <1>1 DEF OneReaderPerBay, Threads, Aside, Elsewhere
<1>2. ASSUME NEW c \in Callers, SignalWorker(c)
      PROVE  OneReaderPerBay'
  <2>1. \A v \in Workers : /\ proc'[v].bay = proc[v].bay
                            /\ proc'[v].at = proc[v].at
    BY <1>2, SignalEffect, ZeroCheckAssumption DEF SameBut, Threads
  <2>2. UNCHANGED running
    BY <1>2, SignalEffect DEF book
  <2> QED
    BY <2>1, <2>2 DEF OneReaderPerBay
<1>3. ASSUME NEW w \in Workers, BeginRead(w) \/ FinishRead(w)
      PROVE  OneReaderPerBay'
  BY <1>3, ReadingEffect DEF OneReaderPerBay, Registered, Threads
<1>4. ASSUME NEW p \in Threads, AnnounceRunning(p)
      PROVE  OneReaderPerBay'
  BY <1>4, AnnounceEffect, ZeroCheckAssumption
     DEF BookOK, PlacesInv, AtBay, OneReaderPerBay, Registered, Threads
<1>5. ASSUME NEW p \in Threads, Launch(p)
      PROVE  OneReaderPerBay'
  BY <1>5, LaunchEffect DEF OneReaderPerBay, Registered, Threads
<1>6. ASSUME NEW p \in Threads, NEW w \in Workers, CreateWorker(p, w)
      PROVE  OneReaderPerBay'
  <2> DEFINE b == Head(queue)
  <2>1. b \in Bays /\ running[b] = Nobody
    <3>1. 1 \in DOMAIN queue /\ b = queue[1]
      BY <1>6, CreateEffect DEF BookOK
    <3> QED
      BY <1>6, <3>1, CreateEffect DEF EntriesFresh
  <2>2. running'[b] = w /\ \A a \in Bays \ {b} : running'[a] = running[a]
    BY <1>6, CreateEffect DEF BookOK
  <2>3. \A a \in Bays : running[a] # w
    BY <1>6, CreateEffect DEF OneReaderPerBay, Registered
  <2>4. ASSUME NEW v \in Workers \ {w}
        PROVE  /\ proc'[v].at \in Registered <=> proc[v].at \in Registered
               /\ proc[v].at \in Registered => proc'[v] = proc[v]
    BY <1>6, CreateEffect DEF Registered, Threads
  <2>5. ASSUME NEW v \in Workers \ {w}, proc'[v].at \in Registered
        PROVE  running'[proc'[v].bay] = v
    <3>1. running[proc[v].bay] = v /\ proc[v].bay \in Bays
      BY <2>4, <2>5 DEF OneReaderPerBay, PlacesInv, AtBay, Threads
    <3> QED
      BY <2>1, <2>2, <2>4, <2>5, <3>1, ZeroCheckAssumption
  <2>6. ASSUME NEW v \in Workers \ {w}, NEW a \in Bays, running'[a] = v
        PROVE  proc'[v].bay = a /\ proc'[v].at \in Registered
    <3>1. running[a] = v
      BY <2>2, <2>6
    <3>2. proc[v].bay = a /\ proc[v].at \in Registered
      BY <3>1 DEF OneReaderPerBay
    <3> QED
      BY <2>4, <3>2
  <2>7. /\ proc'[w].bay = b /\ proc'[w].at \in Registered
    BY <1>6, CreateEffect DEF Registered
  <2> QED
    BY <2>2, <2>3, <2>5, <2>6, <2>7 DEF OneReaderPerBay
<1>7. ASSUME NEW w \in Workers, Leave(w)
      PROVE  OneReaderPerBay'
  <2>1. running[proc[w].bay] = w /\ proc[w].bay \in Bays
    BY <1>7, LeaveEffect
       DEF OneReaderPerBay, PlacesInv, AtBay, Registered, Threads
  <2>2. /\ running'[proc[w].bay] = Nobody
        /\ \A a \in Bays \ {proc[w].bay} : running'[a] = running[a]
    BY <1>7, <2>1, LeaveEffect DEF BookOK
  <2>3. proc'[w].at \notin Registered
    BY <1>7, LeaveEffect DEF Registered
  <2>4. ASSUME NEW v \in Workers \ {w}
        PROVE  proc'[v].bay = proc[v].bay /\ proc'[v].at = proc[v].at
    BY <1>7, LeaveEffect DEF SameBut, Threads
  <2>5. ASSUME NEW v \in Workers \ {w}, proc[v].at \in Registered
        PROVE  running'[proc[v].bay] = v
    <3>1. running[proc[v].bay] = v /\ proc[v].bay \in Bays
      BY <2>5 DEF OneReaderPerBay, PlacesInv, AtBay, Threads
    <3> QED
      BY <2>1, <2>2, <3>1
  <2>6. ASSUME NEW v \in Workers, NEW a \in Bays, running'[a] = v
        PROVE  v # w /\ running[a] = v
    <3>1. a # proc[w].bay
      BY <2>2, <2>6, ZeroCheckAssumption
    <3>2. running[a] = v
      BY <2>2, <2>6, <3>1
    <3> QED
      BY <3>1, <3>2 DEF OneReaderPerBay
  <2> QED
    BY <2>3, <2>4, <2>5, <2>6 DEF OneReaderPerBay
<1>8. ASSUME NEW w \in Workers, Release(w)
      PROVE  OneReaderPerBay'
  BY <1>8, ReleaseEffect DEF OneReaderPerBay, Registered, Threads
<1>9. ASSUME NEW n \in Limits, SetConcurrency(n)
      PROVE  OneReaderPerBay'
  BY <1>9, SetConcurrencyEffect DEF OneReaderPerBay, Threads, SameBut, book
<1>10. CASE UNCHANGED vars
  BY <1>10 DEF vars, book, OneReaderPerBay
<1> QED
  BY <1>1, <1>2, <1>3, <1>4, <1>5, <1>6, <1>7, <1>8, <1>9, <1>10, Kinds

LEMMA TokenInvPreserved ==
    ASSUME BookOK, SemOK, ProcOK, PlacesInv, LaunchInv, OneReaderPerBay,
           TokenInv,
           [Next]_vars
    PROVE  TokenInv'
<1>1. ASSUME NEW p \in Threads, Aside(p)
      PROVE  TokenInv'
  <2>1. ASSUME NEW v \in Workers
        PROVE  /\ proc'[v].at \in Registered <=> proc[v].at \in Registered
               /\ proc[v].at \in Registered => proc'[v] = proc[v]
    BY <1>1 DEF Aside, Elsewhere, Threads
  <2>2. counter \in Nat /\ \A b \in Bays : gen[b] \in Nat
    BY ZeroCheckAssumption DEF BookOK
  <2>3. ASSUME NEW v \in Workers, proc[v].at \in Registered
        PROVE  /\ proc[v].bay \in Bays /\ proc[v].token \in Nat
               /\ proc[v].token <= gen[proc[v].bay]
               /\ proc[v].event => proc[v].token # gen[proc[v].bay]
               /\ running[proc[v].bay] = v
    BY <2>3
       DEF TokenInv, PlacesInv, AtBay, OneReaderPerBay, ProcOK, Locals,
           Threads
  <2>4. /\ counter' \in Nat
        /\ \A a \in Bays : /\ gen'[a] \in Nat /\ gen'[a] <= counter'
                           /\ gen'[a] = gen[a] \/ gen'[a] = counter + 1
    <3>1. CASE UNCHANGED <<gen, counter>>
      BY <2>2, <3>1 DEF TokenInv
    <3>2. ASSUME NEW b \in Bays, NewToken(b)
          PROVE  /\ counter' \in Nat
                 /\ \A a \in Bays : /\ gen'[a] \in Nat /\ gen'[a] <= counter'
                                    /\ gen'[a] = gen[a] \/ gen'[a] = counter + 1
      BY <2>2, <3>2 DEF NewToken, TokenInv
    <3> QED
      BY <1>1, <3>1, <3>2 DEF Aside, TokensGrow
  <2>5. ASSUME NEW v \in Workers, proc[v].at \in Registered
        PROVE  /\ proc[v].token <= gen'[proc[v].bay]
               /\ proc[v].token # gen[proc[v].bay]
                     => proc[v].token # gen'[proc[v].bay]
               /\ gen'[proc[v].bay] = counter + 1
                     => proc[v].token # gen'[proc[v].bay]
    <3>1. gen[proc[v].bay] <= counter
      BY <2>3, <2>5 DEF TokenInv
    <3> QED
      BY <2>2, <2>3, <2>4, <2>5, <3>1
  <2>6. ASSUME NEW v \in Workers, proc[v].at \in Registered,
               NEW c \in Threads, proc'[c].at = "signal", proc'[c].child = v
        PROVE  proc[v].token # gen'[proc[v].bay]
    <3>1. CASE c = p
      <4>1. proc'[c].bay \in Bays /\ NewToken(proc'[c].bay)
            /\ running[proc'[c].bay] = v
        BY <1>1, <2>6, <3>1 DEF Aside
      <4>2. proc[v].bay = proc'[c].bay
        BY <4>1 DEF OneReaderPerBay
      <4>3. gen'[proc[v].bay] = counter + 1
        BY <4>1, <4>2 DEF NewToken, BookOK
      <4> QED
        BY <2>5, <2>6, <4>3
    <3>2. CASE c # p
      <4>1. proc[c].at = "signal" /\ proc[c].child = v
        BY <1>1, <2>6, <3>2 DEF Aside
      <4> QED
        BY <2>5, <2>6, <4>1 DEF TokenInv
    <3> QED
      BY <3>1, <3>2
  <2>7. ASSUME NEW v \in Workers, proc'[v].at \in Registered
        PROVE  /\ proc'[v].token <= gen'[proc'[v].bay]
               /\ proc'[v].event => proc'[v].token # gen'[proc'[v].bay]
               /\ \A c \in Threads : proc'[c].at = "signal" /\ proc'[c].child = v
                     => proc'[v].token # gen'[proc'[v].bay]
    BY <2>1, <2>3, <2>5, <2>6, <2>7
  <2>8. \A a \in Bays : gen'[a] <= counter'
    BY <2>4
  <2> QED
    BY <2>7, <2>8 DEF TokenInv
<1>2. ASSUME NEW c \in Callers, SignalWorker(c)
      PROVE  TokenInv'
  BY <1>2, SignalEffect DEF TokenInv, Registered, Threads, SameBut, book
<1>3. ASSUME NEW w \in Workers, BeginRead(w) \/ FinishRead(w)
      PROVE  TokenInv'
  BY <1>3, ReadingEffect DEF TokenInv, Registered, Threads
<1>4. ASSUME NEW p \in Threads, AnnounceRunning(p)
      PROVE  TokenInv'
  BY <1>4, AnnounceEffect DEF TokenInv, Registered, Threads
<1>5. ASSUME NEW p \in Threads, Launch(p)
      PROVE  TokenInv'
  BY <1>5, LaunchEffect DEF TokenInv, Registered, Threads
<1>6. ASSUME NEW p \in Threads, NEW w \in Workers, CreateWorker(p, w)
      PROVE  TokenInv'
  <2>1. /\ proc'[w].bay \in Bays /\ proc'[w].token = gen[proc'[w].bay]
        /\ ~proc'[w].event /\ gen[proc'[w].bay] \in Nat
    BY <1>6, CreateEffect DEF BookOK
  <2>2. \A c \in Threads : ~(proc'[c].at = "signal" /\ proc'[c].child = w)
    BY <1>6, CreateEffect
  <2>3. ASSUME NEW v \in Workers \ {w}, proc'[v].at \in Registered
        PROVE  /\ proc'[v] = proc[v] /\ proc[v].at \in Registered
    BY <1>6, <2>3, CreateEffect DEF Registered, Threads
  <2>4. \A c \in Threads : proc'[c].at = "signal" => proc'[c] = proc[c]
    BY <1>6, CreateEffect
  <2>5. UNCHANGED <<gen, counter>>
    BY <1>6, CreateEffect
  <2> QED
    BY <2>1, <2>2, <2>3, <2>4, <2>5 DEF TokenInv
<1>7. ASSUME NEW w \in Workers, Leave(w)
      PROVE  TokenInv'
  BY <1>7, LeaveEffect DEF TokenInv, Registered, Threads, SameBut
<1>8. ASSUME NEW w \in Workers, Release(w)
      PROVE  TokenInv'
  BY <1>8, ReleaseEffect DEF TokenInv, Registered, Threads
<1>9. ASSUME NEW n \in Limits, SetConcurrency(n)
      PROVE  TokenInv'
  BY <1>9, SetConcurrencyEffect DEF TokenInv, Threads, SameBut, book
<1>10. CASE UNCHANGED vars
  BY <1>10 DEF vars, book, TokenInv
<1> QED
  BY <1>1, <1>2, <1>3, <1>4, <1>5, <1>6, <1>7, <1>8, <1>9, <1>10, Kinds

LEMMA EntriesFreshPreserved ==
    ASSUME BookOK, SemOK, ProcOK, PlacesInv, LaunchInv, EntriesFresh, [Next]_vars
    PROVE  EntriesFresh'
<1> DEFINE Fresh(b) == running[b] = Nobody /\ gen[b] # 0
           Once(q) == \A i, k \in DOMAIN q : q[i] = q[k] => i = k
<1>1. /\ \A i \in DOMAIN queue : queue[i] \in Bays /\ Fresh(queue[i])
      /\ Once(queue)
  BY DEF BookOK, EntriesFresh
<1>2. ASSUME \A i \in DOMAIN queue' : Fresh(queue[i])', Once(queue')
      PROVE  EntriesFresh'
  BY <1>2 DEF EntriesFresh
<1>3. ASSUME NEW p \in Threads, Aside(p)
      PROVE  EntriesFresh'
  <2>1. \A b \in Bays : gen[b] # 0 => gen'[b] # 0
    BY <1>3 DEF Aside, TokensGrow, NewToken, BookOK
  <2>2. \A b \in Bays : Fresh(b) => Fresh(b)'
    BY <1>3, <2>1 DEF Aside
  <2>3. CASE UNCHANGED queue
    BY <1>1, <1>2, <2>2, <2>3
  <2>4. ASSUME NEW b \in Bays, queue' = Without(b)
        PROVE  EntriesFresh'
    <3>1. PICK n \in Nat : \A i \in DOMAIN queue' :
             LET h == IF i < n THEN i ELSE i + 1
             IN  h \in DOMAIN queue /\ queue'[i] = queue[h]
      BY <2>4, WithoutEntries DEF BookOK
    <3>2. \A i \in DOMAIN queue' : Fresh(queue'[i])
      BY <1>1, <3>1
    <3>3. queue' \in Seq(Bays)
      BY <2>4, WithoutEntries DEF BookOK
    <3>4. Once(queue')
      <4>1. SUFFICES ASSUME NEW i \in DOMAIN queue', NEW k \in DOMAIN queue',
                            queue'[i] = queue'[k]
                     PROVE  i = k
        OBVIOUS
      <4>2. i \in Int /\ k \in Int
        BY <3>3
      <4>3. (IF i < n THEN i ELSE i + 1) = (IF k < n THEN k ELSE k + 1)
        BY <1>1, <3>1, <4>1
      <4> QED
        BY <4>2, <4>3
    <3>5. \A i \in DOMAIN queue' : queue'[i] \in Bays
      BY <3>3
    <3> QED
      BY <1>2, <2>2, <3>2, <3>4, <3>5
  <2>5. ASSUME NEW b \in Bays, NewToken(b), ~Duplicate(b),
               queue' = Append(queue, b)
        PROVE  EntriesFresh'
    <3>1. gen'[b] = counter + 1 /\ counter \in Nat
      BY <2>5 DEF NewToken, BookOK
    <3>2. running'[b] = Nobody /\ \A i \in DOMAIN queue : queue[i] # b
      BY <1>3, <2>5 DEF Aside, Duplicate, Queued
    <3>3. /\ queue' \in Seq(Bays) /\ Len(queue') = Len(queue) + 1
          /\ \A i \in 1..Len(queue) : queue'[i] = queue[i]
          /\ queue'[Len(queue) + 1] = b
      BY <2>5 DEF BookOK
    <3>4. /\ Len(queue) \in Nat /\ DOMAIN queue = 1..Len(queue)
          /\ DOMAIN queue' = 1..(Len(queue) + 1)
      BY <3>3
    <3>5. ASSUME NEW i \in DOMAIN queue'
          PROVE  Fresh(queue[i])'
      <4>1. CASE i = Len(queue) + 1
        BY <3>1, <3>2, <3>3, <4>1
      <4>2. CASE i \in 1..Len(queue)
        BY <1>1, <2>2, <3>3, <4>2
      <4> QED
        BY <3>4, <4>1, <4>2
    <3>6. Once(queue')
      <4>1. SUFFICES ASSUME NEW i \in DOMAIN queue', NEW k \in DOMAIN queue',
                            queue'[i] = queue'[k]
                     PROVE  i = k
        OBVIOUS
      <4>2. CASE i \in 1..Len(queue) /\ k \in 1..Len(queue)
        BY <1>1, <3>3, <4>1, <4>2
      <4>3. CASE i = Len(queue) + 1 \/ k = Len(queue) + 1
        BY <3>2, <3>3, <4>1, <4>3
      <4> QED
        BY <3>4, <4>2, <4>3
    <3> QED
      BY <1>2, <3>5, <3>6
  <2> QED
    BY <1>3, <2>3, <2>4, <2>5 DEF Aside, QueueMoves
<1>4. ASSUME NEW p \in Threads, NEW w \in Workers, CreateWorker(p, w)
      PROVE  EntriesFresh'
  <2>1. /\ queue # <<>> /\ queue' = Tail(queue)
        /\ running' = [running EXCEPT ![queue[1]] = w]
        /\ UNCHANGED gen
    BY <1>4, CreateEffect
  <2>2. /\ queue' \in Seq(Bays) /\ Len(queue') = Len(queue) - 1
        /\ \A i \in 1..Len(queue') : queue'[i] = queue[i + 1]
        /\ Len(queue) \in Nat \ {0}
        /\ DOMAIN queue = 1..Len(queue) /\ DOMAIN queue' = 1..(Len(queue) - 1)
    BY <2>1 DEF BookOK
  <2>3. ASSUME NEW i \in DOMAIN queue'
        PROVE  Fresh(queue[i])'
    <3>1. i + 1 \in DOMAIN queue /\ 1 \in DOMAIN queue /\ i + 1 # 1
          /\ queue'[i] = queue[i + 1]
      BY <2>2
    <3>2. queue[i + 1] # queue[1] /\ Fresh(queue[i + 1])
          /\ queue[i + 1] \in Bays
      BY <1>1, <3>1
    <3>3. running'[queue[i + 1]] = running[queue[i + 1]]
      BY <2>1, <3>2
    <3> QED
      BY <2>1, <3>2
  <2>4. Once(queue')
    <3>1. SUFFICES ASSUME NEW i \in DOMAIN queue', NEW k \in DOMAIN queue',
                          queue'[i] = queue'[k]
                   PROVE  i = k
      OBVIOUS
    <3>2. /\ i + 1 \in DOMAIN queue /\ queue'[i] = queue[i + 1] /\ i \in Int
          /\ k + 1 \in DOMAIN queue /\ queue'[k] = queue[k + 1] /\ k \in Int
      BY <2>2
    <3>3. i + 1 = k + 1
      BY <1>1, <3>1, <3>2
    <3> QED
      BY <3>2, <3>3
  <2> QED
    BY <1>2, <2>3, <2>4
<1>5. ASSUME NEW w \in Workers, Leave(w)
      PROVE  EntriesFresh'
  <2>1. /\ running' = [running EXCEPT ![proc[w].bay] = Nobody]
        /\ UNCHANGED <<queue, gen>>
    BY <1>5, LeaveEffect
  <2>2. \A b \in Bays : Fresh(b) => Fresh(b)'
    BY <2>1
  <2> QED
    BY <1>1, <1>2, <2>1
<1>6. CASE UNCHANGED <<queue, running, gen>>
  BY <1>6 DEF EntriesFresh
<1>7. ASSUME \/ \E c \in Callers : SignalWorker(c)
             \/ \E w \in Workers : BeginRead(w) \/ FinishRead(w) \/ Release(w)
             \/ \E p \in Threads : AnnounceRunning(p) \/ Launch(p)
             \/ \E n \in Limits : SetConcurrency(n)
             \/ UNCHANGED vars
      PROVE  UNCHANGED <<queue, running, gen>>
  BY <1>7, SignalEffect, ReadingEffect, ReleaseEffect, AnnounceEffect,
     LaunchEffect, SetConcurrencyEffect DEF vars, book
<1> QED
  BY <1>3, <1>4, <1>5, <1>6, <1>7, Kinds

(***************************************************************************)
(* The rest of the type invariant.                                         *)
(***************************************************************************)
LEMMA StatusPreserved ==
    ASSUME status \in [Bays -> Statuses], PlacesInv, [Next]_vars
    PROVE  status' \in [Bays -> Statuses]
<1>1. ASSUME NEW b, NEW t, NEW x \in Statuses, SetIfCurrent(b, t, x)
      PROVE  status' \in [Bays -> Statuses]
  BY <1>1 DEF SetIfCurrent
<1>2. {"absent", "queued", "running", "cancelled"} \cup Verdicts \subseteq Statuses
  BY DEF Statuses
<1>3. CASE UNCHANGED status
  BY <1>3
<1>4. ASSUME NEW c \in Callers, PublishQueued(c) \/ RecordCancelled(c)
      PROVE  status' \in [Bays -> Statuses]
  BY <1>1, <1>2, <1>4 DEF PublishQueued, RecordCancelled
<1>5. ASSUME NEW c \in Callers, NEW b \in Bays, Clear(c, b)
      PROVE  status' \in [Bays -> Statuses]
  BY <1>2, <1>5 DEF Clear
<1>6. ASSUME NEW w \in Workers, FinishRead(w)
      PROVE  status' \in [Bays -> Statuses]
  BY <1>1, <1>2, <1>6 DEF FinishRead
<1>7. ASSUME NEW p \in Threads, AnnounceRunning(p)
      PROVE  status' \in [Bays -> Statuses]
  BY <1>1, <1>2, <1>7 DEF AnnounceRunning
<1>8. [Next]_vars => \/ UNCHANGED status
                     \/ \E c \in Callers : PublishQueued(c) \/ RecordCancelled(c)
                     \/ \E c \in Callers, b \in Bays : Clear(c, b)
                     \/ \E w \in Workers : FinishRead(w)
                     \/ \E p \in Threads : AnnounceRunning(p)
  BY DEF Next, Proceed, WorkerStep, ProcessQueue, FindEligible, Cancel,
         StartCheck, SignalWorker, JoinWorker, JoinRaises, BeginRead, Leave,
         Release, Drained, CreateWorker, Launch, SetConcurrency, vars, book,
         Threads
<1> QED
  BY <1>4, <1>5, <1>6, <1>7, <1>8

LEMMA BookOKPreserved ==
    ASSUME TypeOK, PlacesInv, LaunchInv, [Next]_vars
    PROVE  BookOK'
<1>1. /\ BookOK /\ SemOK /\ ProcOK
      /\ status' \in [Bays -> Statuses]
  BY StatusPreserved DEF TypeOK, BookOK
<1>2. ASSUME UNCHANGED <<queue, gen, counter>>,
             \/ UNCHANGED running
             \/ \E b, v : /\ v \in Workers \cup {Nobody}
                          /\ running' = [running EXCEPT ![b] = v]
      PROVE  BookOK'
  BY <1>1, <1>2 DEF BookOK
<1>3. ASSUME NEW p \in Threads, Aside(p)
      PROVE  BookOK'
  <2>1. queue' \in Seq(Bays)
    <3>1. \A b \in Bays : Without(b) \in Seq(Bays) /\ Append(queue, b) \in Seq(Bays)
      BY <1>1, WithoutEntries DEF BookOK
    <3> QED
      BY <1>1, <1>3, <3>1 DEF Aside, QueueMoves, BookOK
  <2>2. gen' \in [Bays -> 0..MaxTokens] /\ counter' \in 0..MaxTokens
    <3>1. CASE UNCHANGED <<gen, counter>>
      BY <1>1, <3>1 DEF BookOK
    <3>2. ASSUME NEW b \in Bays, NewToken(b)
          PROVE  gen' \in [Bays -> 0..MaxTokens] /\ counter' \in 0..MaxTokens
      <4>1. counter + 1 \in 0..MaxTokens
        BY <1>1, <3>2, ZeroCheckAssumption DEF NewToken, BookOK
      <4> QED
        BY <1>1, <3>2, <4>1 DEF NewToken, BookOK
    <3> QED
      BY <1>3, <3>1, <3>2 DEF Aside, TokensGrow
  <2> QED
    BY <1>1, <1>3, <2>1, <2>2 DEF Aside, BookOK
<1>4. ASSUME NEW p \in Threads, NEW w \in Workers, CreateWorker(p, w)
      PROVE  BookOK'
  <2>1. /\ queue # <<>> /\ queue' = Tail(queue)
        /\ running' = [running EXCEPT ![Head(queue)] = w]
        /\ UNCHANGED <<gen, counter>>
    BY <1>1, <1>4, CreateEffect
  <2> QED
    BY <1>1, <2>1 DEF BookOK
<1>5. ASSUME NEW w \in Workers, Leave(w)
      PROVE  BookOK'
  <2>1. running' = [running EXCEPT ![proc[w].bay] = Nobody]
        /\ UNCHANGED <<queue, gen, counter>>
    BY <1>5 DEF Leave
  <2> QED
    BY <1>2, <2>1
<1>6. ASSUME NEW c \in Callers, SignalWorker(c)
      PROVE  BookOK'
  BY <1>2, <1>6 DEF SignalWorker, book
<1>7. ASSUME NEW w \in Workers, BeginRead(w) \/ FinishRead(w)
      PROVE  BookOK'
  BY <1>2, <1>7 DEF BeginRead, FinishRead, book
<1>8. ASSUME NEW p \in Threads, AnnounceRunning(p) \/ Launch(p)
      PROVE  BookOK'
  BY <1>2, <1>8 DEF AnnounceRunning, Launch, book
<1>9. ASSUME NEW w \in Workers, Release(w)
      PROVE  BookOK'
  BY <1>2, <1>9 DEF Release, book
<1>10. ASSUME NEW n \in Limits, SetConcurrency(n)
      PROVE  BookOK'
  BY <1>2, <1>10 DEF SetConcurrency, book
<1>11. CASE UNCHANGED vars
  BY <1>2, <1>11 DEF vars, book
<1> QED
  BY <1>1, <1>3, <1>4, <1>5, <1>6, <1>7, <1>8, <1>9, <1>10, <1>11, Kinds

LEMMA SemOKPreserved ==
    ASSUME TypeOK, [Next]_vars
    PROVE  SemOK'
<1>1. ASSUME NEW c \in Callers, NEW b \in Bays, FindEligible(c, b)
      PROVE  SemOK'
  BY <1>1 DEF FindEligible, sem, TypeOK, SemOK
<1>2. ASSUME NEW c \in Callers, NEW b \in Bays, Clear(c, b)
      PROVE  SemOK'
  BY <1>2 DEF Clear, sem, TypeOK, SemOK
<1>3. ASSUME NEW c \in Callers, NEW b \in Bays,
             NEW op \in {"cancel", "wipe"}, Cancel(c, b, op)
      PROVE  SemOK'
  BY <1>3 DEF Cancel, sem, TypeOK, SemOK
<1>4. ASSUME NEW c \in Callers, StartCheck(c)
      PROVE  SemOK'
  BY <1>4 DEF StartCheck, sem, TypeOK, SemOK
<1>5. ASSUME NEW c \in Callers, PublishQueued(c)
      PROVE  SemOK'
  BY <1>5 DEF PublishQueued, sem, TypeOK, SemOK
<1>6. ASSUME NEW c \in Callers, SignalWorker(c)
      PROVE  SemOK'
  BY <1>6 DEF SignalWorker, sem, TypeOK, SemOK
<1>7. ASSUME NEW c \in Callers, JoinWorker(c)
      PROVE  SemOK'
  BY <1>7 DEF JoinWorker, sem, TypeOK, SemOK
<1>8. ASSUME NEW c \in Callers, JoinRaises(c)
      PROVE  SemOK'
  BY <1>8 DEF JoinRaises, sem, TypeOK, SemOK
<1>9. ASSUME NEW c \in Callers, RecordCancelled(c)
      PROVE  SemOK'
  BY <1>9 DEF RecordCancelled, sem, TypeOK, SemOK
<1>10. ASSUME NEW w \in Workers, BeginRead(w)
      PROVE  SemOK'
  BY <1>10 DEF BeginRead, sem, TypeOK, SemOK
<1>11. ASSUME NEW w \in Workers, FinishRead(w)
      PROVE  SemOK'
  BY <1>11 DEF FinishRead, sem, TypeOK, SemOK
<1>12. ASSUME NEW w \in Workers, Leave(w)
      PROVE  SemOK'
  BY <1>12, ZeroCheckAssumption DEF Leave, NewSemaphore, TypeOK, SemOK
<1>13. ASSUME NEW w \in Workers, Release(w)
      PROVE  SemOK'
  BY <1>13 DEF Release, TypeOK, SemOK
<1>14. ASSUME NEW p \in Threads, Drained(p)
      PROVE  SemOK'
  BY <1>14 DEF Drained, sem, TypeOK, SemOK
<1>15. ASSUME NEW p \in Threads, NEW w \in Workers, CreateWorker(p, w)
      PROVE  SemOK'
  BY <1>15 DEF CreateWorker, NothingToRun, TypeOK, SemOK
<1>16. ASSUME NEW p \in Threads, AnnounceRunning(p)
      PROVE  SemOK'
  BY <1>16 DEF AnnounceRunning, sem, TypeOK, SemOK
<1>17. ASSUME NEW p \in Threads, Launch(p)
      PROVE  SemOK'
  BY <1>17 DEF Launch, sem, TypeOK, SemOK
<1>18. ASSUME NEW n \in Limits, SetConcurrency(n)
      PROVE  SemOK'
  BY <1>18, ZeroCheckAssumption
     DEF SetConcurrency, NewSemaphore, TypeOK, SemOK
<1>19. CASE UNCHANGED vars
  BY <1>19 DEF vars, sem, TypeOK, SemOK
<1> QED
  BY <1>1, <1>2, <1>3, <1>4, <1>5, <1>6, <1>7, <1>8, <1>9, <1>10, <1>11,
     <1>12, <1>13, <1>14, <1>15, <1>16, <1>17, <1>18, <1>19
     DEF Next, Proceed, WorkerStep, ProcessQueue, Threads

LEMMA PastOKPreserved ==
    ASSUME TypeOK, PlacesInv, [Next]_vars
    PROVE  PastOK'
<1>1. ASSUME NEW c \in Callers, NEW b \in Bays, FindEligible(c, b)
      PROVE  PastOK'
  BY <1>1 DEF FindEligible, past, TypeOK, PastOK
<1>2. ASSUME NEW c \in Callers, NEW b \in Bays, Clear(c, b)
      PROVE  PastOK'
  BY <1>2 DEF Clear, TypeOK, PastOK
<1>3. ASSUME NEW c \in Callers, NEW b \in Bays,
             NEW op \in {"cancel", "wipe"}, Cancel(c, b, op)
      PROVE  PastOK'
  BY <1>3 DEF Cancel, WipeGoesOn, TypeOK, PastOK
<1>4. ASSUME NEW c \in Callers, StartCheck(c)
      PROVE  PastOK'
  BY <1>4 DEF StartCheck, TypeOK, PastOK
<1>5. ASSUME NEW c \in Callers, PublishQueued(c)
      PROVE  PastOK'
  BY <1>5 DEF PublishQueued, past, TypeOK, PastOK
<1>6. ASSUME NEW c \in Callers, SignalWorker(c)
      PROVE  PastOK'
  BY <1>6 DEF SignalWorker, past, TypeOK, PastOK
<1>7. ASSUME NEW c \in Callers, JoinWorker(c)
      PROVE  PastOK'
  BY <1>7, ZeroCheckAssumption DEF JoinWorker, TypeOK, PastOK
<1>8. ASSUME NEW c \in Callers, JoinRaises(c)
      PROVE  PastOK'
  BY <1>8
     DEF JoinRaises, WipeGoesOn, TypeOK, PastOK, PlacesInv, AtBay, Threads
<1>9. ASSUME NEW c \in Callers, RecordCancelled(c)
      PROVE  PastOK'
  BY <1>9
     DEF RecordCancelled, WipeGoesOn, TypeOK, PastOK, PlacesInv, AtBay,
         Threads
<1>10. ASSUME NEW w \in Workers, BeginRead(w)
      PROVE  PastOK'
  BY <1>10 DEF BeginRead, past, TypeOK, PastOK
<1>11. ASSUME NEW w \in Workers, FinishRead(w)
      PROVE  PastOK'
  BY <1>11 DEF FinishRead, past, TypeOK, PastOK
<1>12. ASSUME NEW w \in Workers, Leave(w)
      PROVE  PastOK'
  BY <1>12 DEF Leave, past, TypeOK, PastOK
<1>13. ASSUME NEW w \in Workers, Release(w)
      PROVE  PastOK'
  BY <1>13 DEF Release, past, TypeOK, PastOK
<1>14. ASSUME NEW p \in Threads, Drained(p)
      PROVE  PastOK'
  BY <1>14 DEF Drained, past, TypeOK, PastOK
<1>15. ASSUME NEW p \in Threads, NEW w \in Workers, CreateWorker(p, w)
      PROVE  PastOK'
  BY <1>15 DEF CreateWorker, past, TypeOK, PastOK
<1>16. ASSUME NEW p \in Threads, AnnounceRunning(p)
      PROVE  PastOK'
  BY <1>16 DEF AnnounceRunning, past, TypeOK, PastOK
<1>17. ASSUME NEW p \in Threads, Launch(p)
      PROVE  PastOK'
  BY <1>17 DEF Launch, past, TypeOK, PastOK
<1>18. ASSUME NEW n \in Limits, SetConcurrency(n)
      PROVE  PastOK'
  BY <1>18 DEF SetConcurrency, past, TypeOK, PastOK
<1>19. CASE UNCHANGED vars
  BY <1>19 DEF vars, past, TypeOK, PastOK
<1> QED
  BY <1>1, <1>2, <1>3, <1>4, <1>5, <1>6, <1>7, <1>8, <1>9, <1>10, <1>11,
     <1>12, <1>13, <1>14, <1>15, <1>16, <1>17, <1>18, <1>19
     DEF Next, Proceed, WorkerStep, ProcessQueue, Threads

(***************************************************************************)
(* The permits.                                                            *)
(***************************************************************************)
Holders == {w \in Workers : proc[w].mine}

LEMMA HoldersFinite == IsFiniteSet(Holders) /\ Cardinality(Holders) \in Nat
BY ZeroCheckAssumption, FS_Subset, FS_CardinalityType DEF Holders

LEMMA SlotsKeptPreserved ==
    ASSUME TypeOK, PlacesInv, LaunchInv, PermitInv, SlotsKept, [Next]_vars
    PROVE  SlotsKept'
<1>0. BookOK /\ SemOK /\ ProcOK
  BY DEF TypeOK
<1>1. permits + Cardinality(Holders) = capacity
  BY DEF SlotsKept, Holders
<1>2. ASSUME Holders' = Holders, UNCHANGED <<capacity, permits>>
      PROVE  SlotsKept'
  BY <1>2 DEF SlotsKept, Holders
<1>3. ASSUME \A q \in Threads : proc'[q].mine = proc[q].mine,
             UNCHANGED <<capacity, permits>>
      PROVE  SlotsKept'
  <2>1. Holders' = Holders
    BY <1>3 DEF Holders, Threads
  <2> QED
    BY <1>2, <1>3, <2>1
<1>4. CASE SemaphoreReplaced
  <2>1. Holders' = {}
    BY <1>4 DEF SemaphoreReplaced, Holders, Threads
  <2>2. capacity' \in Nat
    <3>1. SemOK'
      BY SemOKPreserved
    <3> QED
      BY <3>1, ZeroCheckAssumption DEF SemOK
  <2>3. permits' + Cardinality(Holders') = capacity'
    BY <1>4, <2>1, <2>2, FS_EmptySet DEF SemaphoreReplaced
  <2> QED
    BY <2>3 DEF SlotsKept, Holders
<1>5. ASSUME NEW p \in Threads, Aside(p)
      PROVE  SlotsKept'
  <2>1. p \in Workers => ~proc[p].mine
    BY <1>5 DEF Aside, Elsewhere, PermitInv
  <2>2. Holders' = Holders
    BY <1>5, <2>1 DEF Aside, Holders, Threads
  <2> QED
    BY <1>2, <1>5, <2>2 DEF Aside
<1>6. ASSUME NEW p \in Threads, NEW w \in Workers, CreateWorker(p, w)
      PROVE  SlotsKept'
  <2>1. /\ permits' = permits - 1 /\ capacity' = capacity
        /\ proc'[p].mine = proc[p].mine
        /\ proc'[w].mine /\ proc[w].at = "idle"
        /\ \A q \in Threads \ {p, w} : proc'[q] = proc[q]
    BY <1>6, <1>0, CreateEffect
  <2>2. w \notin Holders
    BY <2>1 DEF PermitInv, Registered, Holders
  <2>3. Holders' = Holders \cup {w}
    BY <2>1 DEF Holders, Threads
  <2>4. Cardinality(Holders') = Cardinality(Holders) + 1
    BY <2>2, <2>3, HoldersFinite, FS_AddElement
  <2>5. permits' + Cardinality(Holders') = capacity'
    BY <1>0, <1>1, <2>1, <2>4, HoldersFinite DEF SemOK
  <2> QED
    BY <2>5 DEF SlotsKept, Holders
<1>7. ASSUME NEW w \in Workers, Release(w)
      PROVE  SlotsKept'
  <2>1. /\ ~proc'[w].mine
        /\ \A q \in Threads \ {w} : proc'[q] = proc[q]
        /\ permits' = IF proc[w].mine THEN permits + 1 ELSE permits
        /\ capacity' = capacity
    BY <1>7, <1>0, ReleaseEffect
  <2>2. Holders' = Holders \ {w} /\ (proc[w].mine <=> w \in Holders)
    BY <2>1 DEF Holders, Threads
  <2>3. permits' + Cardinality(Holders') = capacity'
    <3>1. CASE proc[w].mine
      <4>1. Cardinality(Holders') = Cardinality(Holders) - 1
        BY <2>2, <3>1, HoldersFinite, FS_RemoveElement
      <4>2. permits' = permits + 1
        BY <2>1, <3>1
      <4> QED
        BY <1>0, <1>1, <2>1, <4>1, <4>2, HoldersFinite DEF SemOK
    <3>2. CASE ~proc[w].mine
      <4>1. Holders' = Holders
        BY <2>2, <3>2
      <4> QED
        BY <1>1, <2>1, <3>2, <4>1
    <3> QED
      BY <3>1, <3>2
  <2> QED
    BY <2>3 DEF SlotsKept, Holders
<1>8. ASSUME NEW c \in Callers, SignalWorker(c)
      PROVE  SlotsKept'
  BY <1>3, <1>8, <1>0, SignalEffect DEF sem
<1>9. ASSUME NEW w \in Workers, BeginRead(w) \/ FinishRead(w)
      PROVE  SlotsKept'
  BY <1>3, <1>9, <1>0, ReadingEffect
<1>10. ASSUME NEW p \in Threads, AnnounceRunning(p)
       PROVE  SlotsKept'
  BY <1>3, <1>10, <1>0, AnnounceEffect
<1>11. ASSUME NEW p \in Threads, Launch(p)
       PROVE  SlotsKept'
  BY <1>3, <1>11, <1>0, LaunchEffect
<1>12. ASSUME NEW w \in Workers, Leave(w)
       PROVE  SlotsKept'
  BY <1>3, <1>4, <1>12, <1>0, LeaveEffect DEF SemaphoreKept
<1>13. ASSUME NEW n \in Limits, SetConcurrency(n)
       PROVE  SlotsKept'
  BY <1>3, <1>4, <1>13, <1>0, SetConcurrencyEffect DEF SemaphoreKept
<1>14. CASE UNCHANGED vars
  BY <1>3, <1>14 DEF vars, sem
<1> QED
  BY <1>5, <1>6, <1>7, <1>8, <1>9, <1>10, <1>11, <1>12, <1>13, <1>14, <1>0,
     Kinds

(***************************************************************************)
(* The theorems.                                                           *)
(***************************************************************************)
LEMMA InitIInv == Init => IInv
<1> SUFFICES ASSUME Init
             PROVE  IInv
  OBVIOUS
<1>1. \A p \in Threads : proc[p] = Resting
  BY DEF Init, Threads
<1>2. TypeOK
  <2>1. BookOK
    BY ZeroCheckAssumption DEF Init, BookOK, Statuses
  <2>2. SemOK
    <3>1. PICK n \in Limits : limit = n /\ capacity = n /\ permits = n
      BY DEF Init
    <3> QED
      BY <3>1, ZeroCheckAssumption DEF SemOK
  <2>4. PastOK
    <3>1. timeouts \in 0..MaxTimeouts
      BY ZeroCheckAssumption DEF Init
    <3> QED
      BY <3>1 DEF Init, PastOK
  <2>3. ProcOK
    BY RestingTyped DEF Init, ProcOK
  <2> QED
    BY <2>1, <2>2, <2>3, <2>4 DEF TypeOK
<1>3. PlacesInv /\ PermitInv /\ LaunchInv /\ OneReaderPerBay
  BY ZeroCheckAssumption
     DEF Init, Resting, PlacesInv, AtBay, AtChild, PermitInv, LaunchInv,
         OneReaderPerBay, Registered, Threads
<1>4. SlotsKept
  <2>1. Holders = {}
    BY <1>1 DEF Holders, Resting, Threads
  <2>2. permits + Cardinality(Holders) = capacity
    BY <1>2, <2>1, FS_EmptySet DEF Init, TypeOK, SemOK
  <2> QED
    BY <2>2 DEF SlotsKept, Holders
<1>5. EntriesFresh
  BY DEF Init, EntriesFresh
<1>6. TokenInv
  BY <1>1 DEF Init, TokenInv, Resting, Registered
<1> QED
  BY <1>2, <1>3, <1>4, <1>5, <1>6 DEF IInv

LEMMA IInvPreserved == IInv /\ [Next]_vars => IInv'
<1> SUFFICES ASSUME IInv, [Next]_vars
             PROVE  IInv'
  OBVIOUS
<1>1. /\ TypeOK /\ PlacesInv /\ PermitInv /\ LaunchInv
      /\ SlotsKept /\ OneReaderPerBay /\ EntriesFresh /\ TokenInv
      /\ BookOK /\ SemOK /\ PastOK /\ ProcOK
  BY DEF IInv, TypeOK
<1>2. TypeOK'
  BY <1>1, BookOKPreserved, SemOKPreserved, PastOKPreserved, ProcOKPreserved
     DEF TypeOK
<1>3. PlacesInv' /\ PermitInv' /\ LaunchInv'
  BY <1>1, PlacesInvPreserved, PermitInvPreserved, LaunchInvPreserved
<1>4. SlotsKept' /\ OneReaderPerBay' /\ EntriesFresh' /\ TokenInv'
  BY <1>1, SlotsKeptPreserved, OneReaderPerBayPreserved,
     EntriesFreshPreserved, TokenInvPreserved
<1> QED
  BY <1>2, <1>3, <1>4 DEF IInv

LEMMA Invariance == Spec => []IInv
BY InitIInv, IInvPreserved, PTL DEF Spec

\* Every variable of the manager and every local of a thread keeps its type:
\* the book of queue, workers, statuses and tokens, the semaphore, the places.
THEOREM TypeCorrect == Spec => []TypeOK
<1>1. IInv => TypeOK
  BY DEF IInv
<1> QED
  BY <1>1, Invariance, PTL

\* The semaphore that replaces another one starts with all its permits and
\* loses none: what is not free is held by a worker that will release it here
\* (_worker's finally clause, set_concurrency).
THEOREM PermitsAccounted == Spec => []SlotsKept
<1>1. IInv => SlotsKept
  BY DEF IInv
<1> QED
  BY <1>1, Invariance, PTL

\* _running and the worker threads agree: one worker per bay, and the finally
\* clause of a worker unregisters nobody else.
THEOREM OneReader == Spec => []OneReaderPerBay
<1>1. IInv => OneReaderPerBay
  BY DEF IInv
<1> QED
  BY <1>1, Invariance, PTL

\* What _process_queue would drop (an entry whose bay is being read or whose
\* token is gone) is never queued.
THEOREM QueueFresh == Spec => []EntriesFresh
<1>1. IInv => EntriesFresh
  BY DEF IInv
<1> QED
  BY <1>1, Invariance, PTL

\* However the limit changes while checks run, the checks registered never
\* exceed the capacity of the semaphore that admitted them: the bays being
\* read inject into the workers that hold a permit.
THEOREM LimitHolds == Spec => []LimitKept
<1>1. ASSUME IInv
      PROVE  LimitKept
  <2> DEFINE Busy == {b \in Bays : running[b] # Nobody}
             f == [b \in Busy |-> running[b]]
  <2>1. ASSUME NEW b \in Busy
        PROVE  running[b] \in Holders
    BY <1>1 DEF IInv, TypeOK, BookOK, OneReaderPerBay, PermitInv, Holders
  <2>2. ASSUME NEW a \in Busy, NEW b \in Busy, running[a] = running[b]
        PROVE  a = b
    BY <1>1, <2>1, <2>2 DEF IInv, OneReaderPerBay, Holders
  <2>3. f \in Injection(Busy, Holders)
    BY <2>1, <2>2 DEF Injection, IsInjective
  <2>4. Cardinality(Busy) <= Cardinality(Holders) /\ IsFiniteSet(Busy)
    BY <2>3, HoldersFinite, FS_Injection
  <2>5. Cardinality(Busy) \in Nat
    BY <2>4, FS_CardinalityType
  <2>6. /\ permits + Cardinality(Holders) = capacity
        /\ permits \in Nat /\ capacity \in Nat
    BY <1>1, ZeroCheckAssumption DEF IInv, SlotsKept, Holders, TypeOK, SemOK
  <2>7. Cardinality(Busy) <= capacity
    BY <2>4, <2>5, <2>6, HoldersFinite
  <2> QED
    BY <2>7 DEF LimitKept
<1> QED
  BY <1>1, Invariance, PTL

\* A verdict is published only by the registered worker of its bay, and never
\* by one that cancel_check or clear_state has signalled: its token is past.
THEOREM CancelledChecksSilent == Spec => CancelledNeverReports
<1>1. ASSUME IInv, [Next]_vars, NEW b \in Bays,
             status'[b] # status[b], status'[b] \in Verdicts
      PROVE  running[b] # Nobody /\ ~proc[running[b]].event
  <2>1. status \in [Bays -> Statuses]
    BY <1>1 DEF IInv, TypeOK, BookOK
  <2>2. PICK w \in Workers : FinishRead(w)
    <3>1. ASSUME NEW a, NEW t, NEW x \in {"absent", "queued", "running", "cancelled"},
                 SetIfCurrent(a, t, x) \/ status' = [status EXCEPT ![a] = x]
          PROVE  FALSE
      BY <1>1, <2>1, <3>1 DEF SetIfCurrent, Verdicts
    <3>2. status' # status
      BY <1>1
    <3> QED
      BY <1>1, <3>1, <3>2
         DEF Next, Proceed, WorkerStep, ProcessQueue, FindEligible, Clear,
             Cancel, StartCheck, PublishQueued, SignalWorker, JoinWorker,
             JoinRaises, RecordCancelled, BeginRead, Leave, Release, Drained,
             CreateWorker, AnnounceRunning, Launch, SetConcurrency, vars, book
  <2>3. proc[w].at = "reading" /\ gen[b] = proc[w].token /\ proc[w].bay = b
    BY <1>1, <2>2 DEF FinishRead, SetIfCurrent
  <2>4. running[b] = w /\ ~proc[w].event
    BY <1>1, <2>3 DEF IInv, OneReaderPerBay, TokenInv, Registered
  <2> QED
    BY <2>4, ZeroCheckAssumption
<1>2. IInv /\ [Next]_vars =>
        [\A b \in Bays :
           status'[b] # status[b] /\ status'[b] \in Verdicts =>
              running[b] # Nobody /\ ~proc[running[b]].event]_vars
  BY <1>1
<1> QED
  BY <1>2, Invariance, PTL DEF Spec, CancelledNeverReports
=============================================================================
