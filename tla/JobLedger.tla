----------------------------- MODULE JobLedger -----------------------------
(***************************************************************************)
(* What the erase_jobs table promises a reader of the job history: a row   *)
(* advances from queued to running to one verdict, a completed row is      *)
(* final, and a job withdrawn from the server's memory (cancelled, killed, *)
(* swept, or lost with the process) never gets further than failed.  The   *)
(* one blemish is kept: the request that accepted a job may write it as    *)
(* queued after it was withdrawn, and a later repair closes it again.      *)
(***************************************************************************)
CONSTANT Jobs

VARIABLES
    ledger,    \* status of each job's row
    withdrawn  \* jobs the server no longer works on

vars == <<ledger, withdrawn>>

Open     == {"queued", "running"}
Verdicts == {"completed", "failed", "interrupted"}

Init ==
    /\ ledger = [j \in Jobs |-> "absent"]
    /\ withdrawn = {}

Advance(j, from, to) ==
    /\ ledger[j] = from
    /\ ledger' = [ledger EXCEPT ![j] = to]
    /\ UNCHANGED withdrawn

Enter(j)    == j \notin withdrawn /\ Advance(j, "absent", "queued")
Start(j)    == j \notin withdrawn /\ Advance(j, "queued", "running")
Conclude(j) == j \notin withdrawn /\ \E v \in Verdicts : Advance(j, "running", v)
Close(j)    == j \in withdrawn /\ \E s \in Open : Advance(j, s, "failed")
Reopen(j)   == j \in withdrawn /\ Advance(j, "failed", "queued")

\* Jobs leave the server's hands, each row as it is or failed on the way out.
Withdraw(js) ==
    /\ js # {}
    /\ withdrawn' = withdrawn \cup js
    /\ \E refused \in SUBSET {j \in js : ledger[j] \in Open \cup {"absent"}} :
          ledger' = [j \in Jobs |->
                        IF j \in refused THEN "failed" ELSE ledger[j]]

Next ==
    \/ \E j \in Jobs : Enter(j) \/ Start(j) \/ Conclude(j) \/ Close(j) \/ Reopen(j)
    \/ \E js \in SUBSET (Jobs \ withdrawn) : Withdraw(js)

Spec == Init /\ [][Next]_vars
=============================================================================
