----------------------------- MODULE MCBulkCert -----------------------------
(* Finite instances of BulkCert. *)
EXTENDS BulkCert

CONSTANTS b1, b2, t1, t2

N(job, form) == [job |-> job, form |-> form]

(* Both names of one job, a name with blanks, a job that is not completed, *)
(* and a name twice among too many.                                        *)
MCLists ==
    {<<N(t1, "id"), N(t1, "friendly")>>, <<N(t1, "blanks")>>,
     <<N(t2, "id")>>, <<N(t1, "id"), N(t1, "friendly"), N(t1, "id")>>}
=============================================================================
