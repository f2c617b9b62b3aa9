---------------------------- MODULE MCEraseJobs ----------------------------
(* Finite instances of EraseJobs. *)
EXTENDS EraseJobs

CONSTANTS d1, d2, j1, j2, r1, r2

Plain(d)      == [dev |-> d, firmware |-> FALSE, overridden |-> FALSE]
Firmware(d)   == [dev |-> d, firmware |-> TRUE, overridden |-> FALSE]
Overridden(d) == [dev |-> d, firmware |-> TRUE, overridden |-> TRUE]

\* One wipe of each kind, alone.
SingleBatches == {<<Plain(d1)>>, <<Firmware(d1)>>, <<Overridden(d1)>>}

\* One wipe of firmware kind, alone.
FirmwareBatches == {<<Firmware(d1)>>}

\* Two bays in one request.
PairBatches == {<<Plain(d1), Firmware(d2)>>}
=============================================================================
