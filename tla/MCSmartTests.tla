---------------------------- MODULE MCSmartTests ----------------------------
(* Finite instances of SmartTests. *)
EXTENDS SmartTests

CONSTANTS q1, q2, c1

(* The requests are alike, so the first to begin may be called q1. *)
FirstComes == req[q2].at # "idle" => req[q1].at # "idle"
=============================================================================
