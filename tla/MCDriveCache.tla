---------------------------- MODULE MCDriveCache ----------------------------
(* Finite instances of DriveCache. *)
EXTENDS DriveCache

CONSTANTS x, c1
=============================================================================
