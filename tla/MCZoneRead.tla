----------------------------- MODULE MCZoneRead -----------------------------
(* Small instances of ZoneRead for TLC. *)
EXTENDS ZoneRead

(* In sectors: up to the small drives' limit, just above it, where zones   *)
(* overlap, and with and without an odd sector at the end.                 *)
SomeCapacities == {3, 4, 5, 9, 14, 15}
=============================================================================
