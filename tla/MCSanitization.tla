--------------------------- MODULE MCSanitization ---------------------------
(* Small instances of Sanitization for TLC. *)
EXTENDS Sanitization
=============================================================================
