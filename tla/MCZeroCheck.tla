---------------------------- MODULE MCZeroCheck ----------------------------
(* Finite instances of ZeroCheck. *)
EXTENDS ZeroCheck, TLC

CONSTANTS b1, b2, c1, c2, w1, w2, w3

Symmetry == Permutations(Bays) \cup Permutations(Callers) \cup Permutations(Workers)
=============================================================================
