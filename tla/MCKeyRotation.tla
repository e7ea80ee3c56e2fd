---------------------------- MODULE MCKeyRotation ----------------------------
(* Small instances of KeyRotation for TLC. *)
EXTENDS KeyRotation, TLC

Symmetry == Permutations(Rows) \cup Permutations(Values)
    \cup Permutations(Params) \cup Permutations(Processes)
=============================================================================
