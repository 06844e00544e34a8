---------------------------- MODULE MCUsageMeter ----------------------------
(* Small instances of UsageMeter for TLC. *)
EXTENDS UsageMeter, TLC

Symmetry == Permutations(Requests) \cup Permutations(Patchers)
=============================================================================
