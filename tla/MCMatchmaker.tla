---------------------------- MODULE MCMatchmaker ----------------------------
(* Small instances of Matchmaker for TLC. *)
EXTENDS Matchmaker

Symmetry == Permutations(Players) \cup Permutations(Instances)
=============================================================================
