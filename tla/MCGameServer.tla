---------------------------- MODULE MCGameServer ----------------------------
(* Small instances of GameServer for TLC. *)
EXTENDS GameServer, TLC

Symmetry == Permutations(Players) \cup Permutations(MatchIDs)
=============================================================================
