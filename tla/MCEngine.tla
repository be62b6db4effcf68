------------------------------ MODULE MCEngine ------------------------------
(* Small instances of Engine for TLC. *)
EXTENDS Engine, TLC

\* Roster members play by the same rules, and so do strangers.
PlayerSymmetry ==
  Permutations(Roster) \cup Permutations(PlayerIDs \ Roster)
=============================================================================
