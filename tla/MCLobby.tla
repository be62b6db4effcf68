------------------------------ MODULE MCLobby ------------------------------
(* A small instance of Lobby for TLC. *)
EXTENDS Lobby
=============================================================================
