----------------------------- MODULE Attendance -----------------------------
(***************************************************************************)
(* What the sockets and an engine agree on: which connections have joined  *)
(* a match and which of them it broadcasts to.  The sockets (GameServer)   *)
(* promise that a connection joins before it leaves, and leaves once; the  *)
(* engine (Engine) keeps one connection per player.  Both implement this,  *)
(* so what is checked of an engine under such connections holds of the     *)
(* engines of an instance.                                                 *)
(***************************************************************************)
EXTENDS Functions

CONSTANT Conns           \* pairs of a player and a number

VARIABLES
  roster,    \* players the match is for, fixed before anybody joins
  clients,   \* player -> the connection the engine broadcasts to
  joined     \* connections between their Join and their Leave

vars == <<roster, clients, joined>>

Init ==
  /\ DOMAIN clients = {}
  /\ joined = {}

Create ==
  /\ joined = {}
  /\ DOMAIN clients' = {}
  /\ joined' = {}

\* The connection takes the place of any other of its player.
Join(c) ==
  /\ c \notin joined
  /\ c[1] \in roster
  /\ clients' = [p \in DOMAIN clients \cup {c[1]} |->
                   IF p = c[1] THEN c ELSE clients[p]]
  /\ joined' = joined \cup {c}
  /\ UNCHANGED roster

\* The player is out, whichever connection is theirs by now.
Leave(c) ==
  /\ c \in joined
  /\ clients' = Restrict(clients, DOMAIN clients \ {c[1]})
  /\ joined' = joined \ {c}
  /\ UNCHANGED roster

Next == Create \/ \E c \in Conns : Join(c) \/ Leave(c)

Spec == Init /\ [][Next]_vars

=============================================================================
