--------------------------- MODULE MatchLifecycle ---------------------------
(***************************************************************************)
(* What a match promises to those who take part in it, whatever bullets,   *)
(* items, zone and timers do: the contract of services/game/engine that    *)
(* the comments of engine.go describe (phases, joining and leaving, how a  *)
(* match is decided and how it starts over).  Engine implements it.        *)
(***************************************************************************)
CONSTANTS Roster, NoOne

VARIABLES
  phase,      \* "waiting", "live" or "ended"
  members,    \* players in the match
  standing,   \* members who are alive
  winner      \* the declared winner, NoOne for none

\* The match is down to its last player, or to nobody.
Decided(alive) == \A p, q \in alive : p = q

vars == <<phase, members, standing, winner>>

Init ==
  /\ phase = "waiting"
  /\ members = {}
  /\ standing = {}
  /\ winner = NoOne

\* A roster player enters, or re-enters, at any time, and is alive.
Enter(p) ==
  /\ members' = members \cup {p}
  /\ standing' = standing \cup {p}
  /\ UNCHANGED <<phase, winner>>

Exit(p) ==
  /\ members' = members \ {p}
  /\ standing' = standing \ {p}
  /\ UNCHANGED <<phase, winner>>

\* The countdown is over.
Start ==
  /\ phase = "waiting"
  /\ phase' = "live"
  /\ UNCHANGED <<members, standing, winner>>

\* The match starts over with everybody alive.
Reset ==
  /\ \/ phase = "ended"
     \/ phase = "live" /\ members = {}
  /\ phase' = "waiting"
  /\ standing' = members
  /\ winner' = NoOne
  /\ UNCHANGED members

\* One round of a live match: some fall, some of the fallen come back; the
\* match is decided once at most one is left standing.
Round ==
  /\ phase = "live"
  /\ members # {}
  /\ \E fallen \in SUBSET standing, risen \in SUBSET (members \ standing) :
       standing' = (standing \ fallen) \cup risen
  /\ IF Decided(standing')
     THEN /\ phase' = "ended"
          /\ winner' \in IF standing' = {} THEN {NoOne} ELSE standing'
     ELSE UNCHANGED <<phase, winner>>
  /\ UNCHANGED members

Next ==
  \/ \E p \in Roster : Enter(p) \/ Exit(p)
  \/ Start
  \/ Reset
  \/ Round

Safety == Init /\ [][Next]_vars

-----------------------------------------------------------------------------
(* What must happen in the end. *)

\* A match with players in it does not wait for ever.
Starts == (phase = "waiting" /\ members # {}) ~> (phase = "live")

\* A live match with at most one left standing does not go on like that.
IsDecided == (phase = "live" /\ Decided(standing))
               ~> (phase # "live" \/ ~Decided(standing))

\* A result is not shown for ever.
Reopens == (phase = "ended") ~> (phase = "waiting")

\* The dead come back, or leave.
DeadReturn == \A p \in Roster :
  (p \in members \ standing) ~> (p \notin members \ standing)

Spec == Safety /\ Starts /\ IsDecided /\ Reopens /\ DeadReturn

=============================================================================
