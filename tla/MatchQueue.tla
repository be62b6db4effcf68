----------------------------- MODULE MatchQueue -----------------------------
(***************************************************************************)
(* The critical sections of services/matchmaker/queue.go, each a step on   *)
(* the data they share, and the contract they add up to: which players are *)
(* waiting, which ones a pass of tryFormMatch holds, and which match every *)
(* matched player is sent to.  Matchmaker runs these sections in the       *)
(* program's control flow and implements the contract; Lobby puts the      *)
(* browser pages on top of the contract.                                   *)
(*                                                                         *)
(* A match ID (a fresh UUID) is its number in the order of generation.     *)
(***************************************************************************)
EXTENDS Naturals, Sequences, FiniteSets, SequencesExt

CONSTANTS
  Players,
  Instances,             \* game server instances
  MinPlayersPerMatch

ASSUME PassAssumption == MinPlayersPerMatch \in Nat \ {0}

VARIABLES
  waiting,     \* Queue.waiting
  matched,     \* Queue.matched: player -> the match and its instance
  taken,       \* the players of the pass under way, empty between passes
  rosters,     \* the players of every match ID generated so far
  hosted       \* matches the instances have ever created

line == <<waiting, taken>>
matches == <<matched, rosters, hosted>>
contract == <<line, matches>>

\* One instance hosting one match; also the StartMatch request for it.
Hosting == [match : Nat, instance : Instances]

MatchIDs == 1..Len(rosters)

\* Only match IDs that a pass has generated come into being.
Announced == [match : MatchIDs, instance : Instances]

QueueInit ==
  /\ waiting = <<>>
  /\ matched = <<>>
  /\ taken = <<>>
  /\ rosters = <<>>
  /\ hosted = {}

-----------------------------------------------------------------------------
(* The methods of Queue. *)

Join(p) ==
  /\ waiting' = IF p \in DOMAIN matched \cup Range(waiting)
                THEN waiting ELSE Append(waiting, p)
  /\ UNCHANGED <<taken, matches>>

\* The first entry of the player goes, if there is one.
Leave(p) ==
  /\ \/ /\ p \notin Range(waiting)
        /\ UNCHANGED waiting
     \/ \E i \in DOMAIN waiting :
          /\ waiting[i] = p
          /\ \A j \in 1..(i - 1) : waiting[j] # p
          /\ waiting' = RemoveAt(waiting, i)
  /\ UNCHANGED <<taken, matches>>

\* Mutant of Status: the queue is searched before the matches.
StatusOfWaiting(p) ==
  IF p \in Range(waiting) THEN "waiting"
  ELSE IF p \in DOMAIN matched THEN "matched"
  ELSE "not_queued"

Status(p) ==
  IF p \in DOMAIN matched THEN "matched"
  ELSE IF p \in Range(waiting) THEN "waiting"
  ELSE "not_queued"

TakeFirst(n) ==
  /\ n <= Len(waiting)
  /\ taken' = SubSeq(waiting, 1, n)
  /\ waiting' = SubSeq(waiting, n + 1, Len(waiting))
  /\ UNCHANGED matches

\* Mutants of Take: the whole queue is taken; a pair is not enough.
TakeEverybody == Len(waiting) >= MinPlayersPerMatch /\ TakeFirst(Len(waiting))
TakeFromMany == Len(waiting) > MinPlayersPerMatch
                  /\ TakeFirst(MinPlayersPerMatch)

\* A pass takes the players of one match from the front.
Take == TakeFirst(MinPlayersPerMatch)

PassIsOver(queue) ==
  /\ waiting' = queue
  /\ taken' = <<>>

\* Mutants of Requeue: to the back of the queue; the players are dropped.
RequeueAtTheBack == PassIsOver(waiting \o taken) /\ UNCHANGED matches
RequeueNobody == PassIsOver(waiting) /\ UNCHANGED matches

\* The pass fails: its players go back to the front of the queue.
Requeue == PassIsOver(taken \o waiting) /\ UNCHANGED matches

\* The pass generates a match ID for its players.
Generate ==
  /\ rosters' = Append(rosters, taken)
  /\ UNCHANGED <<line, matched, hosted>>

\* The pass succeeds: its players are recorded with their match.
Record(h) ==
  /\ matched' = [p \in DOMAIN matched \cup Range(taken) |->
                   IF p \in Range(taken) THEN h ELSE matched[p]]
  /\ PassIsOver(waiting)
  /\ UNCHANGED <<rosters, hosted>>

\* An instance creates a match (StartMatch of services/game/server/grpc.go).
Host(h) ==
  /\ hosted' = hosted \cup {h}
  /\ UNCHANGED <<line, matched, rosters>>

-----------------------------------------------------------------------------
(* The contract: what the sections may do, whatever calls and crashes the   *)
(* passes meet.                                                             *)

\* A pass begins only after the one before it is over.
Begin == taken = <<>> /\ Take

\* The newest match, and only once, is recorded for exactly its players, with
\* an instance that has created it.
Conclude(h) ==
  /\ h.match = Len(rosters)
  /\ rosters[h.match] = taken
  /\ \A p \in DOMAIN matched : matched[p].match # h.match
  /\ Record(h)

QueueNext ==
  \/ \E p \in Players : Join(p) \/ Leave(p)
  \/ Begin
  \/ taken # <<>> /\ (Requeue \/ Generate)
  \/ \E h \in Announced : Host(h)
  \/ \E h \in hosted : Conclude(h)

QueueContract == QueueInit /\ [][QueueNext]_contract

-----------------------------------------------------------------------------
(* What follows from the contract, for Matchmaker and Lobby alike. *)

\* A player is sent only to a match that the instance named has created with
\* that player on its roster, even when calls are retried or answered late.
MatchedIsHosted == \A p \in DOMAIN matched :
  /\ matched[p] \in hosted
  /\ matched[p].match \in MatchIDs
  /\ p \in Range(rosters[matched[p].match])

\* Players who are sent to the same match are sent to the same instance.
PlayersMeet == \A p, q \in DOMAIN matched :
  matched[p].match = matched[q].match => matched[p] = matched[q]

\* A POST of a player in the hands of a pass adds nothing to the queue; the
\* code does not see to that, since Join looks at matched and waiting only.
NoRejoin == [][\A p \in Range(taken) : Join(p) => UNCHANGED waiting]_contract

\* Everybody stands in one place, once: in the queue, in the hands of a pass,
\* or among the matched.
OnePlace ==
  /\ IsInjective(waiting) /\ IsInjective(taken)
  /\ Range(waiting) \cap Range(taken) = {}
  /\ (Range(waiting) \cup Range(taken)) \cap DOMAIN matched = {}

\* The first match of a player is the only one.
MatchIsForGood == [][\A p \in DOMAIN matched :
  p \in DOMAIN matched' /\ matched'[p] = matched[p]]_contract

=============================================================================
