----------------------------- MODULE Matchmaker -----------------------------
(***************************************************************************)
(* The matchmaker of services/matchmaker (queue.go, handlers.go), with     *)
(* what it talks to: the instances that the registry lists and the         *)
(* StartMatch handler of each (services/game/server/grpc.go,               *)
(* services/game/matchmanager).                                            *)
(*                                                                         *)
(* tryFormMatch holds Queue.mu only while it takes players, while it       *)
(* records a match and while it puts players back: the sections of         *)
(* MatchQueue.  In between it waits for Redis and for one gRPC call after  *)
(* the other; every stretch between two waits is an action, and POST and   *)
(* DELETE come in at any point.                                            *)
(***************************************************************************)
EXTENDS MatchQueue

CONSTANTS
  MaxMatches,            \* bound: match IDs generated
  MaxListed,             \* bound: entries that ListLive returns
  MaxWaiting             \* bound: length of the queue a player joins

ASSUME BoundAssumption ==
  MaxMatches \in Nat /\ MaxListed \in Nat /\ MaxWaiting \in Nat

VARIABLES
  step,        \* where tryFormMatch is
  todo,        \* the instances it has not given up on, the current one first
  up,          \* instances whose process runs
  requests,    \* StartMatch requests on their way
  wants        \* history: players whose last request was POST, not DELETE

pass == <<step, todo>>
vars == <<contract, pass, up, requests, wants>>

Init ==
  /\ QueueInit
  /\ step = "idle"
  /\ todo = <<>>
  /\ up = Instances
  /\ requests = {}
  /\ wants = {}

-----------------------------------------------------------------------------
(* The handlers of the HTTP API; GET /queue is Status. *)

\* POST /queue
HandleJoinQueue(p) ==
  /\ Len(waiting) < MaxWaiting
  /\ Join(p)
  /\ wants' = wants \cup {p}
  /\ UNCHANGED <<pass, up, requests>>

\* DELETE /queue
HandleLeaveQueue(p) ==
  /\ Leave(p)
  /\ wants' = wants \ {p}
  /\ UNCHANGED <<pass, up, requests>>

-----------------------------------------------------------------------------
(* tryFormMatch, which Run calls at every tick of its timer. *)

\* From one step of the pass to another; the listing ends with the pass.
Goto(from, to) ==
  /\ step = from
  /\ step' = to
  /\ to = "idle" => todo' = <<>>
  /\ UNCHANGED <<up, wants>>

TakePlayers ==
  /\ Goto("idle", "list")
  /\ Take
  /\ UNCHANGED <<todo, requests>>

\* ListLive fails, or finds no instance.
ListNone ==
  /\ Goto("list", "idle")
  /\ Requeue
  /\ UNCHANGED requests

\* ListLive returns the instances with a fresh heartbeat in the registry, which
\* may run or not, in any order; SCAN may name one of them twice.  What it can
\* return is modelled in Registry.
ListLive ==
  /\ Len(rosters) < MaxMatches
  /\ Goto("list", "try")
  /\ todo' \in BoundedSeq(Instances, MaxListed) \ {<<>>}
  /\ Generate
  /\ UNCHANGED requests

Current == [match |-> Len(rosters), instance |-> Head(todo)]

\* StartMatch is sent to the next instance.
Call ==
  /\ todo # <<>>
  /\ Goto("try", "call")
  /\ requests' = requests \cup {Current}
  /\ UNCHANGED <<contract, todo>>

\* Mutant of GiveUp: the next attempt is made at the same instance.
TryAgain ==
  /\ Goto("call", "try")
  /\ UNCHANGED <<contract, todo, requests>>

GiveUp ==
  /\ Goto("call", "try")
  /\ todo' = Tail(todo)
  /\ UNCHANGED <<contract, requests>>

\* Mutant of CallFails: the call has no deadline of its own.
CallFailsOnLoss == GiveUp /\ Current \notin requests

\* The call fails: the instance cannot be reached, the two seconds of
\* startMatchTimeout are over, or the answer is lost.  The request may still
\* be on its way, or may have been carried out.
CallFails == GiveUp

\* Mutant of Accepted: the error of the call is not looked at.
AcceptedAnyway ==
  /\ Goto("call", "idle")
  /\ Record(Current)
  /\ UNCHANGED requests

\* The answer of an instance that has created the match arrives: its players
\* are recorded with it.
Accepted ==
  /\ Goto("call", "idle")
  /\ Current \in hosted
  /\ Record(Current)
  /\ UNCHANGED requests

\* No instance is left to try.
AllRejected ==
  /\ todo = <<>>
  /\ Goto("try", "idle")
  /\ Requeue
  /\ UNCHANGED requests

TryFormMatch ==
  \/ TakePlayers
  \/ ListNone
  \/ ListLive
  \/ Call
  \/ CallFails
  \/ Accepted
  \/ AllRejected

-----------------------------------------------------------------------------
(* The game instances and the network. *)

\* The handler creates the match and never refuses, however late it runs.
StartMatch(request) ==
  /\ request \in requests
  /\ request.instance \in up
  /\ Host(request)
  /\ requests' = requests \ {request}
  /\ UNCHANGED <<pass, up, wants>>

Lose(request) ==
  /\ request \in requests
  /\ requests' = requests \ {request}
  /\ UNCHANGED <<contract, pass, up, wants>>

Crash(i) ==
  /\ i \in up
  /\ up' = up \ {i}
  /\ UNCHANGED <<contract, pass, requests, wants>>

Restart(i) ==
  /\ i \notin up
  /\ up' = up \cup {i}
  /\ UNCHANGED <<contract, pass, requests, wants>>

Next ==
  \/ \E p \in Players : HandleJoinQueue(p) \/ HandleLeaveQueue(p)
  \/ TryFormMatch
  \/ \E request \in requests : StartMatch(request) \/ Lose(request)
  \/ \E i \in Instances : Crash(i) \/ Restart(i)

\* Run's timer keeps ticking, Redis answers or fails, and a call ends after
\* startMatchTimeout at the latest.  Nothing else has to happen.
Fairness == WF_vars(TryFormMatch)

Spec == Init /\ [][Next]_vars /\ Fairness

-----------------------------------------------------------------------------
(* Properties. *)

\* Every variable has its type; a pass holds the players of one match, from
\* the moment it takes them until it records or returns them.
TypeOK ==
  /\ waiting \in Seq(Players)
  /\ DOMAIN matched \subseteq Players
  /\ matched \in [DOMAIN matched -> Hosting]
  /\ step \in {"idle", "list", "try", "call"}
  /\ taken \in Seq(Players)
  /\ Len(taken) = IF step = "idle" THEN 0 ELSE MinPlayersPerMatch
  /\ todo \in Seq(Instances)
  /\ step = "call" => todo # <<>>
  /\ rosters \in Seq(Seq(Players))
  /\ step \in {"try", "call"} =>
       rosters # <<>> /\ taken = rosters[Len(rosters)]
  /\ up \subseteq Instances
  /\ requests \subseteq Hosting
  /\ hosted \subseteq Hosting
  /\ wants \subseteq Players

\* A player who has joined the queue and not left it is told to be waiting or
\* matched, whatever instances, Redis and the network do; GET /queue denies it
\* to players of the pass under way only.  (The matchmaker itself runs on: a
\* restart of its process, which would forget the queue, is left out.)
NoPlayerLost ==
  \A p \in wants : Status(p) = "not_queued" => p \in Range(taken)

\* If the registry names every instance once, no request meets a match that
\* its instance has created already: CreateMatch would put an empty engine in
\* the place of the one with the players, however late the request arrives.
CreatedOnce == [](IsInjective(todo)) => [](requests \cap hosted = {})

\* Some entry of p stands before every entry of q.
Ahead(queue, p, q) == \E i \in DOMAIN queue :
  queue[i] = p /\ \A j \in 1..i : queue[j] # q

Line == taken \o waiting

\* A pass that fails costs nobody their place: no player who stays in the
\* queue is overtaken, by one who stood behind or by one who joins.
NobodyIsOvertaken ==
  [][\A p, q \in Players :
       p \in wants' \ DOMAIN matched' /\ Ahead(Line, p, q)
         => Ahead(Line', p, q)]_vars

\* The pass, with its calls, retries and timeouts, does only what the contract
\* of MatchQueue allows: the players it records are those of the match, which
\* is new, and the instance they are sent to has created it.
ImplementsContract == QueueContract

\* A pass does not hang: its players are matched or back in the queue in the
\* end, also when no instance ever answers.
PassEnds == (step # "idle") ~> (step = "idle")

\* Enough waiting players are tried for a match, again and again.
QueueIsTried == (step = "idle" /\ Len(waiting) >= MinPlayersPerMatch)
                  ~> (step # "idle" \/ Len(waiting) < MinPlayersPerMatch)

-----------------------------------------------------------------------------
(* What comments and tests of the matchmaker say and the code does not do. *)

\* The duplicate join test of queue_test.go: a duplicate join is ignored.  A
\* join while the player is taken is not, and Requeue brings the first back.
NoDuplicateWaiting ==
  \A i, j \in DOMAIN waiting : waiting[i] = waiting[j] => i = j

=============================================================================
