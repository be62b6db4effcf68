------------------------------- MODULE Lobby -------------------------------
(***************************************************************************)
(* The browser pages between the lobby and a match, on top of the contract *)
(* of the matchmaker (MatchQueue): QueuePage.jsx, which joins the queue    *)
(* and polls until it is matched, PlayPage.jsx, which holds the WebSocket  *)
(* to the instance, and the token that each of their requests carries      *)
(* (AuthContext.jsx, shared/jwt, shared/middleware).                       *)
(*                                                                         *)
(* A page never waits for the requests of the page before it: the POST of  *)
(* a visit that is left and the DELETE that its cleanup sends travel on    *)
(* connections of their own, may fail, and arrive in any order.            *)
(*                                                                         *)
(* A player has one tab.  The answer of a poll is that of the moment it    *)
(* arrives.  Every other page is "home"; a player who logs out there shows *)
(* none of the two pages before logging in again.                          *)
(***************************************************************************)
EXTENDS MatchQueue

CONSTANTS
  Steady,                \* players whose browser and network keep working
  MaxMatches,            \* bound: match IDs generated
  MaxWaiting,            \* bound: length of the queue a player joins
  MaxInFlight            \* bound: abandoned POSTs of a player on their way,
                         \* as many DELETEs, and as many timers of the tab

ASSUME SteadyPlayers == Steady \subseteq Players

ASSUME LobbyBounds ==
  MaxMatches \in Nat /\ MaxWaiting \in Nat /\ MaxInFlight \in Nat

VARIABLES
  page,        \* what the tab of each player shows
  game,        \* player -> the match in the last /play address of the tab
  returning,   \* timers that lost connections have set in the tab
  session,     \* what the token in the tab's storage is worth
  posts,       \* POSTs of visits that were left, on their way
  deletes,     \* DELETEs of visits that were left, on their way
  raced,       \* history: a DELETE was on its way when the visit was queued
  running      \* hosted matches whose instance has not crashed since

requests == <<posts, deletes>>
tabs == <<page, game, returning, session, raced>>
vars == <<contract, tabs, requests, running>>

QueuePages ==
  {"joining",   \* the POST is not answered
   "polling",   \* it was accepted
   "stuck"}     \* it failed: an error is shown, and nothing tried again
PlayPages == {"connecting", "playing", "lost"}

Init ==
  /\ QueueInit
  /\ page = [p \in Players |-> "home"]
  /\ game = <<>>
  /\ returning = [p \in Players |-> 0]
  /\ session = [p \in Players |-> "valid"]
  /\ posts = [p \in Players |-> 0]
  /\ deletes = [p \in Players |-> 0]
  /\ raced = {}
  /\ running = {}

-----------------------------------------------------------------------------
(* Going from page to page. *)

\* WithAuth lets the requests of the player pass.
Authorised(p) == session[p] = "valid"

\* The tab shows another page.  Leaving the queue page sends a DELETE, which
\* is refused if the token has expired, and abandons an unanswered POST.
Show(p, to) ==
  LET abandoned == IF page[p] = "joining" THEN 1 ELSE 0
      left == IF page[p] \in QueuePages /\ Authorised(p) THEN 1 ELSE 0
  IN  /\ page' = [page EXCEPT ![p] = to]
      /\ posts' = [posts EXCEPT ![p] = @ + abandoned]
      /\ deletes' = [deletes EXCEPT ![p] = @ + left]
      /\ posts'[p] <= MaxInFlight /\ deletes'[p] <= MaxInFlight
      /\ raced' = raced \ {p}

\* The queue page opens and sends its POST, which an expired token fails.
OpenQueuePage(p) ==
  Show(p, IF Authorised(p) THEN "joining" ELSE "stuck")

Visit(p) ==
  /\ page[p] \notin QueuePages
  /\ OpenQueuePage(p)
  /\ UNCHANGED <<contract, game, returning, session, running>>

\* Cancel, or any other link or button; the timer is not cleared.
GoHome(p) ==
  /\ page[p] # "home"
  /\ Show(p, "home")
  /\ UNCHANGED <<contract, game, returning, session, running>>

\* The tab is closed or reloaded: no cleanup runs, but timers are gone.
CloseTab(p) ==
  /\ page[p] # "home" \/ returning[p] > 0
  /\ page' = [page EXCEPT ![p] = "home"]
  /\ posts' = [posts EXCEPT ![p] = @ + IF page[p] = "joining" THEN 1 ELSE 0]
  /\ posts'[p] <= MaxInFlight
  /\ returning' = [returning EXCEPT ![p] = 0]
  /\ raced' = raced \ {p}
  /\ UNCHANGED <<contract, deletes, game, session, running>>

\* Mutant of Reopen: the page opens without the parameters of its address.
ReopenAnything(p) ==
  /\ page[p] = "home"
  /\ Show(p, "connecting")
  /\ UNCHANGED <<contract, game, returning, session, running>>

\* The last /play address is opened again, from the history or by a reload.
Reopen(p) ==
  /\ page[p] = "home"
  /\ p \in DOMAIN game
  /\ Show(p, "connecting")
  /\ UNCHANGED <<contract, game, returning, session, running>>

-----------------------------------------------------------------------------
(* The queue page. *)

\* The POST is handled and answered, and the page begins to poll.
Queued(p) ==
  /\ page[p] = "joining"
  /\ Len(waiting) < MaxWaiting
  /\ Join(p)
  /\ page' = [page EXCEPT ![p] = "polling"]
  /\ raced' = IF deletes[p] > 0 THEN raced \cup {p} ELSE raced
  /\ UNCHANGED <<requests, game, returning, session, running>>

\* The POST fails, or only its answer.
JoinFails(p) ==
  /\ page[p] = "joining"
  /\ UNCHANGED contract \/ (Len(waiting) < MaxWaiting /\ Join(p))
  /\ page' = [page EXCEPT ![p] = "stuck"]
  /\ UNCHANGED <<requests, game, returning, session, raced, running>>

\* A poll finds a match, and the page goes to /play.  Other polls, and polls
\* that fail, change nothing: the next one follows.
PollMatched(p) ==
  /\ page[p] = "polling"
  /\ Authorised(p)
  /\ Status(p) = "matched"
  /\ Show(p, "connecting")
  /\ game' = [q \in DOMAIN game \cup {p} |->
                IF q = p THEN matched[p] ELSE game[q]]
  /\ UNCHANGED <<contract, returning, session, running>>

\* A request of a visit that was left arrives, or fails on its way.
PostArrives(p) ==
  /\ posts[p] > 0
  /\ posts' = [posts EXCEPT ![p] = @ - 1]
  /\ UNCHANGED contract \/ (Len(waiting) < MaxWaiting /\ Join(p))
  /\ UNCHANGED <<deletes, tabs, running>>

DeleteArrives(p) ==
  /\ deletes[p] > 0
  /\ deletes' = [deletes EXCEPT ![p] = @ - 1]
  /\ UNCHANGED contract \/ Leave(p)
  /\ UNCHANGED <<posts, tabs, running>>

-----------------------------------------------------------------------------
(* The play page. *)

\* The instance has the match, and the match has the player (ServeWS).
Connect(p) ==
  /\ page[p] = "connecting"
  /\ Authorised(p)
  /\ game[p] \in running
  /\ p \in Range(rosters[game[p].match])
  /\ Show(p, "playing")
  /\ UNCHANGED <<contract, game, returning, session, running>>

\* The WebSocket closes, or never opens.
LoseConnection(p) ==
  /\ page[p] \in {"connecting", "playing"}
  /\ Show(p, "lost")
  /\ returning' = [returning EXCEPT ![p] = @ + 1]
  /\ returning'[p] <= MaxInFlight
  /\ UNCHANGED <<contract, game, session, running>>

\* Two seconds later the timer goes to the queue page, from whatever page the
\* tab shows by now.
Return(p) ==
  /\ returning[p] > 0
  /\ returning' = [returning EXCEPT ![p] = @ - 1]
  /\ \/ /\ page[p] \in QueuePages
        /\ UNCHANGED <<requests, page, raced>>
     \/ /\ page[p] \notin QueuePages
        /\ OpenQueuePage(p)
  /\ UNCHANGED <<contract, game, session, running>>

-----------------------------------------------------------------------------
(* Sessions. *)

\* The token is 24 hours old: from now on Verify refuses it, also in requests
\* on their way.  A WebSocket that is open stays open.
Expire(p) ==
  /\ session[p] = "valid"
  /\ session' = [session EXCEPT ![p] = "expired"]
  /\ page' = [page EXCEPT ![p] = IF @ = "joining" THEN "stuck" ELSE @]
  /\ posts' = [posts EXCEPT ![p] = 0]
  /\ deletes' = [deletes EXCEPT ![p] = 0]
  /\ UNCHANGED <<contract, game, returning, raced, running>>

Login(p) ==
  /\ page[p] = "home"
  /\ session[p] = "expired"
  /\ session' = [session EXCEPT ![p] = "valid"]
  /\ UNCHANGED <<contract, page, game, returning, raced, requests, running>>

-----------------------------------------------------------------------------
(* The matchmaker and the instances. *)

\* A pass takes players, generates a match ID, and fails or succeeds.
Matchmake ==
  /\ \/ Begin
     \/ taken # <<>> /\ Requeue
     \/ taken # <<>> /\ Len(rosters) < MaxMatches /\ Generate
     \/ \E h \in hosted : Conclude(h)
  /\ UNCHANGED <<tabs, requests, running>>

\* An instance gets the one StartMatch request for a match.
StartMatch(h) ==
  /\ h \notin hosted
  /\ Host(h)
  /\ running' = running \cup {h}
  /\ UNCHANGED <<tabs, requests>>

\* A crash ends the matches of the instance; a restart brings none back.
Crash(i) ==
  /\ \E h \in running : h.instance = i
  /\ running' = {h \in running : h.instance # i}
  /\ UNCHANGED <<contract, tabs, requests>>

User(p) ==
  \/ Visit(p) \/ GoHome(p) \/ CloseTab(p) \/ Reopen(p) \/ Login(p)

Answer(p) == Queued(p) \/ JoinFails(p)

Handshake(p) == Connect(p) \/ (page[p] = "connecting" /\ LoseConnection(p))

ServerGone(p) == LoseConnection(p) /\ game[p] \notin running

Arrive(p) == PostArrives(p) \/ DeleteArrives(p)

Next ==
  \/ \E p \in Players :
       \/ User(p) \/ Answer(p) \/ PollMatched(p) \/ Arrive(p)
       \/ Connect(p) \/ LoseConnection(p) \/ Return(p) \/ Expire(p)
  \/ Matchmake
  \/ \E h \in Announced : StartMatch(h)
  \/ \E i \in Instances : Crash(i)

\* Requests and handshakes succeed or fail in the end, polls go on, a dead
\* server is noticed and timers fire.  No player has to do anything, and no
\* pass has to succeed.
Fairness == \A p \in Steady :
  /\ WF_vars(Answer(p) \/ PollMatched(p) \/ Handshake(p) \/ ServerGone(p))
  /\ WF_vars(Arrive(p))
  /\ WF_vars(Return(p))

Spec == Init /\ [][Next]_vars /\ Fairness

-----------------------------------------------------------------------------
(* Properties. *)

\* Every variable has its type; who shows a play page has a match to play.
TypeOK ==
  /\ waiting \in Seq(Players) /\ taken \in Seq(Players)
  /\ rosters \in Seq(Seq(Players))
  /\ hosted \subseteq Announced /\ running \subseteq hosted
  /\ DOMAIN matched \subseteq Players
  /\ page \in [Players -> {"home"} \cup QueuePages \cup PlayPages]
  /\ DOMAIN game \subseteq Players
  /\ \A p \in Players : page[p] \in PlayPages => p \in DOMAIN game
  /\ raced \subseteq Players
  /\ session \in [Players -> {"valid", "expired"}]
  /\ \A count \in {posts, deletes, returning} : count \in [Players -> Nat]

\* While the page says SEARCHING FOR MATCH... and polls, the matchmaker does
\* have the player, whatever fails; the one exception is a visit whose POST
\* was handled while the DELETE of an earlier visit was still on its way.
\* (The matchmaker runs on: a restart of its process, which would forget the
\* queue, is left out.)
SearchersAreKnown == \A p \in Players :
  page[p] = "polling" /\ p \notin raced
    => p \in Range(waiting) \cup Range(taken) \cup DOMAIN matched

\* The play page never knocks at a wrong door: its instance has created the
\* match with the player on the roster, and pages of one match, old tabs and
\* reloads included, are all at the same instance.  The last part takes two
\* instances and two matches to go wrong, more than a run of the pages can hold,
\* so all of it is proved instead (OneDoor of LobbyProofs).
PlayPagesAgree == \A p \in DOMAIN game :
  /\ game[p] \in hosted
  /\ p \in Range(rosters[game[p].match])
  /\ \A q \in DOMAIN game :
       game[q].match = game[p].match => game[q] = game[p]

\* Nobody who is matched is left hanging: a queue page of theirs, its POST
\* answered or not, moves on unless the token expires, and a play page that has
\* lost its connection does in any case.  Nothing is said of a page whose
\* player is not matched or whose token has expired.
PagesMoveOn == \A p \in Steady :
  /\ (page[p] \in {"joining", "polling"} /\ p \in DOMAIN matched)
       ~> (page[p] \notin {"joining", "polling"} \/ session[p] # "valid")
  /\ (page[p] = "lost") ~> (page[p] # "lost")

-----------------------------------------------------------------------------
(* What the pages say and the code does not do. *)

\* SERVER CONNECTION LOST, RETURNING TO MATCHMAKING... (PlayPage.jsx): back in
\* the queue, the player waits for a match other than the one that is gone.
\* The code never removes the entry of matched, and Join does nothing.
ReturnFindsAnother ==
  [][\A p \in DOMAIN game :
       page[p] = "joining" /\ page'[p] = "polling" /\ game[p] \notin running
         => \/ p \in Range(taken' \o waiting')
            \/ p \in DOMAIN matched /\ matched[p] # game[p]]_vars

=============================================================================
