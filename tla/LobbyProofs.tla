---------------------------- MODULE LobbyProofs ----------------------------
(***************************************************************************)
(* Proofs about Lobby, for any players, instances, match size and bounds.  *)
(***************************************************************************)
EXTENDS Lobby, MatchQueueProofs

-----------------------------------------------------------------------------
(* The inductive invariant. *)

\* A page that polls has no DELETE behind it, unless it was overtaken by one.
Clear == \A p \in Players :
  page[p] = "polling" /\ p \notin raced => deletes[p] = 0

\* What is recorded of a player is a match that exists and lists the player.
Entries == \A p \in DOMAIN matched :
  matched[p] \in hosted /\ p \in Range(rosters[matched[p].match])

\* Whoever the matchmaker or an address sends to a match, it is to the same
\* instance.
OneInstance ==
  /\ \A p, q \in DOMAIN matched :
       matched[p].match = matched[q].match => matched[p] = matched[q]
  /\ \A p \in DOMAIN game, q \in DOMAIN matched :
       game[p].match = matched[q].match => game[p] = matched[q]

\* An address of the newest match comes from an entry that is still there:
\* were it gone, the match could be concluded once more, elsewhere.
Newest == \A p \in DOMAIN game :
  game[p].match = Len(rosters)
    => \E q \in DOMAIN matched : matched[q].match = Len(rosters)

Places == PlayPagesAgree /\ Entries /\ OneInstance /\ Newest

IInv == TypeOK /\ SearchersAreKnown /\ Clear /\ Places

\* Nobody plays or searches at the start.
LEMMA InitIInv == Init => IInv
  <1> SUFFICES ASSUME Init PROVE IInv
    OBVIOUS
  <1> USE DEF Init, QueueInit
  <1>1. DOMAIN matched = {} /\ DOMAIN game = {}
    OBVIOUS
  <1>2. TypeOK
    BY <1>1 DEF TypeOK, PlayPages
  <1>3. SearchersAreKnown /\ Clear
    BY DEF SearchersAreKnown, Clear
  <1>4. Places
    BY <1>1 DEF Places, PlayPagesAgree, Entries, OneInstance, Newest
  <1> QED
    BY <1>2, <1>3, <1>4 DEF IInv

-----------------------------------------------------------------------------
(* Steps of the pages. *)

\* Matches and addresses that stay the same keep what is said of them.
LEMMA SamePlaces ==
  ASSUME Places, UNCHANGED <<matched, rosters, hosted, game>> PROVE Places'
  BY DEF Places, PlayPagesAgree, Entries, OneInstance, Newest

\* Another page does not poll, and knows no less of the others.
LEMMA ShowIInv ==
  ASSUME IInv, NEW p \in Players, NEW to \in {"joining", "stuck", "home"}
                                               \cup PlayPages,
         Show(p, to), UNCHANGED <<contract, session, running>>,
         returning' \in [Players -> Nat], Places',
         DOMAIN game \subseteq DOMAIN game', DOMAIN game' \subseteq Players,
         to \in PlayPages => p \in DOMAIN game'
  PROVE  IInv'
  <1>1. /\ page' = [page EXCEPT ![p] = to]
        /\ posts' \in [Players -> Nat] /\ deletes' \in [Players -> Nat]
        /\ raced' = raced \ {p}
        /\ \A q \in Players \ {p} : deletes'[q] = deletes[q]
    BY DEF IInv, TypeOK, Show
  <1>2. \A q \in Players : page'[q] = IF q = p THEN to ELSE page[q]
    BY <1>1 DEF IInv, TypeOK
  <1>3. TypeOK'
    BY <1>1, <1>2 DEF IInv, TypeOK, QueuePages, PlayPages,
                      contract, line, matches, Announced, MatchIDs
  <1>4. to # "polling"
    BY DEF PlayPages
  <1>5. SearchersAreKnown' /\ Clear'
    BY <1>1, <1>2, <1>4 DEF IInv, SearchersAreKnown, Clear,
                            contract, line, matches
  <1> QED
    BY <1>3, <1>5 DEF IInv

\* Pages that keep their address keep its match.
LEMMA MoveIInv ==
  ASSUME IInv, NEW p \in Players, NEW to \in {"joining", "stuck", "home"}
                                               \cup PlayPages,
         Show(p, to), UNCHANGED <<contract, game, session, running>>,
         returning' \in [Players -> Nat], to \in PlayPages => p \in DOMAIN game
  PROVE  IInv'
  <1>1. Places'
    BY SamePlaces DEF IInv, contract, matches
  <1> QED
    BY <1>1, ShowIInv DEF IInv, TypeOK

\* The queue page opens by joining, or is stuck at once.
LEMMA QueuePageOpens ==
  ASSUME NEW p \in Players
  PROVE  LET to == IF Authorised(p) THEN "joining" ELSE "stuck"
         IN  /\ to \in {"joining", "stuck", "home"} \cup PlayPages
             /\ to \notin PlayPages
  BY DEF PlayPages

\* Links, the timer and the WebSocket change the page only.
LEMMA BrowseIInv ==
  ASSUME IInv, NEW p \in Players,
         \/ Visit(p) \/ GoHome(p) \/ Reopen(p)
         \/ Connect(p) \/ LoseConnection(p)
  PROVE  IInv'
  <1>1. returning \in [Players -> Nat]
    BY DEF IInv, TypeOK
  <1>2. CASE Visit(p)
    BY <1>1, <1>2, QueuePageOpens, MoveIInv DEF Visit, OpenQueuePage
  <1>3. CASE GoHome(p) \/ Reopen(p)
    BY <1>1, <1>3, MoveIInv DEF GoHome, Reopen, PlayPages
  <1>4. CASE Connect(p) \/ LoseConnection(p)
    <2>1. p \in DOMAIN game
      BY <1>4 DEF Connect, LoseConnection, PlayPages, IInv, TypeOK
    <2> QED
      BY <1>1, <1>4, <2>1, MoveIInv DEF Connect, LoseConnection, PlayPages
  <1> QED
    BY <1>2, <1>3, <1>4

\* So does the timer of a lost connection.
LEMMA ReturnIInv ==
  ASSUME IInv, NEW p \in Players, Return(p) PROVE IInv'
  <1>1. returning' \in [Players -> Nat]
    BY DEF IInv, TypeOK, Return
  <1>2. CASE OpenQueuePage(p)
    BY <1>1, <1>2, QueuePageOpens, MoveIInv DEF Return, OpenQueuePage
  <1>3. CASE UNCHANGED <<requests, page, raced>>
    <2> USE <1>3 DEF IInv, Return, requests, contract, line, matches
    <2>1. TypeOK'
      BY <1>1 DEF TypeOK, Announced, MatchIDs
    <2>2. SearchersAreKnown' /\ Clear' /\ Places'
      BY SamePlaces DEF SearchersAreKnown, Clear
    <2> QED
      BY <2>1, <2>2
  <1> QED
    BY <1>2, <1>3 DEF Return

\* A tab that is closed polls no more.
LEMMA CloseTabIInv ==
  ASSUME IInv, NEW p \in Players, CloseTab(p) PROVE IInv'
  <1> USE DEF IInv, CloseTab, contract, line, matches
  <1>1. TypeOK'
    BY DEF TypeOK, PlayPages, Announced, MatchIDs
  <1>2. \A q \in Players : page'[q] = IF q = p THEN "home" ELSE page[q]
    BY DEF TypeOK
  <1>3. SearchersAreKnown' /\ Clear'
    BY <1>2 DEF SearchersAreKnown, Clear
  <1> QED
    BY <1>1, <1>3, SamePlaces

\* A poll that finds a match takes its address from the entry.
LEMMA PollMatchedIInv ==
  ASSUME IInv, NEW p \in Players, PollMatched(p) PROVE IInv'
  <1>1. p \in DOMAIN matched
    BY DEF PollMatched, Status
  <1>2. /\ DOMAIN game' = DOMAIN game \cup {p}
        /\ game'[p] = matched[p]
        /\ \A q \in DOMAIN game \ {p} : game'[q] = game[q]
        /\ UNCHANGED <<matched, rosters, hosted>>
    BY DEF PollMatched, contract, matches
  <1>3. Places'
    BY <1>1, <1>2 DEF IInv, Places, PlayPagesAgree, Entries, OneInstance,
                      Newest
  <1>4. p \in Players /\ DOMAIN game \subseteq Players
           /\ returning \in [Players -> Nat]
    BY DEF IInv, TypeOK
  <1> QED
    BY <1>2, <1>3, <1>4, ShowIInv DEF PollMatched, PlayPages

\* Sessions end and begin, and the requests of those that end are refused.
LEMMA SessionIInv ==
  ASSUME IInv, NEW p \in Players, Expire(p) \/ Login(p) PROVE IInv'
  <1> USE DEF IInv, Expire, Login, contract, line, matches, requests
  <1>1. TypeOK'
    <2>1. CASE Expire(p)
      <3>1. \A q \in Players : page'[q] = page[q] \/ page'[q] = "stuck"
        BY <2>1 DEF TypeOK
      <3>2. page' \in [Players -> {"home"} \cup QueuePages \cup PlayPages]
        BY <2>1 DEF TypeOK, QueuePages
      <3>3. \A q \in Players : page'[q] \in PlayPages => q \in DOMAIN game'
        BY <2>1, <3>1 DEF TypeOK, PlayPages
      <3>4. /\ session' \in [Players -> {"valid", "expired"}]
            /\ posts' \in [Players -> Nat] /\ deletes' \in [Players -> Nat]
        BY <2>1 DEF TypeOK
      <3> QED
        BY <2>1, <3>2, <3>3, <3>4 DEF TypeOK, Announced, MatchIDs
    <2>2. CASE Login(p)
      BY <2>2 DEF TypeOK, Announced, MatchIDs
    <2> QED
      BY <2>1, <2>2
  <1>2. \A q \in Players : page'[q] = "polling" => page[q] = "polling"
    BY DEF TypeOK
  <1>3. \A q \in Players : deletes[q] = 0 => deletes'[q] = 0
    BY DEF TypeOK
  <1>4. SearchersAreKnown' /\ Clear'
    BY <1>2, <1>3 DEF SearchersAreKnown, Clear
  <1> QED
    BY <1>1, <1>4, SamePlaces

-----------------------------------------------------------------------------
(* Steps of the requests. *)

\* What joining the queue does to the types and to the matches.
LEMMA JoinTypes ==
  ASSUME IInv, NEW p \in Players, UNCHANGED contract \/ Join(p)
  PROVE  /\ waiting' \in Seq(Players) /\ taken' = taken
         /\ UNCHANGED <<matched, rosters, hosted>>
         /\ Known \subseteq Known'
         /\ Join(p) => p \in Known'
  BY JoinKnown DEF IInv, TypeOK, LineOK, Known, Join, contract, line, matches

\* A request that is answered on the page, well or badly.
LEMMA AnswerIInv ==
  ASSUME IInv, NEW p \in Players, Answer(p) PROVE IInv'
  <1> USE DEF Answer, Queued, JoinFails
  <1>1. /\ waiting' \in Seq(Players) /\ taken' = taken
        /\ UNCHANGED <<matched, rosters, hosted>>
        /\ Known \subseteq Known'
        /\ Join(p) => p \in Known'
    BY JoinTypes
  <1>2. /\ UNCHANGED <<posts, deletes, game, returning, session, running>>
        /\ raced' \in SUBSET Players
        /\ raced \subseteq raced'
    BY DEF IInv, TypeOK, requests
  <1>3. TypeOK'
    <2>1. page' \in [Players -> {"home"} \cup QueuePages \cup PlayPages]
      BY DEF IInv, TypeOK, QueuePages
    <2>2. \A q \in Players : page'[q] \in PlayPages => page'[q] = page[q]
      BY DEF IInv, TypeOK, QueuePages, PlayPages
    <2>3. \A q \in Players : page'[q] \in PlayPages => q \in DOMAIN game'
      BY <1>2, <2>2 DEF IInv, TypeOK
    <2>4. /\ session' \in [Players -> {"valid", "expired"}]
          /\ \A count \in {posts', deletes', returning'} :
               count \in [Players -> Nat]
      BY <1>2 DEF IInv, TypeOK
    <2>5. /\ taken' \in Seq(Players) /\ rosters' \in Seq(Seq(Players))
          /\ DOMAIN matched' \subseteq Players
          /\ DOMAIN game' \subseteq Players
          /\ raced' \subseteq Players
      BY <1>1, <1>2 DEF IInv, TypeOK
    <2>6. hosted' \subseteq Announced' /\ running' \subseteq hosted'
      BY <1>1, <1>2 DEF IInv, TypeOK, Announced, MatchIDs
    <2> QED
      BY <1>1, <2>1, <2>3, <2>4, <2>5, <2>6 DEF TypeOK
  <1>4. \A q \in Players \ {p} : page'[q] = page[q]
    BY DEF IInv, TypeOK
  <1>5. \/ page'[p] = "stuck"
        \/ Join(p) /\ (p \notin raced' => ~(deletes[p] > 0))
    BY DEF IInv, TypeOK
  <1>6. SearchersAreKnown'
    BY <1>1, <1>2, <1>4, <1>5 DEF IInv, SearchersAreKnown, Known
  <1>7. Clear'
    <2>1. deletes[p] \in Nat
      BY DEF IInv, TypeOK
    <2> QED
      BY <1>2, <1>4, <1>5, <2>1 DEF IInv, Clear
  <1> QED
    BY <1>1, <1>2, <1>3, <1>6, <1>7, SamePlaces DEF IInv

\* A POST that was left arrives: somebody more is known.
LEMMA PostArrivesIInv ==
  ASSUME IInv, NEW p \in Players, PostArrives(p) PROVE IInv'
  <1> USE DEF PostArrives
  <1>1. /\ waiting' \in Seq(Players) /\ taken' = taken
        /\ UNCHANGED <<matched, rosters, hosted>>
        /\ Known \subseteq Known'
    BY JoinTypes
  <1>2. /\ UNCHANGED <<tabs, deletes, running>>
        /\ UNCHANGED <<page, game, returning, session, raced>>
        /\ posts' \in [Players -> Nat]
    BY DEF IInv, TypeOK, tabs
  <1>3. TypeOK'
    BY <1>1, <1>2 DEF IInv, TypeOK, Announced, MatchIDs
  <1>4. SearchersAreKnown' /\ Clear'
    BY <1>1, <1>2 DEF IInv, SearchersAreKnown, Clear, Known
  <1> QED
    BY <1>1, <1>2, <1>3, <1>4, SamePlaces DEF IInv

\* A DELETE that was left arrives: its player is not polling, or was overtaken.
LEMMA DeleteArrivesIInv ==
  ASSUME IInv, NEW p \in Players, DeleteArrives(p) PROVE IInv'
  <1> USE DEF DeleteArrives
  <1>1. /\ waiting' \in Seq(Players) /\ taken' = taken
        /\ UNCHANGED <<matched, rosters, hosted>>
        /\ Known \subseteq Known' \cup {p}
    BY LeaveKnown
    DEF IInv, TypeOK, LineOK, Known, Leave, contract, line, matches
  <1>2. /\ UNCHANGED <<page, game, returning, session, raced, posts, running>>
        /\ deletes' \in [Players -> Nat]
        /\ \A q \in Players : deletes[q] = 0 => deletes'[q] = 0
    BY DEF IInv, TypeOK, tabs
  <1>3. TypeOK'
    BY <1>1, <1>2 DEF IInv, TypeOK, Announced, MatchIDs
  <1>4. page[p] = "polling" => p \in raced
    BY DEF IInv, TypeOK, Clear
  <1>5. SearchersAreKnown' /\ Clear'
    BY <1>1, <1>2, <1>4 DEF IInv, SearchersAreKnown, Clear, Known
  <1> QED
    BY <1>1, <1>2, <1>3, <1>5, SamePlaces DEF IInv

-----------------------------------------------------------------------------
(* Steps of the matchmaker and of the instances. *)

\* As long as nobody is forgotten, pages and requests notice nothing.
LEMMA BehindPages ==
  ASSUME IInv, UNCHANGED <<tabs, requests>>, LineOK',
         Known \subseteq Known', DOMAIN matched' \subseteq Players,
         rosters' \in Seq(Seq(Players)), hosted' \subseteq Announced',
         running' \subseteq hosted', Places'
  PROVE  IInv'
  <1>1. TypeOK'
    BY DEF IInv, TypeOK, LineOK, tabs, requests
  <1>2. SearchersAreKnown' /\ Clear'
    BY DEF IInv, SearchersAreKnown, Clear, Known, tabs, requests
  <1> QED
    BY <1>1, <1>2 DEF IInv

\* A match ID that is generated is newer than every match there is.
LEMMA GeneratePlaces ==
  ASSUME IInv, Generate, UNCHANGED game
  PROVE  /\ rosters' \in Seq(Seq(Players)) /\ hosted' \subseteq Announced'
         /\ Places'
  <1>1. /\ rosters' \in Seq(Seq(Players))
        /\ Len(rosters) \in Nat
        /\ Len(rosters') = Len(rosters) + 1
        /\ \A i \in MatchIDs : rosters'[i] = rosters[i]
    BY LenProperties DEF IInv, TypeOK, Generate, MatchIDs
  <1>2. MatchIDs \subseteq MatchIDs' /\ Len(rosters') \notin MatchIDs
    BY <1>1 DEF MatchIDs
  <1>3. UNCHANGED <<matched, hosted>>
    BY DEF Generate
  <1>4. hosted' \subseteq Announced'
    BY <1>2, <1>3 DEF IInv, TypeOK, Announced
  <1>5. \A h \in hosted : h.match \in MatchIDs
    BY DEF IInv, TypeOK, Announced
  <1>6. PlayPagesAgree' /\ Entries' /\ OneInstance'
    BY <1>1, <1>3, <1>5
    DEF IInv, Places, PlayPagesAgree, Entries, OneInstance
  <1>7. Newest'
    BY <1>2, <1>3, <1>5 DEF IInv, Places, PlayPagesAgree, Newest
  <1> QED
    BY <1>1, <1>4, <1>6, <1>7 DEF Places

\* A pass concludes the newest match when nobody has an address of it.
LEMMA ConcludePlaces ==
  ASSUME IInv, NEW h \in hosted, Conclude(h), UNCHANGED game
  PROVE  DOMAIN matched' \subseteq Players /\ Places'
  <1>1. taken \in Seq(Players) /\ Range(taken) \subseteq Players
    BY RangeType DEF IInv, TypeOK
  <1>2. /\ DOMAIN matched' = DOMAIN matched \cup Range(taken)
        /\ \A p \in Range(taken) : matched'[p] = h
        /\ \A p \in DOMAIN matched \ Range(taken) : matched'[p] = matched[p]
        /\ UNCHANGED <<rosters, hosted>>
    BY DEF Conclude, Record
  <1>3. /\ h.match = Len(rosters) /\ rosters[h.match] = taken
        /\ \A p \in DOMAIN matched : matched[p].match # h.match
        /\ \A p \in DOMAIN game : game[p].match # h.match
    BY DEF IInv, Places, Newest, Conclude
  <1>4. PlayPagesAgree' /\ Entries' /\ OneInstance' /\ Newest'
    BY <1>2, <1>3
    DEF IInv, Places, PlayPagesAgree, Entries, OneInstance, Newest
  <1> QED
    BY <1>1, <1>2, <1>4 DEF Places, IInv, TypeOK

\* Whatever the matchmaker does, the pages keep what they were told.
LEMMA MatchmakeIInv == IInv /\ Matchmake => IInv'
  <1> SUFFICES ASSUME IInv, Matchmake PROVE IInv'
    OBVIOUS
  <1>1. LineOK
    BY DEF IInv, TypeOK, LineOK
  <1>2. /\ UNCHANGED <<tabs, requests, running, game>>
        /\ rosters \in Seq(Seq(Players)) /\ hosted \subseteq Announced
        /\ running \subseteq hosted /\ DOMAIN matched \subseteq Players
    BY DEF IInv, TypeOK, Matchmake, tabs
  <1>3. CASE Begin \/ Requeue
    <2>1. LineOK' /\ Known \subseteq Known'
      BY <1>1, <1>3, TakeKnown, RequeueKnown DEF Begin
    <2>2. UNCHANGED <<matched, rosters, hosted>>
      BY <1>3 DEF Begin, Take, TakeFirst, Requeue, matches
    <2>3. Places' /\ UNCHANGED Announced
      BY <1>2, <2>2, SamePlaces DEF IInv, Announced, MatchIDs
    <2> QED
      BY <1>2, <2>1, <2>2, <2>3, BehindPages
  <1>4. CASE Generate
    <2>1. LineOK' /\ Known \subseteq Known' /\ UNCHANGED <<matched, hosted>>
      BY <1>1, <1>4 DEF LineOK, Known, Generate, line
    <2> QED
      BY <1>2, <1>4, <2>1, GeneratePlaces, BehindPages
  <1>5. ASSUME NEW h \in hosted, Conclude(h)
        PROVE  IInv'
    <2>1. LineOK' /\ Known \subseteq Known'
      BY <1>1, <1>5, RecordKnown DEF Conclude
    <2>2. UNCHANGED <<rosters, hosted>> /\ UNCHANGED Announced
      BY <1>5 DEF Conclude, Record, Announced, MatchIDs
    <2> QED
      BY <1>2, <1>5, <2>1, <2>2, ConcludePlaces, BehindPages
  <1> QED
    BY <1>3, <1>4, <1>5 DEF Matchmake

\* Matches come into being and end, but an instance has created them.
LEMMA InstanceIInv ==
  ASSUME IInv, \/ \E h \in Announced : StartMatch(h)
               \/ \E i \in Instances : Crash(i)
  PROVE  IInv'
  <1>1. /\ UNCHANGED <<tabs, requests, game, line, matched, rosters>>
        /\ hosted \subseteq hosted' /\ hosted' \subseteq Announced'
        /\ running' \subseteq hosted'
    BY DEF IInv, TypeOK, StartMatch, Host, Crash, contract, matches, tabs,
           Announced, MatchIDs
  <1>2. LineOK' /\ Known \subseteq Known'
    BY <1>1 DEF IInv, TypeOK, LineOK, Known, line
  <1>3. Places'
    BY <1>1 DEF IInv, Places, PlayPagesAgree, Entries, OneInstance, Newest
  <1> QED
    BY <1>1, <1>2, <1>3, BehindPages DEF IInv, TypeOK

\* Every step keeps the invariant.
LEMMA NextIInv == IInv /\ [Next]_vars => IInv'
  <1> SUFFICES ASSUME IInv, [Next]_vars PROVE IInv'
    OBVIOUS
  <1>1. CASE UNCHANGED vars
    <2> USE <1>1 DEF vars, contract, line, matches, tabs, requests
    <2>1. TypeOK' /\ SearchersAreKnown' /\ Clear'
      BY DEF IInv, TypeOK, Announced, MatchIDs, SearchersAreKnown, Clear
    <2> QED
      BY <2>1, SamePlaces DEF IInv
  <1> QED
    BY <1>1, BrowseIInv, CloseTabIInv, SessionIInv, AnswerIInv,
       PollMatchedIInv, PostArrivesIInv, DeleteArrivesIInv, ReturnIInv,
       MatchmakeIInv, InstanceIInv
    DEF Next, User, Arrive

\* The invariant holds throughout every behaviour of the lobby.
LEMMA Invariance == Spec => []IInv
  BY InitIInv, NextIInv, PTL DEF Spec

-----------------------------------------------------------------------------
(* The theorems. *)

\* Every variable of the lobby keeps its type, and no play page is without a
\* match.
THEOREM Types == Spec => []TypeOK
  BY Invariance, PTL DEF IInv

\* Who searches is in the queue, in a pass, or matched, whatever fails or is
\* left and opened again, unless a visit was overtaken by an earlier DELETE.
THEOREM Searchers == Spec => []SearchersAreKnown
  BY Invariance, PTL DEF IInv

\* The play page goes to an instance that has created its match with its
\* player, and all pages of a match go to the same one.
THEOREM OneDoor == Spec => []PlayPagesAgree
  BY Invariance, PTL DEF IInv, Places

\* A page that has lost its connection has a timer to take it back.
LostComeBack == \A p \in Players : page[p] = "lost" => returning[p] > 0

\* The timer that fires takes the page away, and nothing else stops one but
\* closing the tab: the argument behind PagesMoveOn, which needs only that
\* timers fire.
THEOREM LostHaveTimers == Spec => []LostComeBack
  <1>1. Init => LostComeBack
    BY DEF Init, LostComeBack
  <1>2. ASSUME TypeOK, LostComeBack, [Next]_vars
        PROVE  LostComeBack'
    <2>1. \A p \in Players : returning[p] \in Nat
      BY <1>2 DEF TypeOK
    <2>2. CASE UNCHANGED vars
      BY <1>2, <2>2 DEF LostComeBack, vars, tabs
    <2>3. ASSUME NEW p \in Players,
                 Visit(p) \/ GoHome(p) \/ Reopen(p) \/ PollMatched(p)
                   \/ Connect(p)
          PROVE  LostComeBack'
      BY <1>2, <2>3
      DEF TypeOK, LostComeBack, Visit, OpenQueuePage, GoHome, Reopen,
          PollMatched, Connect, Show
    <2>4. ASSUME NEW p \in Players, CloseTab(p)
          PROVE  LostComeBack'
      BY <1>2, <2>4 DEF TypeOK, LostComeBack, CloseTab
    <2>5. ASSUME NEW p \in Players, Answer(p) \/ Expire(p) \/ Login(p)
          PROVE  LostComeBack'
      BY <1>2, <2>5
      DEF TypeOK, LostComeBack, Answer, Queued, JoinFails, Expire, Login
    <2>6. ASSUME NEW p \in Players, LoseConnection(p)
          PROVE  LostComeBack'
      BY <1>2, <2>1, <2>6 DEF TypeOK, LostComeBack, LoseConnection, Show
    <2>7. ASSUME NEW p \in Players, Return(p)
          PROVE  LostComeBack'
      <3>1. page'[p] # "lost"
        BY <1>2, <2>7
        DEF TypeOK, Return, OpenQueuePage, Show, QueuePages
      <3>2. \A q \in Players \ {p} :
              page'[q] = page[q] /\ returning'[q] = returning[q]
        BY <1>2, <2>7 DEF TypeOK, Return, OpenQueuePage, Show
      <3> QED
        BY <1>2, <3>1, <3>2 DEF LostComeBack
    <2>8. ASSUME \/ \E p \in Players : Arrive(p)
                 \/ Matchmake
                 \/ \E h \in Announced : StartMatch(h)
                 \/ \E i \in Instances : Crash(i)
          PROVE  LostComeBack'
      BY <1>2, <2>8
      DEF LostComeBack, Arrive, PostArrives, DeleteArrives, Matchmake,
          StartMatch, Crash, tabs
    <2> QED
      BY <1>2, <2>2, <2>3, <2>4, <2>5, <2>6, <2>7, <2>8 DEF Next, User
  <1> QED
    BY <1>1, <1>2, Types, PTL DEF Spec

\* No DELETE of an earlier visit is still on its way when a POST is answered;
\* the pages do not see to that, since they wait for neither.
RequestsInOrder ==
  [][\A p \in Players :
       page[p] = "joining" /\ page'[p] = "polling" => deletes[p] = 0]_vars

\* The matchmaker has every player whose page polls, without exception.
AllSearchersAreKnown == \A p \in Players :
  page[p] = "polling"
    => p \in Range(waiting) \cup Range(taken) \cup DOMAIN matched

\* A request that overtakes another is the only way to lose a player who
\* searches: not closed tabs, expired tokens, failing requests or passes.
THEOREM InOrderAllAreKnown == Spec /\ RequestsInOrder => []AllSearchersAreKnown
  <1> DEFINE InOrder == \A p \in Players :
               page[p] = "joining" /\ page'[p] = "polling" => deletes[p] = 0
             NoneRaced == raced = {}
  <1>1. Init => NoneRaced
    BY DEF Init
  <1>2. ASSUME TypeOK, NoneRaced, [Next]_vars, [InOrder]_vars
        PROVE  NoneRaced'
    <2>1. ASSUME NEW p \in Players, Queued(p)
          PROVE  raced' = {}
      <3>1. page' # page /\ page'[p] = "polling"
        BY <1>2, <2>1 DEF TypeOK, Queued
      <3>2. deletes[p] = 0
        BY <1>2, <2>1, <3>1 DEF Queued, vars, tabs
      <3> QED
        BY <1>2, <2>1, <3>2 DEF Queued
    <2>2. ASSUME NEW p \in Players, User(p) \/ JoinFails(p) \/ PollMatched(p)
                   \/ Arrive(p) \/ Connect(p) \/ LoseConnection(p)
                   \/ Return(p) \/ Expire(p)
          PROVE  raced' = {}
      BY <1>2, <2>2
      DEF User, Visit, OpenQueuePage, GoHome, CloseTab, Reopen, Login,
          JoinFails, PollMatched, Arrive, PostArrives, DeleteArrives, Connect,
          LoseConnection, Return, Expire, Show, tabs
    <2>3. ASSUME \/ Matchmake
                 \/ \E h \in Announced : StartMatch(h)
                 \/ \E i \in Instances : Crash(i)
                 \/ UNCHANGED vars
          PROVE  raced' = {}
      BY <1>2, <2>3 DEF Matchmake, StartMatch, Crash, vars, tabs
    <2> QED
      BY <1>2, <2>1, <2>2, <2>3 DEF Next, Answer
  <1>3. SearchersAreKnown /\ NoneRaced => AllSearchersAreKnown
    BY DEF SearchersAreKnown, AllSearchersAreKnown
  <1>4. TypeOK /\ NoneRaced /\ [Next]_vars /\ [InOrder]_vars => NoneRaced'
    BY <1>2
  <1>5. RequestsInOrder <=> [][InOrder]_vars
    BY DEF RequestsInOrder
  <1> HIDE DEF InOrder, NoneRaced
  <1> QED
    BY <1>1, <1>3, <1>4, <1>5, Types, Searchers, PTL DEF Spec

-----------------------------------------------------------------------------
(* The lobby and the contract of the matchmaker.                            *)

\* Whatever the pages do, the matchmaker is only asked to join or to leave.
LEMMA NextContract == [Next]_vars => [QueueNext]_contract
  <1> SUFFICES ASSUME [Next]_vars PROVE [QueueNext]_contract
    OBVIOUS
  <1>1. CASE UNCHANGED vars
    BY <1>1 DEF vars
  <1>2. ASSUME NEW p \in Players, User(p) \/ PollMatched(p) \/ Connect(p)
                 \/ LoseConnection(p) \/ Return(p) \/ Expire(p)
        PROVE  UNCHANGED contract
    BY <1>2 DEF User, Visit, GoHome, CloseTab, Reopen, Login, PollMatched,
                Connect, LoseConnection, Return, Expire
  <1>3. ASSUME NEW p \in Players, Answer(p) \/ Arrive(p)
        PROVE  UNCHANGED contract \/ Join(p) \/ Leave(p)
    BY <1>3 DEF Answer, Queued, JoinFails, Arrive, PostArrives, DeleteArrives
  <1>4. CASE Matchmake
    BY <1>4 DEF Matchmake, QueueNext
  <1>5. ASSUME NEW h \in Announced, StartMatch(h)
        PROVE  Host(h)
    BY <1>5 DEF StartMatch
  <1>6. ASSUME NEW i \in Instances, Crash(i)
        PROVE  UNCHANGED contract
    BY <1>6 DEF Crash
  <1>7. ASSUME NEW p \in Players, Join(p) \/ Leave(p)
        PROVE  QueueNext
    BY <1>7 DEF QueueNext
  <1>8. ASSUME NEW h \in Announced, Host(h)
        PROVE  QueueNext
    BY <1>8 DEF QueueNext
  <1> QED
    BY <1>1, <1>2, <1>3, <1>4, <1>5, <1>6, <1>7, <1>8 DEF Next

\* The pages keep to the contract that Matchmaker implements: what is proved
\* of the contract holds for players with tabs, failing requests and expiring
\* tokens, too.
THEOREM KeepsContract == Spec => QueueContract
  <1>1. Init => QueueInit
    BY DEF Init
  <1> QED
    BY <1>1, NextContract, PTL DEF Spec, QueueContract

\* The address of a match and the answer of a poll are the same match.
AddressStands == \A p \in DOMAIN game :
  p \in DOMAIN matched /\ matched[p] = game[p]

\* No entry of matched changes or goes.
EntriesStay == \A p \in DOMAIN matched :
  p \in DOMAIN matched' /\ matched'[p] = matched[p]

\* A page opens the address of the entry it was told.
LEMMA AddressStep ==
  ASSUME AddressStands, [Next]_vars, [EntriesStay]_contract
  PROVE  AddressStands'
  <1>1. EntriesStay
    BY DEF EntriesStay, contract, matches
  <1>2. ASSUME NEW p \in Players, PollMatched(p)
        PROVE  AddressStands'
    <2>1. p \in DOMAIN matched /\ matched' = matched
      BY <1>2 DEF PollMatched, Status, contract, matches
    <2> QED
      BY <1>2, <2>1 DEF PollMatched, AddressStands
  <1>3. CASE UNCHANGED game
    BY <1>1, <1>3 DEF AddressStands, EntriesStay
  <1>4. ASSUME NEW p \in Players, User(p) \/ Answer(p) \/ Arrive(p)
                 \/ Connect(p) \/ LoseConnection(p) \/ Return(p) \/ Expire(p)
        PROVE  UNCHANGED game
    BY <1>4 DEF User, Visit, GoHome, CloseTab, Reopen, Login, Answer, Queued,
                JoinFails, Arrive, PostArrives, DeleteArrives, Connect,
                LoseConnection, Return, Expire, tabs
  <1>5. ASSUME \/ Matchmake
               \/ \E h \in Announced : StartMatch(h)
               \/ \E i \in Instances : Crash(i)
               \/ UNCHANGED vars
        PROVE  UNCHANGED game
    BY <1>5 DEF Matchmake, StartMatch, Crash, tabs, vars
  <1> QED
    BY <1>2, <1>3, <1>4, <1>5 DEF Next

\* A player whom no POST queues again while a pass holds him has one match
\* for good: every poll, and every old tab, leads to that one, long after its
\* instance is gone.
THEOREM OneMatchEach == Spec /\ NoRejoin => []AddressStands
  <1>1. Init => AddressStands
    BY DEF Init, AddressStands
  <1>2. MatchIsForGood <=> [][EntriesStay]_contract
    BY DEF MatchIsForGood, EntriesStay
  <1> QED
    BY <1>1, <1>2, AddressStep, KeepsContract, ForGoodWithoutRejoin, PTL
    DEF Spec

\* Whoever was in a match and searches again is not queued, but sent back.
ReturnFindsTheSame ==
  [][\A p \in DOMAIN game :
       page[p] = "joining" /\ page'[p] = "polling"
         => /\ p \notin Range(waiting') \cup Range(taken')
            /\ p \in DOMAIN matched' /\ matched'[p] = game[p]]_vars

\* What ReturnFindsAnother asks for never happens: it takes no race to return
\* to the match that is gone.  Without the one race there is, every return
\* leads there.
THEOREM EveryReturnIsTheSame == Spec /\ NoRejoin => ReturnFindsTheSame
  <1> DEFINE Same == \A p \in DOMAIN game :
               page[p] = "joining" /\ page'[p] = "polling"
                 => /\ p \notin Range(waiting') \cup Range(taken')
                    /\ p \in DOMAIN matched' /\ matched'[p] = game[p]
  <1>1. ASSUME TypeOK, OnePlace', AddressStands', Next,
               NEW p \in DOMAIN game,
               page[p] = "joining", page'[p] = "polling"
        PROVE  /\ p \notin Range(waiting') \cup Range(taken')
               /\ p \in DOMAIN matched' /\ matched'[p] = game[p]
    <2>1. UNCHANGED game
      <3>1. ASSUME NEW q \in Players, PollMatched(q)
            PROVE  FALSE
        <4>1. page'[p] = page[p] \/ page'[p] = "connecting"
          BY <1>1, <3>1 DEF TypeOK, PollMatched, Show
        <4> QED
          BY <1>1, <4>1
      <3>2. ASSUME NEW q \in Players, User(q) \/ Answer(q) \/ Arrive(q)
                     \/ Connect(q) \/ LoseConnection(q) \/ Return(q)
                     \/ Expire(q)
            PROVE  UNCHANGED game
        BY <3>2 DEF User, Visit, GoHome, CloseTab, Reopen, Login, Answer,
                    Queued, JoinFails, Arrive, PostArrives, DeleteArrives,
                    Connect, LoseConnection, Return, Expire, tabs
      <3>3. ASSUME \/ Matchmake
                   \/ \E h \in Announced : StartMatch(h)
                   \/ \E i \in Instances : Crash(i)
            PROVE  UNCHANGED game
        BY <3>3 DEF Matchmake, StartMatch, Crash, tabs
      <3> QED
        BY <1>1, <3>1, <3>2, <3>3 DEF Next
    <2> QED
      BY <1>1, <2>1 DEF OnePlace, AddressStands
  <1>2. TypeOK /\ OnePlace' /\ AddressStands' /\ [Next]_vars => [Same]_vars
    BY <1>1
  <1> QED
    BY <1>2, Types, OneMatchEach, KeepsContract, OnePlaceWithoutRejoin, PTL
    DEF Spec, ReturnFindsTheSame

=============================================================================
