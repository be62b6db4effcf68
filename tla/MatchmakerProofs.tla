-------------------------- MODULE MatchmakerProofs --------------------------
(***************************************************************************)
(* Proofs about Matchmaker, for any players and instances, any match size  *)
(* and any bounds.                                                         *)
(***************************************************************************)
EXTENDS Matchmaker, MatchQueueProofs

-----------------------------------------------------------------------------
(* Places in a queue. *)

\* Who is ahead stays ahead when others come in behind.
LEMMA AheadOfJoiner ==
  ASSUME NEW S, NEW s \in Seq(S), NEW t \in Seq(S), NEW x \in S,
         NEW p, NEW q, Ahead(s \o t, p, q)
  PROVE  Ahead(s \o Append(t, x), p, q)
  <1> DEFINE u == Append(t, x)
             old == s \o t
             new == s \o u
  <1>1. /\ u \in Seq(S)
        /\ Len(u) = Len(t) + 1
        /\ \A i \in 1..Len(t) : u[i] = t[i]
        /\ Len(s) \in Nat /\ Len(t) \in Nat
    BY LenProperties
  <1> HIDE DEF u
  <1>2. /\ old \in Seq(S)
        /\ Len(old) = Len(s) + Len(t)
        /\ \A i \in 1..(Len(s) + Len(t)) :
             old[i] = IF i <= Len(s) THEN s[i] ELSE t[i - Len(s)]
    BY ConcatProperties
  <1>3. /\ new \in Seq(S)
        /\ Len(new) = Len(s) + Len(u)
        /\ \A i \in 1..(Len(s) + Len(u)) : new[i] =
             IF i <= Len(s) THEN s[i] ELSE u[i - Len(s)]
    BY <1>1, ConcatProperties
  <1>4. ASSUME NEW i \in 1..Len(old)
        PROVE  i \in 1..Len(new) /\ new[i] = old[i]
    <2>1. i \in 1..(Len(s) + Len(t)) /\ i \in 1..(Len(s) + Len(u))
      BY <1>1, <1>2
    <2>2. CASE i <= Len(s)
      BY <1>2, <1>3, <2>1, <2>2
    <2>3. CASE ~(i <= Len(s))
      <3>1. i - Len(s) \in 1..Len(t)
        BY <1>1, <2>1, <2>3
      <3>2. new[i] = u[i - Len(s)] /\ old[i] = t[i - Len(s)]
        BY <1>2, <1>3, <2>1, <2>3
      <3>3. i \in 1..Len(new)
        BY <1>3, <2>1
      <3> QED
        BY <1>1, <3>1, <3>2, <3>3
    <2> QED
      BY <2>2, <2>3
  <1>5. PICK i \in 1..Len(old) : old[i] = p /\ \A j \in 1..i : old[j] # q
    BY <1>2, LenProperties DEF Ahead
  <1>6. i \in 1..Len(new) /\ new[i] = p /\ \A j \in 1..i : new[j] # q
    <2>1. \A j \in 1..i : j \in 1..Len(old)
      BY <1>1, <1>2, <1>5
    <2> HIDE DEF old, new
    <2> QED
      BY <1>4, <1>5, <2>1
  <1>7. Ahead(new, p, q)
    BY <1>3, <1>6, LenProperties DEF Ahead
  <1> QED
    BY <1>7 DEF u

\* Who is ahead stays ahead when somebody else leaves.
LEMMA AheadOfLeaver ==
  ASSUME NEW S, NEW s \in Seq(S), NEW t \in Seq(S), NEW k \in 1..Len(t),
         NEW p, NEW q, p # t[k], Ahead(s \o t, p, q)
  PROVE  Ahead(s \o RemoveAt(t, k), p, q)
  <1> DEFINE old == s \o t
             cut == RemoveAt(t, k)
             new == s \o cut
  <1>1. Len(s) \in Nat /\ Len(t) \in Nat
    BY LenProperties
  <1>2. /\ cut \in Seq(S)
        /\ Len(cut) = Len(t) - 1
        /\ \A i \in 1..(Len(t) - 1) :
             cut[i] = IF i < k THEN t[i] ELSE t[i + 1]
    BY RemoveAtElements
  <1> HIDE DEF cut
  <1>3. /\ old \in Seq(S)
        /\ Len(old) = Len(s) + Len(t)
        /\ \A i \in 1..(Len(s) + Len(t)) :
             old[i] = IF i <= Len(s) THEN s[i] ELSE t[i - Len(s)]
    BY ConcatProperties
  <1>4. /\ new \in Seq(S)
        /\ Len(new) = Len(s) + (Len(t) - 1)
        /\ \A i \in 1..(Len(s) + (Len(t) - 1)) :
             new[i] = IF i <= Len(s) THEN s[i] ELSE cut[i - Len(s)]
    BY <1>2, ConcatProperties
  <1>5. ASSUME NEW i \in 1..(Len(s) + (Len(t) - 1))
        PROVE  new[i] = IF i < Len(s) + k THEN old[i] ELSE old[i + 1]
    <2>1. CASE i <= Len(s)
      BY <1>1, <1>3, <1>4, <2>1
    <2>2. CASE ~(i <= Len(s))
      <3>1. i - Len(s) \in 1..(Len(t) - 1) /\ new[i] = cut[i - Len(s)]
        BY <1>1, <1>4, <2>2
      <3>2. cut[i - Len(s)] = IF i - Len(s) < k THEN t[i - Len(s)]
                              ELSE t[(i - Len(s)) + 1]
        BY <1>2, <3>1
      <3>3. old[i] = t[i - Len(s)] /\ old[i + 1] = t[(i + 1) - Len(s)]
        BY <1>1, <1>3, <2>2
      <3>4. (i - Len(s)) + 1 = (i + 1) - Len(s)
        BY <1>1
      <3> QED
        BY <1>1, <3>1, <3>2, <3>3, <3>4
    <2> QED
      BY <2>1, <2>2
  <1>6. PICK a \in 1..Len(old) : old[a] = p /\ \A j \in 1..a : old[j] # q
    BY <1>3, LenProperties DEF Ahead
  <1>7. a # Len(s) + k
    BY <1>1, <1>3, <1>6
  <1> DEFINE b == IF a < Len(s) + k THEN a ELSE a - 1
  <1>8. /\ b \in 1..Len(new) /\ new[b] = p
        /\ \A j \in 1..b : j \in 1..(Len(s) + (Len(t) - 1))
    <2> HIDE DEF old, new
    <2>1. /\ b \in 1..(Len(s) + (Len(t) - 1))
          /\ a = IF b < Len(s) + k THEN b ELSE b + 1
      BY <1>1, <1>3, <1>6, <1>7
    <2>2. new[b] = old[a]
      BY <1>5, <2>1
    <2> HIDE DEF b
    <2> QED
      BY <1>1, <1>4, <1>6, <2>1, <2>2
  <1>9. ASSUME NEW j \in 1..b PROVE new[j] # q
    <2>1. j \in 1..(Len(s) + (Len(t) - 1))
      BY <1>8
    <2>2. /\ j \in Nat /\ a \in Nat /\ b \in Nat /\ Len(s) + k \in Nat
          /\ 1 <= j /\ j <= b
      BY <1>1, <1>3, <1>6, <1>7, <1>8
    <2>3. CASE j < Len(s) + k
      <3>1. j \in 1..a
        BY <1>7, <2>2, <2>3
      <3>2. new[j] = old[j]
        BY <1>5, <2>1, <2>3
      <3> QED
        BY <1>6, <3>1, <3>2
    <2>4. CASE ~(j < Len(s) + k)
      <3>1. j + 1 \in 1..a
        BY <2>2, <2>4
      <3>2. new[j] = old[j + 1]
        BY <1>5, <2>1, <2>4
      <3> QED
        BY <1>6, <3>1, <3>2
    <2> QED
      BY <2>3, <2>4
  <1> HIDE DEF b, new
  <1>10. b \in DOMAIN new
    BY <1>4, <1>8, LenProperties
  <1>11. Ahead(new, p, q)
    BY <1>8, <1>9, <1>10 DEF Ahead
  <1> QED
    BY <1>11 DEF new, cut

\* Who is ahead stays ahead when the front of the queue goes.
LEMMA AheadOfTaken ==
  ASSUME NEW S, NEW s \in Seq(S), NEW t \in Seq(S),
         NEW p, NEW q, p \notin Range(s), Ahead(s \o t, p, q)
  PROVE  Ahead(t, p, q)
  <1> DEFINE old == s \o t
  <1>1. Len(s) \in Nat /\ Len(t) \in Nat
    BY LenProperties
  <1>2. /\ old \in Seq(S)
        /\ Len(old) = Len(s) + Len(t)
        /\ \A i \in 1..(Len(s) + Len(t)) :
             old[i] = IF i <= Len(s) THEN s[i] ELSE t[i - Len(s)]
    BY ConcatProperties
  <1>3. PICK a \in 1..Len(old) : old[a] = p /\ \A j \in 1..a : old[j] # q
    BY <1>2, LenProperties DEF Ahead
  <1>4. ~(a <= Len(s))
    BY <1>1, <1>2, <1>3, RangeType
  <1>5. a - Len(s) \in 1..Len(t) /\ t[a - Len(s)] = p
    BY <1>1, <1>2, <1>3, <1>4
  <1>6. ASSUME NEW j \in 1..(a - Len(s)) PROVE t[j] # q
    <2>1. j + Len(s) \in 1..a /\ old[j + Len(s)] = t[(j + Len(s)) - Len(s)]
      BY <1>1, <1>2, <1>3, <1>4
    <2>2. (j + Len(s)) - Len(s) = j
      BY <1>1
    <2> QED
      BY <1>3, <2>1, <2>2
  <1> QED
    BY <1>5, <1>6, LenProperties DEF Ahead

-----------------------------------------------------------------------------
(* The inductive invariant, and the steps that keep it. *)

\* Whoever wants a match is waiting, in the hands of the pass, or matched.
Kept == wants \subseteq Known

\* Nobody has yet been recorded with the match ID of the pass under way, and
\* what is on its way to an instance has such an ID.
Fresh ==
  /\ step \in {"try", "call"} =>
       \A p \in DOMAIN matched : matched[p].match # Len(rosters)
  /\ requests \subseteq Announced

IInv == TypeOK /\ Kept /\ MatchedIsHosted /\ Fresh

\* The queue starts out empty.
LEMMA InitIInv == Init => IInv
  <1> SUFFICES ASSUME Init PROVE IInv
    OBVIOUS
  <1>1. Range(waiting) = {} /\ Range(taken) = {} /\ DOMAIN matched = {}
    BY DEF Init, QueueInit, Range
  <1>2. TypeOK
    BY <1>1 DEF Init, QueueInit, TypeOK
  <1>3. Kept /\ MatchedIsHosted /\ Fresh
    BY <1>1 DEF Init, QueueInit, Kept, Known, MatchedIsHosted, Fresh
  <1> QED
    BY <1>2, <1>3 DEF IInv

\* A step that leaves the matches alone leaves what is known of them true.
LEMMA SameMatches ==
  ASSUME IInv, UNCHANGED matches, requests' \subseteq Announced,
         step' \in {"try", "call"} => step \in {"try", "call"}
  PROVE  MatchedIsHosted' /\ Fresh'
  BY DEF IInv, MatchedIsHosted, Fresh, Announced, MatchIDs, matches

\* Join keeps the invariant: the player is queued, or was already known.
LEMMA JoinIInv ==
  ASSUME IInv, NEW p \in Players, HandleJoinQueue(p) PROVE IInv'
  <1>1. LineOK' /\ Known \subseteq Known' /\ p \in Known'
    BY JoinKnown DEF IInv, TypeOK, LineOK, HandleJoinQueue
  <1>2. TypeOK'
    BY <1>1 DEF IInv, TypeOK, LineOK, HandleJoinQueue, Join, pass, matches
  <1>3. Kept'
    BY <1>1 DEF IInv, Kept, HandleJoinQueue
  <1>4. MatchedIsHosted' /\ Fresh'
    BY SameMatches DEF IInv, Fresh, HandleJoinQueue, Join, pass
  <1> QED
    BY <1>2, <1>3, <1>4 DEF IInv

\* Leave keeps the invariant: it takes nobody out but the player who leaves.
LEMMA LeaveIInv ==
  ASSUME IInv, NEW p \in Players, HandleLeaveQueue(p) PROVE IInv'
  <1>1. LineOK' /\ Known \subseteq Known' \cup {p}
    BY LeaveKnown DEF IInv, TypeOK, LineOK, HandleLeaveQueue
  <1>2. TypeOK'
    BY <1>1 DEF IInv, TypeOK, LineOK, HandleLeaveQueue, Leave, pass, matches
  <1>3. Kept'
    BY <1>1 DEF IInv, Kept, HandleLeaveQueue
  <1>4. MatchedIsHosted' /\ Fresh'
    BY SameMatches DEF IInv, Fresh, HandleLeaveQueue, Leave, pass
  <1> QED
    BY <1>2, <1>3, <1>4 DEF IInv

\* Between passes no player is in the hands of one.
LEMMA IdleTaken == IInv /\ step = "idle" => taken = <<>>
  BY EmptySeq DEF IInv, TypeOK

\* A pass begins: whoever leaves the queue is in its hands.
LEMMA TakePlayersIInv == IInv /\ TakePlayers => IInv'
  <1> SUFFICES ASSUME IInv, TakePlayers PROVE IInv'
    OBVIOUS
  <1>1. /\ LineOK' /\ Len(taken') = MinPlayersPerMatch
        /\ Known \subseteq Known'
    BY TakeKnown, IdleTaken DEF IInv, TypeOK, LineOK, TakePlayers, Goto
  <1>2. step = "idle" /\ step' = "list" /\ UNCHANGED <<todo, up, requests,
          wants, matched, rosters, hosted>>
    BY DEF TakePlayers, Take, TakeFirst, Goto, matches
  <1>3. TypeOK'
    BY <1>1, <1>2 DEF IInv, TypeOK, LineOK
  <1>4. Kept'
    BY <1>1, <1>2 DEF IInv, Kept
  <1>5. MatchedIsHosted' /\ Fresh'
    BY <1>2, SameMatches DEF IInv, Fresh, matches
  <1> QED
    BY <1>3, <1>4, <1>5 DEF IInv

\* A pass fails: those in its hands are back in the queue.
LEMMA RequeueIInv ==
  ASSUME IInv, Requeue, step' = "idle", todo' = <<>>,
         UNCHANGED <<up, requests, wants>>
  PROVE  IInv'
  <1>1. /\ LineOK' /\ Known \subseteq Known'
        /\ taken' = <<>> /\ UNCHANGED <<matched, rosters, hosted>>
    BY RequeueKnown
    DEF IInv, TypeOK, LineOK, Requeue, PassIsOver, matches
  <1>2. TypeOK'
    BY <1>1 DEF IInv, TypeOK, LineOK
  <1>3. Kept'
    BY <1>1 DEF IInv, Kept
  <1>4. MatchedIsHosted' /\ Fresh'
    BY <1>1, SameMatches DEF IInv, Fresh, matches
  <1> QED
    BY <1>2, <1>3, <1>4 DEF IInv

\* A new match ID does not disturb the matches before it, and is new.
LEMMA ListLiveIInv == IInv /\ ListLive => IInv'
  <1> SUFFICES ASSUME IInv, ListLive PROVE IInv'
    OBVIOUS
  <1>1. todo' \in Seq(Instances)
    BY DEF ListLive, BoundedSeq, SeqOf
  <1>2. /\ rosters' \in Seq(Seq(Players))
        /\ Len(rosters) \in Nat
        /\ Len(rosters') = Len(rosters) + 1
        /\ rosters'[Len(rosters) + 1] = taken
        /\ \A i \in MatchIDs : rosters'[i] = rosters[i]
        /\ rosters' # <<>>
    <2>1. rosters' = Append(rosters, taken) /\ rosters \in Seq(Seq(Players))
      BY DEF IInv, TypeOK, ListLive, Generate
    <2>2. taken \in Seq(Players)
      BY DEF IInv, TypeOK
    <2> QED
      BY <2>1, <2>2, LenProperties DEF MatchIDs
  <1>3. step = "list" /\ step' = "try" /\ UNCHANGED <<waiting, taken, matched,
          hosted, up, requests, wants>>
    BY DEF ListLive, Generate, Goto, line
  <1>4. TypeOK'
    BY <1>1, <1>2, <1>3 DEF IInv, TypeOK
  <1>5. Kept'
    BY <1>3 DEF IInv, Kept, Known
  <1>6. MatchIDs \subseteq MatchIDs' /\ Len(rosters') \notin MatchIDs
    BY <1>2 DEF MatchIDs
  <1>7. MatchedIsHosted'
    BY <1>2, <1>3, <1>6 DEF IInv, MatchedIsHosted
  <1>8. Fresh'
    BY <1>3, <1>6 DEF IInv, MatchedIsHosted, Fresh, Announced
  <1> QED
    BY <1>4, <1>5, <1>7, <1>8 DEF IInv

\* The request names an instance of the listing and the match of the pass.
LEMMA CurrentType ==
  ASSUME IInv, todo # <<>>, step \in {"try", "call"}
  PROVE  Current \in Hosting /\ Current \in Announced
  <1>1. Head(todo) \in Instances
    BY HeadTailProperties DEF IInv, TypeOK
  <1>2. Len(rosters) \in Nat /\ Len(rosters) \in MatchIDs
    BY LenProperties, EmptySeq DEF IInv, TypeOK, MatchIDs
  <1> QED
    BY <1>1, <1>2 DEF Current, Hosting, Announced

\* Sending a request changes neither queue nor matches.
LEMMA CallIInv == IInv /\ Call => IInv'
  <1> SUFFICES ASSUME IInv, Call PROVE IInv'
    OBVIOUS
  <1>1. /\ requests' \subseteq Hosting
        /\ requests' \subseteq Announced
    BY CurrentType DEF IInv, TypeOK, Fresh, Call, Goto
  <1>2. TypeOK'
    BY <1>1 DEF IInv, TypeOK, Call, Goto, contract, line, matches
  <1>3. Kept'
    BY DEF IInv, Kept, Known, Call, Goto, contract, line, matches
  <1>4. MatchedIsHosted' /\ Fresh'
    BY <1>1, SameMatches DEF Call, Goto, contract
  <1> QED
    BY <1>2, <1>3, <1>4 DEF IInv

\* Nor does giving up on an instance.
LEMMA CallFailsIInv == IInv /\ CallFails => IInv'
  <1> SUFFICES ASSUME IInv, CallFails PROVE IInv'
    OBVIOUS
  <1> USE DEF CallFails, GiveUp
  <1>1. todo' \in Seq(Instances)
    BY HeadTailProperties DEF IInv, TypeOK, Goto
  <1>2. TypeOK'
    BY <1>1 DEF IInv, TypeOK, Goto, contract, line, matches
  <1>3. Kept'
    BY DEF IInv, Kept, Known, Goto, contract, line, matches
  <1>4. MatchedIsHosted' /\ Fresh'
    BY SameMatches DEF IInv, Fresh, Goto, contract
  <1> QED
    BY <1>2, <1>3, <1>4 DEF IInv

\* A pass succeeds: its players are recorded with a match that exists.
LEMMA AcceptedIInv == IInv /\ Accepted => IInv'
  <1> SUFFICES ASSUME IInv, Accepted PROVE IInv'
    OBVIOUS
  <1>1. /\ todo # <<>>
        /\ taken \in Seq(Players)
        /\ rosters \in Seq(Seq(Players))
        /\ rosters # <<>>
        /\ taken = rosters[Len(rosters)]
    BY DEF IInv, TypeOK, Accepted, Goto
  <1>2. Current \in Hosting /\ Range(taken) \subseteq Players
    BY <1>1, CurrentType, RangeType DEF Accepted, Goto
  <1>3. /\ step' = "idle" /\ todo' = <<>> /\ taken' = <<>>
        /\ UNCHANGED <<waiting, rosters, hosted, up, requests, wants>>
    BY DEF Accepted, Record, PassIsOver, Goto
  <1>4. /\ DOMAIN matched' = DOMAIN matched \cup Range(taken)
        /\ \A p \in Range(taken) : matched'[p] = Current
        /\ \A p \in DOMAIN matched \ Range(taken) : matched'[p] = matched[p]
        /\ matched' \in [DOMAIN matched' -> Hosting]
    BY <1>2 DEF IInv, TypeOK, Accepted, Record
  <1>5. TypeOK'
    BY <1>2, <1>3, <1>4 DEF IInv, TypeOK
  <1>6. Kept'
    BY <1>3, <1>4 DEF IInv, Kept, Known
  <1>7. MatchedIsHosted'
    <2>1. Current.match = Len(rosters) /\ Len(rosters) \in MatchIDs
      BY <1>1, EmptySeq DEF Current, MatchIDs
    <2>2. Current \in hosted
      BY DEF Accepted
    <2> QED
      BY <1>1, <1>3, <1>4, <2>1, <2>2 DEF IInv, MatchedIsHosted, MatchIDs
  <1>8. Fresh'
    BY <1>3 DEF IInv, Fresh, Announced, MatchIDs
  <1> QED
    BY <1>5, <1>6, <1>7, <1>8 DEF IInv

\* Whatever the instances and the network do, nobody leaves the queue and no
\* match goes away.
LEMMA OutsideIInv ==
  ASSUME IInv, UNCHANGED <<line, matched, rosters, pass, wants>>,
         up' \subseteq Instances, requests' \subseteq requests,
         hosted' \subseteq hosted \cup requests, hosted \subseteq hosted'
  PROVE  IInv'
  <1>1. TypeOK'
    BY DEF IInv, TypeOK, line, pass
  <1>2. Kept' /\ MatchedIsHosted'
    BY DEF IInv, Kept, Known, MatchedIsHosted, MatchIDs, line, pass
  <1>3. Fresh'
    BY DEF IInv, Fresh, Announced, MatchIDs, pass
  <1> QED
    BY <1>1, <1>2, <1>3 DEF IInv

\* Every step keeps the invariant.
LEMMA NextIInv == IInv /\ [Next]_vars => IInv'
  <1> SUFFICES ASSUME IInv, [Next]_vars PROVE IInv'
    OBVIOUS
  <1>1. ASSUME NEW p \in Players, HandleJoinQueue(p) \/ HandleLeaveQueue(p)
        PROVE  IInv'
    BY <1>1, JoinIInv, LeaveIInv
  <1>2. CASE TryFormMatch
    <2>1. CASE ListNone \/ AllRejected
      BY <2>1, RequeueIInv DEF ListNone, AllRejected, Goto
    <2> QED
      BY <1>2, <2>1, TakePlayersIInv, ListLiveIInv, CallIInv, CallFailsIInv,
         AcceptedIInv
      DEF TryFormMatch
  <1>3. up \subseteq Instances
    BY DEF IInv, TypeOK
  <1>4. ASSUME NEW request \in requests, StartMatch(request) \/ Lose(request)
        PROVE  IInv'
    BY <1>3, <1>4, OutsideIInv DEF StartMatch, Lose, Host, contract, matches
  <1>5. ASSUME NEW i \in Instances, Crash(i) \/ Restart(i)
        PROVE  IInv'
    BY <1>3, <1>5, OutsideIInv DEF Crash, Restart, contract, matches
  <1>6. CASE UNCHANGED vars
    BY <1>3, <1>6, OutsideIInv DEF vars, contract, matches
  <1> QED
    BY <1>1, <1>2, <1>4, <1>5, <1>6 DEF Next

\* The invariant holds throughout every behaviour of the matchmaker.
LEMMA Invariance == Spec => []IInv
  BY InitIInv, NextIInv, PTL DEF Spec

-----------------------------------------------------------------------------
(* The theorems. *)

\* Every variable of the matchmaker keeps its type, and a pass its players.
THEOREM Types == Spec => []TypeOK
  BY Invariance, PTL DEF IInv

\* No crash, lost call or failed pass makes the matchmaker forget a player.
THEOREM NobodyIsLost == Spec => []NoPlayerLost
  <1>1. IInv => NoPlayerLost
    BY DEF IInv, Kept, Known, NoPlayerLost, Status
  <1> QED
    BY <1>1, Invariance, PTL

\* Nobody who stays in the queue is overtaken, by whatever step.
THEOREM KeepingPlace == Spec => NobodyIsOvertaken
  <1> DEFINE Stays(p, q) == p \in wants' \ DOMAIN matched' /\ Ahead(Line, p, q)
                             => Ahead(Line', p, q)
  <1>1. ASSUME IInv, Next, NEW p \in Players, NEW q \in Players,
               p \in wants', p \notin DOMAIN matched', Ahead(Line, p, q)
        PROVE  Ahead(Line', p, q)
    <2>1. waiting \in Seq(Players) /\ taken \in Seq(Players)
      BY <1>1 DEF IInv, TypeOK
    <2>2. CASE UNCHANGED line
      BY <1>1, <2>2 DEF Line, line
    <2>3. ASSUME NEW x \in Players, HandleJoinQueue(x)
          PROVE  Ahead(Line', p, q)
      <3>1. taken' = taken
        BY <2>3 DEF HandleJoinQueue, Join
      <3>2. CASE waiting' = Append(waiting, x)
        BY <1>1, <2>1, <3>1, <3>2, AheadOfJoiner DEF Line
      <3> QED
        BY <1>1, <2>3, <3>1, <3>2 DEF HandleJoinQueue, Join, Line
    <2>4. ASSUME NEW x \in Players, HandleLeaveQueue(x)
          PROVE  Ahead(Line', p, q)
      <3>1. taken' = taken /\ p # x
        BY <1>1, <2>4 DEF HandleLeaveQueue, Leave
      <3>2. CASE UNCHANGED waiting
        BY <1>1, <3>1, <3>2 DEF Line
      <3>3. ASSUME NEW i \in DOMAIN waiting,
                   waiting[i] = x, waiting' = RemoveAt(waiting, i)
            PROVE  Ahead(Line', p, q)
        BY <1>1, <2>1, <3>1, <3>3, AheadOfLeaver, LenProperties DEF Line
      <3> QED
        BY <2>4, <3>2, <3>3 DEF HandleLeaveQueue, Leave
    <2>5. CASE TakePlayers
      <3>1. taken = <<>>
        BY <1>1, <2>5, IdleTaken DEF TakePlayers, Goto
      <3>2. /\ MinPlayersPerMatch \in 0..Len(waiting) /\ Len(waiting) \in Nat
            /\ taken' = SubSeq(waiting, 1, MinPlayersPerMatch)
            /\ waiting' = SubSeq(waiting, MinPlayersPerMatch + 1, Len(waiting))
        BY <2>1, <2>5, PassAssumption, LenProperties
        DEF TakePlayers, Take, TakeFirst
      <3>3. taken' \o waiting' = waiting
        <4>1. /\ 1 \in 1..(Len(waiting) + 1)
              /\ MinPlayersPerMatch \in (1 - 1)..Len(waiting)
              /\ Len(waiting) \in MinPlayersPerMatch..Len(waiting)
          BY <3>2
        <4>2. taken' \o waiting' = SubSeq(waiting, 1, Len(waiting))
          BY <2>1, <3>2, <4>1, ConcatAdjacentSubSeq
        <4> QED
          BY <2>1, <4>2, SubSeqFull
      <3>4. Line = waiting
        BY <2>1, <3>1, ConcatEmptySeq DEF Line
      <3> QED
        BY <1>1, <3>3, <3>4 DEF Line
    <2>6. CASE ListNone \/ AllRejected
      <3>1. waiting' = taken \o waiting /\ taken' = <<>>
        BY <2>6 DEF ListNone, AllRejected, Requeue, PassIsOver
      <3>2. Line \in Seq(Players)
        BY <2>1, ConcatProperties DEF Line
      <3>3. Line' = Line
        BY <3>1, <3>2, ConcatEmptySeq DEF Line
      <3> QED
        BY <1>1, <3>3
    <2>7. CASE Accepted
      <3>1. /\ DOMAIN matched' = DOMAIN matched \cup Range(taken)
            /\ waiting' = waiting /\ taken' = <<>>
        BY <2>7 DEF Accepted, Record, PassIsOver
      <3>2. Ahead(waiting, p, q)
        BY <1>1, <2>1, <3>1, AheadOfTaken DEF Line
      <3>3. Line' = waiting
        BY <2>1, <3>1, ConcatEmptySeq DEF Line
      <3> QED
        BY <3>2, <3>3
    <2>8. CASE ListLive \/ Call \/ CallFails
      BY <2>2, <2>8 DEF ListLive, Generate, Call, CallFails, GiveUp, contract
    <2>9. ASSUME NEW request \in requests, StartMatch(request) \/ Lose(request)
          PROVE  Ahead(Line', p, q)
      BY <2>2, <2>9 DEF StartMatch, Lose, Host, contract
    <2>10. ASSUME NEW i \in Instances, Crash(i) \/ Restart(i)
           PROVE  Ahead(Line', p, q)
      BY <2>2, <2>10 DEF Crash, Restart, contract
    <2> QED
      BY <1>1, <2>3, <2>4, <2>5, <2>6, <2>7, <2>8, <2>9, <2>10
      DEF Next, TryFormMatch
  <1>2. IInv /\ [Next]_vars =>
          [\A p, q \in Players : Stays(p, q)]_vars
    BY <1>1
  <1> QED
    BY <1>2, Invariance, PTL DEF Spec, NobodyIsOvertaken

\* The pass of tryFormMatch implements the contract of MatchQueue: every step
\* of the matchmaker, its instances and its network is a step of the contract
\* or leaves the contract's variables alone.
THEOREM Contract == Spec => ImplementsContract
  <1>1. Init => QueueInit
    BY DEF Init
  <1>2. IInv /\ [Next]_vars => [QueueNext]_contract
    <2> SUFFICES ASSUME IInv, [Next]_vars PROVE [QueueNext]_contract
      OBVIOUS
    <2>1. ASSUME NEW p \in Players, HandleJoinQueue(p) \/ HandleLeaveQueue(p)
          PROVE  QueueNext
      BY <2>1 DEF HandleJoinQueue, HandleLeaveQueue, QueueNext
    <2>2. CASE TakePlayers
      BY <2>2, IdleTaken DEF TakePlayers, Goto, Begin, QueueNext
    <2>3. CASE ListNone \/ AllRejected \/ ListLive
      <3>1. step # "idle"
        BY <2>3 DEF ListNone, AllRejected, ListLive, Goto
      <3>2. taken # <<>>
        BY <3>1, PassAssumption, EmptySeq DEF IInv, TypeOK
      <3> QED
        BY <2>3, <3>2 DEF ListNone, AllRejected, ListLive, QueueNext
    <2>4. CASE Call \/ CallFails
      BY <2>4 DEF Call, CallFails, GiveUp
    <2>5. CASE Accepted
      <3>1. Current \in hosted /\ Record(Current) /\ step = "call"
        BY <2>5 DEF Accepted, Goto
      <3>2. Current.match = Len(rosters) /\ rosters[Len(rosters)] = taken
        BY <3>1 DEF IInv, TypeOK, Current
      <3> QED
        BY <3>1, <3>2 DEF IInv, Fresh, Conclude, QueueNext
    <2>6. ASSUME NEW request \in requests, StartMatch(request)
          PROVE  QueueNext
      BY <2>6 DEF IInv, Fresh, StartMatch, QueueNext
    <2>7. ASSUME NEW request \in requests, Lose(request)
          PROVE  UNCHANGED contract
      BY <2>7 DEF Lose
    <2>8. ASSUME NEW i \in Instances, Crash(i) \/ Restart(i)
          PROVE  UNCHANGED contract
      BY <2>8 DEF Crash, Restart
    <2> QED
      BY <2>1, <2>2, <2>3, <2>4, <2>5, <2>6, <2>7, <2>8
      DEF Next, TryFormMatch, vars
  <1> QED
    BY <1>1, <1>2, Invariance, PTL DEF Spec, ImplementsContract, QueueContract

\* So what follows from the contract holds of the matchmaker: its matches exist
\* and list their players, and the players of a match meet at one instance.
THEOREM PlayersOfAMatchMeet == Spec => [](MatchedIsHosted /\ PlayersMeet)
  BY Contract, ContractHostsMatches, ContractLetsPlayersMeet, PTL
  DEF ImplementsContract

\* Unless a POST meets the pass that holds its player, nobody stands in the
\* queue twice: the interleaving that Matchmaker_rejoin shows is the only one.
THEOREM NoDuplicateWithoutRejoin == Spec /\ NoRejoin => []NoDuplicateWaiting
  <1>1. OnePlace => NoDuplicateWaiting
    BY DEF OnePlace, NoDuplicateWaiting, IsInjective
  <1> QED
    BY <1>1, Contract, OnePlaceWithoutRejoin, PTL DEF ImplementsContract

LEMMA ContractInvariance == Spec => []CInv
  BY Contract, InitCInv, NextCInv, PTL DEF ImplementsContract, QueueContract

-----------------------------------------------------------------------------
(* A match is created once. *)

\* What was sent to an instance, on its way or carried out.
Sent == requests \cup hosted

\* Of the instances still to be tried, none has been asked for the match of the
\* pass but the one whose answer the pass waits for.
Untried ==
  /\ requests \cap hosted = {}
  /\ step = "try" =>
       \A h \in Sent : h.match = Len(rosters) => h.instance \notin Range(todo)
  /\ step = "call" =>
       \A h \in Sent : h.match = Len(rosters) /\ h.instance \in Range(todo)
         => h.instance = Head(todo)

\* The instances after the current one; it is not among them.
LEMMA TailOfListing ==
  ASSUME NEW S, NEW s \in Seq(S), s # <<>>, IsInjective(s)
  PROVE  /\ Head(s) \in Range(s)
         /\ Range(Tail(s)) \subseteq Range(s) \ {Head(s)}
  <1>1. /\ Head(s) = s[1]
        /\ Tail(s) \in Seq(S) /\ Len(Tail(s)) = Len(s) - 1
        /\ \A i \in 1..Len(Tail(s)) : Tail(s)[i] = s[i + 1]
        /\ Len(s) \in Nat /\ Len(s) >= 1
    BY HeadTailProperties, LenProperties, EmptySeq
  <1>2. /\ Range(s) = {s[i] : i \in 1..Len(s)}
        /\ Range(Tail(s)) = {Tail(s)[i] : i \in 1..Len(Tail(s))}
    BY <1>1, RangeType
  <1>3. ASSUME NEW i \in 1..Len(Tail(s))
        PROVE  Tail(s)[i] \in Range(s) /\ Tail(s)[i] # Head(s)
    <2>1. i + 1 \in 1..Len(s) /\ 1 \in 1..Len(s) /\ i + 1 # 1
      BY <1>1
    <2>2. s[i + 1] # s[1]
      BY <2>1, DistinctElements
    <2> QED
      BY <1>1, <1>2, <2>1, <2>2
  <1> QED
    BY <1>1, <1>2, <1>3

\* A call adds the one request that the pass waits for.
LEMMA CallUntried == ASSUME IInv, Untried, Call PROVE Untried'
  <1>1. /\ todo # <<>> /\ todo \in Seq(Instances) /\ step = "try"
        /\ step' = "call" /\ requests' = requests \cup {Current}
        /\ UNCHANGED <<hosted, rosters, todo>>
    BY DEF IInv, TypeOK, Call, Goto, contract, matches
  <1>2. Head(todo) \in Range(todo)
    BY <1>1, HeadTailProperties, LenProperties, EmptySeq, RangeType
  <1>3. Current.match = Len(rosters) /\ Current.instance = Head(todo)
    BY DEF Current
  <1>4. Current \notin hosted
    BY <1>1, <1>2, <1>3 DEF Untried, Sent
  <1> QED
    BY <1>1, <1>2, <1>3, <1>4 DEF Untried, Sent

\* A pass that gives up on an instance does not come back to it.
LEMMA CallFailsUntried ==
  ASSUME IInv, Untried, IsInjective(todo), CallFails
  PROVE  Untried'
  <1>1. /\ todo # <<>> /\ todo \in Seq(Instances) /\ step = "call"
        /\ step' = "try" /\ todo' = Tail(todo)
        /\ UNCHANGED <<hosted, rosters, requests>>
    BY DEF IInv, TypeOK, CallFails, GiveUp, Goto, contract, matches
  <1>2. Range(todo') \subseteq Range(todo) \ {Head(todo)}
    BY <1>1, TailOfListing
  <1> QED
    BY <1>1, <1>2 DEF Untried, Sent

\* Nobody has been asked for a match before it has an ID.
LEMMA ListLiveUntried == ASSUME IInv, CInv, Untried, ListLive PROVE Untried'
  <1>1. /\ rosters' = Append(rosters, taken) /\ step' = "try"
        /\ rosters \in Seq(Seq(Players)) /\ taken \in Seq(Players)
        /\ UNCHANGED <<hosted, requests>>
    BY DEF IInv, TypeOK, ListLive, Generate, Goto
  <1>2. Len(rosters) \in Nat /\ Len(rosters') = Len(rosters) + 1
    BY <1>1, LenProperties
  <1>3. \A h \in Sent : h.match \in 1..Len(rosters)
    BY DEF IInv, Fresh, CInv, Announced, MatchIDs, Sent
  <1>4. \A h \in Sent' : h.match # Len(rosters')
    BY <1>1, <1>2, <1>3 DEF Sent
  <1> QED
    BY <1>1, <1>4 DEF Untried, Sent

LEMMA NextUntried ==
  IInv /\ CInv /\ IsInjective(todo) /\ Untried /\ [Next]_vars => Untried'
  <1> SUFFICES ASSUME IInv, CInv, IsInjective(todo), Untried, [Next]_vars
               PROVE  Untried'
    OBVIOUS
  <1>1. ASSUME UNCHANGED <<matches, requests>>,
               UNCHANGED pass \/ step' \in {"idle", "list"}
        PROVE  Untried'
    BY <1>1 DEF Untried, Sent, matches, pass
  <1>2. ASSUME NEW p \in Players, HandleJoinQueue(p) \/ HandleLeaveQueue(p)
        PROVE  Untried'
    BY <1>1, <1>2 DEF HandleJoinQueue, HandleLeaveQueue, Join, Leave
  <1>3. CASE TakePlayers \/ ListNone \/ AllRejected
    BY <1>1, <1>3
    DEF TakePlayers, ListNone, AllRejected, Goto, Take, TakeFirst, Requeue
  <1>4. CASE Accepted
    BY <1>4 DEF Accepted, Goto, Record, Untried, Sent
  <1>5. ASSUME NEW request \in requests, StartMatch(request) \/ Lose(request)
        PROVE  Untried'
    <2>1. UNCHANGED <<rosters, pass>>
      BY <1>5 DEF StartMatch, Lose, Host, contract, matches
    <2>2. Sent' \subseteq Sent /\ requests' \cap hosted' = {}
      BY <1>5 DEF StartMatch, Lose, Host, contract, matches, Sent, Untried
    <2> QED
      BY <2>1, <2>2 DEF Untried, pass
  <1>6. ASSUME NEW i \in Instances, Crash(i) \/ Restart(i)
        PROVE  Untried'
    BY <1>1, <1>6 DEF Crash, Restart, contract
  <1>7. CASE UNCHANGED vars
    BY <1>1, <1>7 DEF vars, contract
  <1> QED
    BY <1>2, <1>3, <1>4, <1>5, <1>6, <1>7, CallUntried, CallFailsUntried,
       ListLiveUntried DEF Next, TryFormMatch

\* As long as the registry names every instance once, no request reaches an
\* instance that has created its match: however often calls are repeated and
\* however late they arrive, no running match is replaced by an empty one.
THEOREM CreatesOnce == Spec => CreatedOnce
  <1>1. Init => Untried
    BY DEF Init, QueueInit, Untried
  <1>2. Untried => requests \cap hosted = {}
    BY DEF Untried
  <1> QED
    BY <1>1, <1>2, NextUntried, Invariance, ContractInvariance, PTL
    DEF Spec, CreatedOnce

-----------------------------------------------------------------------------
(* A pass gets shorter with every step of its own. *)

\* What is left to do for the instances of the listing: a call and its end for
\* each, and the return of the players.
PassRank == IF step = "try" THEN 2 * Len(todo) + 1 ELSE 2 * Len(todo)

\* While a pass is under way, every step ends it, ends its listing, reduces its
\* rank, or is somebody else's and leaves the pass alone.
PassShrinks == [][step # "idle" =>
  \/ step' = "idle"
  \/ step = "list" /\ step' = "try"
  \/ step # "list" /\ step' \in {"try", "call"} /\ PassRank' < PassRank
  \/ UNCHANGED pass]_vars

\* Nothing can keep a pass going for ever: what players, instances and network
\* do meanwhile adds no work to it.  It is the variant behind PassEnds.
THEOREM PassesShrink == Spec => PassShrinks
  <1> DEFINE Shrinks == step # "idle" =>
               \/ step' = "idle"
               \/ step = "list" /\ step' = "try"
               \/ /\ step # "list" /\ step' \in {"try", "call"}
                  /\ PassRank' < PassRank
               \/ UNCHANGED pass
  <1>1. ASSUME IInv, Next PROVE Shrinks
    <2>1. CASE Call
      <3>1. step = "try" /\ step' = "call" /\ todo' = todo /\ Len(todo) \in Nat
        BY <1>1, <2>1, LenProperties DEF IInv, TypeOK, Call, Goto
      <3>2. PassRank' < PassRank
        BY <3>1 DEF PassRank
      <3> QED
        BY <3>1, <3>2
    <2>2. CASE CallFails
      <3>1. /\ step = "call" /\ step' = "try" /\ todo' = Tail(todo)
            /\ todo \in Seq(Instances) /\ todo # <<>>
        BY <1>1, <2>2 DEF IInv, TypeOK, CallFails, GiveUp, Goto
      <3>2. Len(todo') = Len(todo) - 1 /\ Len(todo) \in Nat
        BY <3>1, HeadTailProperties, LenProperties
      <3>3. PassRank' < PassRank
        BY <3>1, <3>2 DEF PassRank
      <3> QED
        BY <3>1, <3>3
    <2>3. CASE TakePlayers \/ ListNone \/ ListLive \/ Accepted \/ AllRejected
      BY <2>3 DEF TakePlayers, ListNone, ListLive, Accepted, AllRejected, Goto
    <2>4. ASSUME NEW p \in Players, HandleJoinQueue(p) \/ HandleLeaveQueue(p)
          PROVE  UNCHANGED pass
      BY <2>4 DEF HandleJoinQueue, HandleLeaveQueue
    <2>5. ASSUME NEW request \in requests, StartMatch(request) \/ Lose(request)
          PROVE  UNCHANGED pass
      BY <2>5 DEF StartMatch, Lose
    <2>6. ASSUME NEW i \in Instances, Crash(i) \/ Restart(i)
          PROVE  UNCHANGED pass
      BY <2>6 DEF Crash, Restart
    <2> QED
      BY <1>1, <2>1, <2>2, <2>3, <2>4, <2>5, <2>6 DEF Next, TryFormMatch
  <1>2. IInv /\ [Next]_vars => [Shrinks]_vars
    BY <1>1
  <1> QED
    BY <1>2, Invariance, PTL DEF Spec, PassShrinks

=============================================================================
