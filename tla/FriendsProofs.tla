--------------------------- MODULE FriendsProofs ----------------------------
(***************************************************************************)
(* Proofs about Friends, for any users, any number of calls served at the  *)
(* same time and any number of rows.                                       *)
(***************************************************************************)
EXTENDS Friends, TLAPS

\* Types, and a call that is to insert has made sure of two users.
Types1 ==
  /\ TypeOK
  /\ \A c \in Calls : began[c] <= Len(since)
  /\ \A c \in Calls : call[c].at = "insert" => call[c].user # call[c].other

\* A row of the two users was inserted after the call looked for one.
Looked == \A c \in Calls, row \in rows :
  /\ call[c].at = "insert"
  /\ Participants(row) = {call[c].user, call[c].other}
  => began[c] < row.id

\* What a call has found out about a row and its user stays true.
Entitled == \A c \in Calls :
  call[c].at \in {"update", "delete"} =>
    /\ call[c].id \in IDs
    /\ \A row \in rows : row.id = call[c].id =>
         /\ call[c].user \in Participants(row)
         /\ call[c].at = "update" => call[c].user = row.addressee

\* An accepted row is never pending again.
Seen == \A c \in Calls :
  call[c].at = "list" =>
    /\ call[c].friends \subseteq IDs
    /\ \A row \in rows : row.id \in call[c].friends => row.status = "accepted"

\* What the proofs need of the rows that a statement leaves: every one has
\* the ID and the users of a row before, and is accepted if that was.
Keeps == \A new \in rows' : \E old \in rows :
  /\ new.id = old.id
  /\ new.requester = old.requester
  /\ new.addressee = old.addressee
  /\ new.status \in {old.status, "accepted"}

IInv == Types1 /\ Looked /\ Entitled /\ Seen /\ DuplicatesOverlapped
          /\ ListedOnce

\* Nobody has asked for anything.
LEMMA InitIInv == Init => IInv
  <1> SUFFICES ASSUME Init PROVE IInv
    OBVIOUS
  <1>1. \A c \in Calls : call[c] = Idle
    BY DEF Init
  <1>2. Types1
    <2>1. began \in [Calls -> 0..MaxRows] /\ Len(since) <= MaxRows
      BY RowsAssumption DEF Init
    <2>2. call \in [Calls -> Call]
      BY DEF Init, Call
    <2> QED
      BY <1>1, <2>1, <2>2 DEF Init, Types1, TypeOK, Idle
  <1>3. Looked /\ Entitled /\ Seen /\ ListedOnce
    BY <1>1 DEF Looked, Entitled, Seen, ListedOnce, Idle
  <1>4. DuplicatesOverlapped
    BY DEF Init, DuplicatesOverlapped
  <1> QED
    BY <1>2, <1>3, <1>4 DEF IInv

\* A call that goes on, having read the table at most, keeps the invariant if
\* what it does next is right.
LEMMA ReadIInv ==
  ASSUME IInv, NEW c \in Calls, NEW next \in Call, Goes(c, next),
         UNCHANGED rows,
         began' = [began EXCEPT ![c] = Len(since)] \/ UNCHANGED began,
         next.at = "insert" =>
           /\ next.user # next.other
           /\ \A row \in rows : Participants(row) # {next.user, next.other},
         next.at \in {"update", "delete"} =>
           /\ next.id \in IDs
           /\ \A row \in rows : row.id = next.id =>
                /\ next.user \in Participants(row)
                /\ next.at = "update" => next.user = row.addressee,
         next.at = "list" =>
           /\ next.friends \subseteq IDs
           /\ \A row \in rows :
                row.id \in next.friends => row.status = "accepted",
         next.at = "answer" => next.friends \cap next.pending = {}
  PROVE  IInv'
  <1>1. /\ rows' = rows /\ since' = since /\ IDs' = IDs
        /\ call' \in [Calls -> Call]
        /\ call'[c] = next
        /\ \A d \in Calls \ {c} : call'[d] = call[d] /\ began'[d] = began[d]
    BY DEF IInv, Types1, TypeOK, Goes, IDs
  <1>2. Types1'
    <2>1. began' \in [Calls -> 0..MaxRows]
      BY DEF IInv, Types1, TypeOK
    <2> QED
      BY <1>1, <2>1 DEF IInv, Types1, TypeOK
  <1>3. Looked'
    BY <1>1 DEF IInv, Looked, Participants
  <1>4. Entitled'
    BY <1>1 DEF IInv, Entitled, Participants
  <1>5. Seen'
    BY <1>1 DEF IInv, Seen
  <1>6. DuplicatesOverlapped' /\ ListedOnce'
    BY <1>1 DEF IInv, DuplicatesOverlapped, Participants, ListedOnce
  <1> QED
    BY <1>2, <1>3, <1>4, <1>5, <1>6 DEF IInv

\* So does a statement that changes rows as Keeps says.
LEMMA ChangeIInv ==
  ASSUME IInv, NEW c \in Calls, call' = [call EXCEPT ![c] = Idle], Keeps,
         UNCHANGED <<began, since>>,
         rows' \subseteq Row,
         \A row, other \in rows' : row.id = other.id => row = other
  PROVE  IInv'
  <1>1. /\ began' = began /\ since' = since /\ IDs' = IDs
        /\ call' \in [Calls -> Call]
        /\ call'[c] = Idle
        /\ \A d \in Calls \ {c} : call'[d] = call[d]
    BY DEF IInv, Types1, TypeOK, IDs, Call
  <1>2. Types1'
    BY <1>1 DEF IInv, Types1, TypeOK, Keeps, Idle
  <1>3. Looked'
    BY <1>1 DEF IInv, Looked, Participants, Keeps, Idle
  <1>4. Entitled'
    BY <1>1 DEF IInv, Entitled, Participants, Keeps, Idle
  <1>5. Seen'
    BY <1>1 DEF IInv, Seen, Keeps, Idle
  <1>6. DuplicatesOverlapped'
    BY <1>1 DEF IInv, DuplicatesOverlapped, Participants, Keeps
  <1>7. ListedOnce'
    BY <1>1 DEF IInv, ListedOnce, Idle
  <1> QED
    BY <1>2, <1>3, <1>4, <1>5, <1>6, <1>7 DEF IInv

\* An inserted row is newer than everything that was looked for or read.
LEMMA InsertIInv ==
  ASSUME IInv, NEW c \in Calls, InsertFriendship(c) PROVE IInv'
  <1> DEFINE n == Len(since) + 1
             new == [id |-> n, requester |-> call[c].user,
                     addressee |-> call[c].other, status |-> "pending"]
  <1>1. /\ call[c].at = "insert" /\ began' = began
        /\ rows' = rows \cup {new} /\ since' = Append(since, began[c])
        /\ call' \in [Calls -> Call]
        /\ call'[c] = Idle
        /\ \A d \in Calls \ {c} : call'[d] = call[d]
    BY DEF IInv, Types1, TypeOK, InsertFriendship, Ends, Call
  <1>2. /\ Len(since) \in Nat /\ n \in 1..MaxRows
        /\ since' \in Seq(0..MaxRows)
        /\ Len(since') = n /\ IDs' = IDs \cup {n}
        /\ since'[n] = began[c]
        /\ \A i \in IDs : since'[i] = since[i] /\ i < n
    BY <1>1, RowsAssumption
    DEF IInv, Types1, TypeOK, InsertFriendship, Ends, IDs
  <1>3. /\ call[c].user \in Users /\ call[c].other \in Users
        /\ call[c].user # call[c].other
    BY <1>1 DEF IInv, Types1, TypeOK, Call, Idle
  <1>4. new \in Row /\ \A row \in rows : row.id \in IDs /\ row.id < n
    BY <1>2, <1>3 DEF Row, IInv, Types1, TypeOK
  <1>5. Types1'
    <2>1. /\ rows' \subseteq Row
          /\ \A row \in rows' :
               row.id \in IDs' /\ row.requester # row.addressee
      BY <1>1, <1>2, <1>3, <1>4 DEF IInv, Types1, TypeOK
    <2>2. \A row, other \in rows' : row.id = other.id => row = other
      BY <1>1, <1>4 DEF IInv, Types1, TypeOK
    <2>3. TypeOK'
      BY <1>1, <1>2, <2>1, <2>2 DEF IInv, Types1, TypeOK
    <2>4. \A d \in Calls : began'[d] <= Len(since')
      BY <1>1, <1>2 DEF IInv, Types1, TypeOK
    <2>5. \A d \in Calls :
            call'[d].at = "insert" => call'[d].user # call'[d].other
      BY <1>1 DEF IInv, Types1, Idle
    <2> QED
      BY <2>3, <2>4, <2>5 DEF Types1
  <1>6. Looked'
    <2> SUFFICES ASSUME NEW d \in Calls, NEW row \in rows',
                        call'[d].at = "insert",
                        Participants(row) = {call'[d].user, call'[d].other}
                 PROVE  began[d] < row.id
      BY <1>1 DEF Looked, Participants
    <2>1. d # c /\ call'[d] = call[d]
      BY <1>1 DEF Idle
    <2>2. CASE row \in rows
      BY <2>1, <2>2 DEF IInv, Looked
    <2>3. CASE row = new
      BY <1>2, <2>3 DEF IInv, Types1, TypeOK
    <2> QED
      BY <1>1, <2>2, <2>3
  <1>7. Entitled'
    BY <1>1, <1>2 DEF IInv, Entitled, Participants, Idle
  <1>8. Seen'
    BY <1>1, <1>2 DEF IInv, Seen, Idle
  <1>9. DuplicatesOverlapped'
    <2> SUFFICES ASSUME NEW row \in rows', NEW other \in rows',
                        row.id < other.id,
                        Participants(row) = Participants(other)
                 PROVE  since'[other.id] < row.id
      BY DEF DuplicatesOverlapped, Participants
    <2>1. CASE other = new
      <3>1. row \in rows
        BY <1>1, <1>2, <2>1
      <3>2. Participants(row) = {call[c].user, call[c].other}
        BY <2>1 DEF Participants
      <3>3. other.id = n /\ since'[n] = began[c]
        BY <1>2, <2>1
      <3>4. began[c] < row.id
        BY <1>1, <3>1, <3>2 DEF IInv, Looked
      <3> QED
        BY <3>3, <3>4
    <2>2. CASE other \in rows /\ row \in rows
      BY <1>2, <1>4, <2>2 DEF IInv, DuplicatesOverlapped
    <2>3. CASE other \in rows /\ row = new
      BY <1>2, <1>4, <2>3 DEF IDs
    <2> QED
      BY <1>1, <2>1, <2>2, <2>3
  <1>10. ListedOnce'
    BY <1>1 DEF IInv, ListedOnce, Idle
  <1> QED
    BY <1>5, <1>6, <1>7, <1>8, <1>9, <1>10 DEF IInv

\* The other two statements keep the rows they leave as they are, or accept
\* them.
LEMMA UpdateIInv ==
  ASSUME IInv, NEW c \in Calls, UpdateFriendshipStatus(c) PROVE IInv'
  <1> DEFINE After(row) == IF row.id = call[c].id
                           THEN [row EXCEPT !.status = "accepted"] ELSE row
  <1>1. rows' = {After(row) : row \in rows}
    BY DEF UpdateFriendshipStatus
  <1>2. \A row \in rows :
          /\ After(row) \in Row
          /\ After(row).id = row.id
          /\ After(row).requester = row.requester
          /\ After(row).addressee = row.addressee
          /\ After(row).status \in {row.status, "accepted"}
    BY DEF IInv, Types1, TypeOK, Row
  <1> HIDE DEF After
  <1>3. Keeps /\ rows' \subseteq Row
    BY <1>1, <1>2 DEF Keeps
  <1>4. \A row, other \in rows' : row.id = other.id => row = other
    BY <1>1, <1>2 DEF IInv, Types1, TypeOK
  <1> QED
    BY <1>3, <1>4, ChangeIInv DEF UpdateFriendshipStatus, Ends

LEMMA DeleteIInv ==
  ASSUME IInv, NEW c \in Calls, DeleteFriendship(c) PROVE IInv'
  <1>1. rows' \subseteq rows
    BY DEF DeleteFriendship
  <1>2. Keeps /\ rows' \subseteq Row
    BY <1>1 DEF Keeps, IInv, Types1, TypeOK
  <1>3. \A row, other \in rows' : row.id = other.id => row = other
    BY <1>1 DEF IInv, Types1, TypeOK
  <1> QED
    BY <1>2, <1>3, ChangeIInv DEF DeleteFriendship, Ends

\* What a call does after it has read the table is right.
LEMMA RequestIInv ==
  ASSUME IInv, NEW c \in Calls, NEW u \in Users, NEW v \in Users,
         RequestFriend(c, u, v)
  PROVE  IInv'
  <1> DEFINE next == [at |-> "insert", user |-> u, other |-> v]
  <1>1. next \in Call
    BY DEF Call
  <1>2. /\ u # v /\ Goes(c, next) /\ UNCHANGED rows
        /\ began' = [began EXCEPT ![c] = Len(since)]
        /\ \A row \in rows : Participants(row) # {u, v}
    BY DEF RequestFriend, Begins
  <1> QED
    BY <1>1, <1>2, ReadIInv

LEMMA SelectIInv ==
  ASSUME IInv, NEW c \in Calls, NEW u \in Users, NEW row \in rows,
         AcceptFriend(c, u, row) \/ RemoveFriend(c, u, row)
  PROVE  IInv'
  <1>1. PICK at \in {"update", "delete"} :
          /\ u \in Participants(row) /\ (at = "update" => u = row.addressee)
          /\ Begins(c, [at |-> at, user |-> u, id |-> row.id])
    BY DEF AcceptFriend, RemoveFriend, Participants
  <1> DEFINE next == [at |-> at, user |-> u, id |-> row.id]
  <1>2. row.id \in IDs /\ next \in Call
    BY DEF IInv, Types1, TypeOK, Row, Call
  <1>3. \A other \in rows : other.id = row.id => other = row
    BY DEF IInv, Types1, TypeOK
  <1> QED
    BY <1>1, <1>2, <1>3, ReadIInv DEF Begins

LEMMA ListFriendsIInv ==
  ASSUME IInv, NEW c \in Calls, NEW u \in Users, ListFriends(c, u)
  PROVE  IInv'
  <1> DEFINE found == IDsOf(Friends(u))
             next == [at |-> "list", user |-> u, friends |-> found]
  <1>1. /\ found \subseteq IDs
        /\ \A row \in rows : row.id \in found => row.status = "accepted"
    BY DEF IDsOf, Friends, IInv, Types1, TypeOK
  <1>2. IDs \subseteq 1..MaxRows
    BY RowsAssumption DEF IInv, Types1, TypeOK, IDs
  <1>3. next \in Call
    BY <1>1, <1>2 DEF Call
  <1> QED
    BY <1>1, <1>3, ReadIInv DEF ListFriends, Begins

LEMMA ListPendingIInv ==
  ASSUME IInv, NEW c \in Calls, ListPendingRequests(c) PROVE IInv'
  <1> DEFINE found == IDsOf(Pending(call[c].user))
             next == [at |-> "answer", user |-> call[c].user,
                      friends |-> call[c].friends, pending |-> found]
  <1>1. call[c].at = "list" /\ Goes(c, next) /\ UNCHANGED <<rows, began>>
    BY DEF ListPendingRequests
  <1>2. found \subseteq 1..MaxRows
    BY DEF IDsOf, Pending, IInv, Types1, TypeOK, Row
  <1>3. next \in Call
    BY <1>1, <1>2 DEF IInv, Types1, TypeOK, Call, Idle
  <1>4. call[c].friends \cap found = {}
    BY <1>1 DEF IDsOf, Pending, IInv, Seen
  <1> QED
    BY <1>1, <1>3, <1>4, ReadIInv

\* Every step keeps the invariant.
LEMMA NextIInv == IInv /\ [Next]_vars => IInv'
  <1> SUFFICES ASSUME IInv, [Next]_vars PROVE IInv'
    OBVIOUS
  <1>1. ASSUME NEW c \in Calls, Fails(c) PROVE IInv'
    <2>1. Idle \in Call
      BY DEF Call
    <2> QED
      BY <1>1, <2>1, ReadIInv DEF Fails, Idle
  <1>2. ASSUME NEW c \in Calls, Answer(c) PROVE IInv'
    <2>1. Keeps /\ rows' \subseteq Row
      BY <1>2 DEF Answer, Keeps, IInv, Types1, TypeOK
    <2> QED
      BY <1>2, <2>1, ChangeIInv DEF Answer, Ends, IInv, Types1, TypeOK
  <1>3. CASE UNCHANGED vars
    BY <1>3
    DEF vars, IInv, Types1, TypeOK, Looked, Entitled, Seen, IDs,
        DuplicatesOverlapped, ListedOnce, Participants
  <1>4. CASE Next
    BY <1>1, <1>2, <1>4, RequestIInv, SelectIInv, ListFriendsIInv,
       InsertIInv, UpdateIInv, DeleteIInv, ListPendingIInv
    DEF Next
  <1> QED
    BY <1>3, <1>4

\* The invariant holds throughout every behaviour of the service.
LEMMA Invariance == Spec => []IInv
  BY InitIInv, NextIInv, PTL DEF Spec

-----------------------------------------------------------------------------
(* The theorems. *)

\* Every variable keeps its type, and nobody is their own friend.
THEOREM Types == Spec => []TypeOK
  BY Invariance, PTL DEF IInv, Types1

\* Requests that do not overlap never make a second row of two users.
THEOREM DuplicatesNeedOverlap == Spec => []DuplicatesOverlapped
  BY Invariance, PTL DEF IInv

\* No listing shows a friendship as accepted and pending.
THEOREM ListingsAreDisjoint == Spec => []ListedOnce
  BY Invariance, PTL DEF IInv

\* Only its users change a row, and only the addressee accepts it.
THEOREM OnlyParticipantsChange == Spec => ChangedByParticipants
  <1> DEFINE By(row, c) ==
               /\ call'[c] # call[c]
               /\ call[c].at \in {"update", "delete"}
               /\ call[c].id = row.id
               /\ call[c].user \in Participants(row)
               /\ call[c].at = "update" => call[c].user = row.addressee
             P == \A row \in rows \ rows' : \E c \in Calls : By(row, c)
  <1>1. ASSUME IInv, Next, NEW row \in rows \ rows'
        PROVE  \E c \in Calls : By(row, c)
    <2>1. PICK c \in Calls :
            UpdateFriendshipStatus(c) \/ DeleteFriendship(c)
      BY <1>1
      DEF Next, RequestFriend, AcceptFriend, RemoveFriend, ListFriends,
          InsertFriendship, ListPendingRequests, Answer, Fails, Begins, Goes
    <2>2. call[c].at \in {"update", "delete"} /\ row.id = call[c].id
      BY <1>1, <2>1 DEF UpdateFriendshipStatus, DeleteFriendship, Ends
    <2>3. call'[c] # call[c]
      <3>1. call'[c] = Idle
        BY <1>1, <2>1
        DEF UpdateFriendshipStatus, DeleteFriendship, Ends, IInv, Types1,
            TypeOK
      <3> QED
        BY <2>2, <3>1 DEF Idle
    <2> QED
      BY <1>1, <2>2, <2>3 DEF IInv, Entitled
  <1>2. IInv /\ [Next]_vars => [P]_vars
    BY <1>1
  <1> QED
    BY Invariance, <1>2, PTL DEF Spec, ChangedByParticipants

\* What becomes of a row: it stays one of its two users, is accepted for
\* good, and comes back under no circumstances once it is removed.
RowsOnlyAdvance ==
  [][\A new \in rows' : new.id \in IDs => \E old \in rows :
       /\ new.id = old.id
       /\ new.requester = old.requester
       /\ new.addressee = old.addressee
       /\ old.status = "accepted" => new.status = "accepted"]_vars

\* An accept or a removal that was decided on a row that has been removed or
\* accepted meanwhile undoes neither.
THEOREM NothingComesBack == Spec => RowsOnlyAdvance
  <1> DEFINE P == \A new \in rows' : new.id \in IDs => \E old \in rows :
               /\ new.id = old.id
               /\ new.requester = old.requester
               /\ new.addressee = old.addressee
               /\ old.status = "accepted" => new.status = "accepted"
  <1>1. ASSUME IInv, Next, NEW new \in rows', new.id \in IDs
        PROVE  \E old \in rows :
                 /\ new.id = old.id
                 /\ new.requester = old.requester
                 /\ new.addressee = old.addressee
                 /\ old.status = "accepted" => new.status = "accepted"
    <2>1. CASE new \in rows
      BY <2>1
    <2>2. ASSUME NEW c \in Calls, InsertFriendship(c)
          PROVE  new \in rows
      <3>1. Len(since) + 1 \notin IDs
        BY <1>1 DEF IInv, Types1, TypeOK, IDs
      <3> QED
        BY <1>1, <2>2, <3>1 DEF InsertFriendship
    <2>3. ASSUME NEW c \in Calls, UpdateFriendshipStatus(c)
          PROVE  \E old \in rows :
                   /\ new.id = old.id
                   /\ new.requester = old.requester
                   /\ new.addressee = old.addressee
                   /\ old.status = "accepted" => new.status = "accepted"
      <3>1. PICK old \in rows : new = IF old.id = call[c].id
                                      THEN [old EXCEPT !.status = "accepted"]
                                      ELSE old
        BY <1>1, <2>3 DEF UpdateFriendshipStatus
      <3>2. old \in Row
        BY <1>1 DEF IInv, Types1, TypeOK
      <3> QED
        BY <3>1, <3>2 DEF Row
    <2>4. ASSUME NEW c \in Calls, DeleteFriendship(c)
          PROVE  new \in rows
      BY <1>1, <2>4 DEF DeleteFriendship
    <2>5. \/ \E c \in Calls : InsertFriendship(c)
                                \/ UpdateFriendshipStatus(c)
                                \/ DeleteFriendship(c)
          \/ UNCHANGED rows
      BY <1>1
      DEF Next, RequestFriend, AcceptFriend, RemoveFriend, ListFriends,
          ListPendingRequests, Answer, Fails, Begins, Goes
    <2> QED
      BY <1>1, <2>1, <2>2, <2>3, <2>4, <2>5
  <1>2. IInv /\ [Next]_vars => [P]_vars
    BY <1>1
  <1> QED
    BY Invariance, <1>2, PTL DEF Spec, RowsOnlyAdvance

-----------------------------------------------------------------------------
(* What the comment of RequestFriend takes for granted.                     *)

\* There is no row yet of the two users of a request about to be inserted.
Untouched == \A c \in Calls : call[c].at = "insert" =>
  \A row \in rows : Participants(row) # {call[c].user, call[c].other}

\* A step keeps the pairs apart unless two requests of one pair are between
\* their two statements.
LEMMA NextOneRow ==
  ASSUME IInv, IInv', RequestsTakeTurns, [Next]_vars, OneRowPerPair, Untouched
  PROVE  OneRowPerPair' /\ Untouched'
  <1>1. ASSUME NEW c \in Calls, NEW next, Goes(c, next), UNCHANGED rows,
               next.at = "insert" => \A row \in rows :
                 Participants(row) # {next.user, next.other}
        PROVE  OneRowPerPair' /\ Untouched'
    <2>1. /\ call'[c] = next
          /\ \A d \in Calls \ {c} : call'[d] = call[d]
      BY <1>1 DEF Goes, IInv, Types1, TypeOK
    <2> QED
      BY <1>1, <2>1 DEF OneRowPerPair, Untouched, Participants
  <1>2. ASSUME NEW c \in Calls, Keeps,
               call' = [call EXCEPT ![c] = Idle]
        PROVE  OneRowPerPair' /\ Untouched'
    <2>1. /\ call'[c] = Idle
          /\ \A d \in Calls \ {c} : call'[d] = call[d]
      BY <1>2 DEF IInv, Types1, TypeOK
    <2>2. ASSUME NEW row \in rows', NEW other \in rows',
                 Participants(row) = Participants(other)
          PROVE  row = other
      <3>1. PICK old \in rows : row.id = old.id
                                /\ Participants(row) = Participants(old)
        BY <1>2 DEF Keeps, Participants
      <3>2. PICK before \in rows :
              other.id = before.id
                /\ Participants(other) = Participants(before)
        BY <1>2 DEF Keeps, Participants
      <3>3. row.id = other.id
        BY <2>2, <3>1, <3>2 DEF OneRowPerPair
      <3> QED
        BY <3>3 DEF IInv, Types1, TypeOK
    <2>3. ASSUME NEW d \in Calls, call'[d].at = "insert", NEW row \in rows'
          PROVE  Participants(row) # {call'[d].user, call'[d].other}
      <3>1. call'[d] = call[d] /\ call[d].at = "insert"
        BY <2>1, <2>3 DEF Idle
      <3>2. PICK old \in rows : Participants(row) = Participants(old)
        BY <1>2 DEF Keeps, Participants
      <3> QED
        BY <3>1, <3>2 DEF Untouched
    <2> QED
      BY <2>2, <2>3 DEF OneRowPerPair, Untouched, Participants
  <1>3. ASSUME NEW c \in Calls, InsertFriendship(c)
        PROVE  OneRowPerPair' /\ Untouched'
    <2> DEFINE new == [id |-> Len(since) + 1, requester |-> call[c].user,
                       addressee |-> call[c].other, status |-> "pending"]
    <2>1. /\ call[c].at = "insert"
          /\ rows' = rows \cup {new}
          /\ call'[c] = Idle
          /\ \A d \in Calls \ {c} : call'[d] = call[d]
      BY <1>3 DEF InsertFriendship, Ends, IInv, Types1, TypeOK
    <2>2. Participants(new) = {call[c].user, call[c].other}
      BY DEF Participants
    <2>3. \A row \in rows : Participants(row) # Participants(new)
      BY <2>1, <2>2 DEF Untouched
    <2>4. \A d \in Calls \ {c} : call[d].at = "insert" =>
            Participants(new) # {call[d].user, call[d].other}
      BY <2>1, <2>2 DEF RequestsTakeTurns
    <2> HIDE DEF new
    <2>5. OneRowPerPair'
      BY <2>1, <2>3 DEF OneRowPerPair, Participants
    <2>6. ASSUME NEW d \in Calls, call'[d].at = "insert", NEW row \in rows'
          PROVE  Participants(row) # {call'[d].user, call'[d].other}
      <3>1. d # c /\ call'[d] = call[d] /\ call[d].at = "insert"
        BY <2>1, <2>6 DEF Idle
      <3> QED
        BY <2>1, <2>4, <3>1 DEF Untouched
    <2> QED
      BY <2>5, <2>6 DEF Untouched, Participants
  <1>4. ASSUME NEW c \in Calls, NEW u \in Users, NEW v \in Users,
               RequestFriend(c, u, v)
        PROVE  OneRowPerPair' /\ Untouched'
    BY <1>1, <1>4 DEF RequestFriend, Begins
  <1>5. ASSUME NEW c \in Calls, NEW u \in Users, NEW row \in rows,
               AcceptFriend(c, u, row) \/ RemoveFriend(c, u, row)
        PROVE  OneRowPerPair' /\ Untouched'
    BY <1>1, <1>5 DEF AcceptFriend, RemoveFriend, Begins
  <1>6. ASSUME NEW c \in Calls, NEW u \in Users, ListFriends(c, u)
        PROVE  OneRowPerPair' /\ Untouched'
    BY <1>1, <1>6 DEF ListFriends, Begins
  <1>7. ASSUME NEW c \in Calls, ListPendingRequests(c)
        PROVE  OneRowPerPair' /\ Untouched'
    BY <1>1, <1>7 DEF ListPendingRequests
  <1>8. ASSUME NEW c \in Calls, Fails(c)
        PROVE  OneRowPerPair' /\ Untouched'
    BY <1>1, <1>8 DEF Fails, Idle
  <1>9. ASSUME NEW c \in Calls,
               UpdateFriendshipStatus(c) \/ DeleteFriendship(c) \/ Answer(c)
        PROVE  OneRowPerPair' /\ Untouched'
    <2>1. rows \subseteq Row
      BY DEF IInv, Types1, TypeOK
    <2>2. Keeps
      BY <1>9, <2>1
      DEF UpdateFriendshipStatus, DeleteFriendship, Answer, Keeps, Row
    <2> QED
      BY <1>2, <1>9, <2>2
      DEF UpdateFriendshipStatus, DeleteFriendship, Answer, Ends
  <1>10. CASE UNCHANGED vars
    BY <1>10 DEF vars, OneRowPerPair, Untouched, Participants
  <1> QED
    BY <1>3, <1>4, <1>5, <1>6, <1>7, <1>8, <1>9, <1>10 DEF Next

\* What the comment says holds as long as requests of the same two users take
\* turns: the window between SELECT and INSERT is all that is wrong, and no
\* acceptance, removal or failure meanwhile adds to it.
THEOREM TurnsAreEnough ==
  Spec /\ []RequestsTakeTurns => []OneRowPerPair
  <1>1. Init => OneRowPerPair /\ Untouched
    BY DEF Init, OneRowPerPair, Untouched
  <1>2. /\ IInv /\ IInv' /\ RequestsTakeTurns /\ [Next]_vars
        /\ OneRowPerPair /\ Untouched
        => OneRowPerPair' /\ Untouched'
    BY NextOneRow
  <1> QED
    BY <1>1, <1>2, Invariance, PTL DEF Spec

=============================================================================
