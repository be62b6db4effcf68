------------------------------ MODULE Friends -------------------------------
(***************************************************************************)
(* Friend requests of the auth service: services/auth/db/friends.go on the *)
(* friendships table in PostgreSQL, called by the handlers of              *)
(* friends_handlers.go, which serve any number of requests at once.        *)
(*                                                                         *)
(* No operation is a transaction: it is one SELECT, a decision, and        *)
(* another statement later.  A statement is atomic, and what other calls   *)
(* do to the table comes in between the two.  A call that returns early    *)
(* changes nothing and is left out.                                        *)
(*                                                                         *)
(* A friendship ID (a fresh UUID) is its number in the order of insertion. *)
(***************************************************************************)
EXTENDS Naturals, Sequences

CONSTANTS
  Users,
  Calls,      \* the requests served at the same time
  MaxRows     \* bound: rows ever inserted

ASSUME RowsAssumption == MaxRows \in Nat

VARIABLES
  rows,       \* the friendships table
  call,       \* what each call has read and will do next
  began,      \* history: rows ever inserted when the call read the table
  since       \* history: for every ID, what `began` was for its request

vars == <<rows, call, began, since>>

IDs == 1..Len(since)

Row == [id : 1..MaxRows, requester : Users, addressee : Users,
        status : {"pending", "accepted"}]

Participants(row) == {row.requester, row.addressee}

Idle == [at |-> "idle"]

Init ==
  /\ rows = {}
  /\ call = [c \in Calls |-> Idle]
  /\ began = [c \in Calls |-> 0]
  /\ since = <<>>

\* A call has read the table, and goes on with `next`.
Goes(c, next) ==
  /\ call' = [call EXCEPT ![c] = next]
  /\ UNCHANGED since

\* The first statement of a call.
Begins(c, next) ==
  /\ call[c] = Idle
  /\ began' = [began EXCEPT ![c] = Len(since)]
  /\ Goes(c, next)
  /\ UNCHANGED rows

\* Its last one, after which the call returns.
Ends(c, at) ==
  /\ call[c].at = at
  /\ call' = [call EXCEPT ![c] = Idle]
  /\ UNCHANGED began

\* A statement fails, and the call returns the error.
Fails(c) ==
  /\ call[c] # Idle
  /\ Goes(c, Idle)
  /\ UNCHANGED <<rows, began>>

-----------------------------------------------------------------------------
(* RequestFriend *)

\* Mutants of RequestFriend: it takes oneself for a friend; it looks for a
\* request in one direction only.
RequestAnybody(c, requester, addressee) ==
  /\ \A row \in rows : Participants(row) # {requester, addressee}
  /\ Begins(c, [at |-> "insert", user |-> requester, other |-> addressee])

RequestUnlessRequested(c, requester, addressee) ==
  /\ addressee # requester
  /\ \A row \in rows :
       ~(row.requester = requester /\ row.addressee = addressee)
  /\ Begins(c, [at |-> "insert", user |-> requester, other |-> addressee])

\* The addressee exists, is somebody else, and there is no row of the two.
RequestFriend(c, requester, addressee) ==
  /\ addressee # requester
  /\ \A row \in rows : Participants(row) # {requester, addressee}
  /\ Begins(c, [at |-> "insert", user |-> requester, other |-> addressee])

InsertFriendship(c) ==
  /\ Ends(c, "insert")
  /\ Len(since) < MaxRows
  /\ rows' = rows \cup
       {[id |-> Len(since) + 1, requester |-> call[c].user,
         addressee |-> call[c].other, status |-> "pending"]}
  /\ since' = Append(since, began[c])

-----------------------------------------------------------------------------
(* AcceptFriend *)

\* Mutant of AcceptFriend: whoever is concerned may accept.
AcceptByEither(c, user, row) ==
  /\ user \in Participants(row)
  /\ row.status = "pending"
  /\ Begins(c, [at |-> "update", user |-> user, id |-> row.id])

\* The row is pending and addressed to the caller.
AcceptFriend(c, user, row) ==
  /\ row.addressee = user
  /\ row.status = "pending"
  /\ Begins(c, [at |-> "update", user |-> user, id |-> row.id])

\* The row may be gone by now, which is no error.
UpdateFriendshipStatus(c) ==
  /\ Ends(c, "update")
  /\ rows' = {IF row.id = call[c].id
              THEN [row EXCEPT !.status = "accepted"] ELSE row : row \in rows}
  /\ UNCHANGED since

-----------------------------------------------------------------------------
(* RemoveFriend *)

RemoveFriend(c, user, row) ==
  /\ user \in Participants(row)
  /\ Begins(c, [at |-> "delete", user |-> user, id |-> row.id])

DeleteFriendship(c) ==
  /\ Ends(c, "delete")
  /\ rows' = {row \in rows : row.id # call[c].id}
  /\ UNCHANGED since

-----------------------------------------------------------------------------
(* handleFriendsList: two queries. *)

\* Mutant of Friends: the status is not looked at.
FriendsOfAnyStatus(user) == {row \in rows : user \in Participants(row)}

Friends(user) == {row \in rows :
  row.status = "accepted" /\ user \in Participants(row)}

Pending(user) == {row \in rows :
  row.status = "pending" /\ row.addressee = user}

IDsOf(some) == {row.id : row \in some}

ListFriends(c, user) ==
  Begins(c, [at |-> "list", user |-> user, friends |-> IDsOf(Friends(user))])

\* The answer of both.
ListPendingRequests(c) ==
  /\ call[c].at = "list"
  /\ Goes(c, [at |-> "answer", user |-> call[c].user,
              friends |-> call[c].friends,
              pending |-> IDsOf(Pending(call[c].user))])
  /\ UNCHANGED <<rows, began>>

Answer(c) ==
  /\ Ends(c, "answer")
  /\ UNCHANGED <<rows, since>>

Next == \E c \in Calls :
  \/ \E u, v \in Users : RequestFriend(c, u, v)
  \/ \E u \in Users, row \in rows :
       AcceptFriend(c, u, row) \/ RemoveFriend(c, u, row)
  \/ \E u \in Users : ListFriends(c, u)
  \/ InsertFriendship(c) \/ UpdateFriendshipStatus(c) \/ DeleteFriendship(c)
  \/ ListPendingRequests(c) \/ Answer(c)
  \/ Fails(c)

Spec == Init /\ [][Next]_vars

-----------------------------------------------------------------------------
(* Properties. *)

Call ==
  {Idle}
    \cup [at : {"insert"}, user : Users, other : Users]
    \cup [at : {"update", "delete"}, user : Users, id : 1..MaxRows]
    \cup [at : {"list"}, user : Users, friends : SUBSET (1..MaxRows)]
    \cup [at : {"answer"}, user : Users, friends : SUBSET (1..MaxRows),
          pending : SUBSET (1..MaxRows)]

\* Every variable has its type, an ID is that of one row, and nobody is their
\* own friend.
TypeOK ==
  /\ rows \subseteq Row
  /\ \A row \in rows : row.id \in IDs /\ row.requester # row.addressee
  /\ \A row, other \in rows : row.id = other.id => row = other
  /\ call \in [Calls -> Call]
  /\ began \in [Calls -> 0..MaxRows]
  /\ since \in Seq(0..MaxRows)
  /\ Len(since) <= MaxRows

\* Two rows of the same two users come from requests that overlapped: the
\* later one had looked for a row before the other was inserted.  Requests
\* one after the other never make a second row, whoever sends them and
\* whatever is accepted and removed meanwhile.
DuplicatesOverlapped == \A row, other \in rows :
  row.id < other.id /\ Participants(row) = Participants(other)
    => since[other.id] < row.id

\* The call that changes a row is one of its two users', and an update one of
\* its addressee's, although the check is old when the change is made.
ChangedByParticipants ==
  [][\A row \in rows \ rows' : \E c \in Calls :
       /\ call'[c] # call[c]
       /\ call[c].at \in {"update", "delete"}
       /\ call[c].id = row.id
       /\ call[c].user \in Participants(row)
       /\ call[c].at = "update" => call[c].user = row.addressee]_vars

\* The answer to a listing shows no friendship as accepted and pending both,
\* although it is read by two queries.
ListedOnce == \A c \in Calls :
  call[c].at = "answer" => call[c].friends \cap call[c].pending = {}

-----------------------------------------------------------------------------
(* What a comment of the service says and the code does not do. *)

\* The comment of RequestFriend: ErrAlreadyRequested if there is any pending
\* or accepted relationship of the two in either direction.  Two requests at
\* the same time both insert one.
OneRowPerPair == \A row, other \in rows :
  Participants(row) = Participants(other) => row = other

\* What would be enough for that: no two requests of the same two users are
\* between their SELECT and their INSERT at the same time.
RequestsTakeTurns == \A c, d \in Calls :
  /\ call[c].at = "insert" /\ call[d].at = "insert"
  /\ {call[c].user, call[c].other} = {call[d].user, call[d].other}
  => c = d

=============================================================================
