----------------------------- MODULE GameServer -----------------------------
(***************************************************************************)
(* One game instance seen from its sockets: services/game/server (ServeWS, *)
(* the two pumps of a connection, the StartMatch handler) and              *)
(* services/game/matchmanager.  Of an engine only the client table is      *)
(* kept: Join and Leave change it, the broadcast of a tick reads it.       *)
(* Module Engine has the rest, and joins connections as Attendance says.   *)
(*                                                                         *)
(* Every connection is three goroutines, ServeWS and its pumps, that share *)
(* a context and wait for one another.  A write that does not end is given *)
(* up after five seconds; a read is never given up.                        *)
(***************************************************************************)
EXTENDS Naturals, Functions

CONSTANTS
  Players,
  MatchIDs,
  MaxConns,      \* bound: connections of one player at a time
  BufferSize     \* the capacity of Client.send

ASSUME GameServerAssumption == MaxConns \in Nat /\ BufferSize \in Nat \ {0}

VARIABLES
  matches,    \* Manager.matches: match ID -> allowedPlayers of its engine
  clients,    \* match ID -> the clients of its engine, by player
  stage,      \* how far ServeWS has come with a connection
  match,      \* the match the connection asked for
  cancelled,  \* the context the pumps share is cancelled
  reader,     \* where readPump is
  writer,     \* where writePump is
  buffer,     \* messages in Client.send
  socket      \* the socket: "open", "stalled" (the peer reads nothing), "gone"

engines == <<matches, clients>>
pumps == <<cancelled, reader, writer, buffer>>
vars == <<engines, stage, match, pumps, socket>>

\* A connection belongs to the player its token names.
Conns == Players \X (1..MaxConns)
ID(c) == c[1]

EmptyMap == [x \in {} |-> x]
Put(map, key, value) ==
  [x \in DOMAIN map \cup {key} |-> IF x = key THEN value ELSE map[x]]
Delete(map, key) == Restrict(map, DOMAIN map \ {key})
Lesser(a, b) == IF a < b THEN a ELSE b

Init ==
  /\ matches = EmptyMap
  /\ clients = EmptyMap
  /\ stage = [c \in Conns |-> "none"]
  /\ match \in [Conns -> MatchIDs]
  /\ cancelled = [c \in Conns |-> FALSE]
  /\ reader = [c \in Conns |-> "off"]
  /\ writer = [c \in Conns |-> "off"]
  /\ buffer = [c \in Conns |-> 0]
  /\ socket = [c \in Conns |-> "gone"]

\* StartMatch.  CreateMatch would replace an engine that has the ID already;
\* that one is left out: CreatedOnce of Matchmaker says when no request meets
\* a match it has created.
StartMatch(m, roster) ==
  /\ m \notin DOMAIN matches
  /\ matches' = Put(matches, m, roster)
  /\ clients' = Put(clients, m, EmptyMap)
  /\ UNCHANGED <<stage, match, pumps, socket>>

\* Mutant of Tick: the buffer of a client is taken to be without limit.
TickUnbuffered(m) ==
  /\ m \in DOMAIN matches
  /\ buffer' = [c \in Conns |-> IF c \in Range(clients[m])
                                THEN buffer[c] + 1 ELSE buffer[c]]
  /\ UNCHANGED <<engines, stage, match, cancelled, reader, writer, socket>>

\* A tick of the match sends to every client of its engine; a client whose
\* buffer is full misses the message.
Tick(m) ==
  /\ m \in DOMAIN matches
  /\ buffer' = [c \in Conns |-> IF c \in Range(clients[m])
                                THEN Lesser(buffer[c] + 1, BufferSize)
                                ELSE buffer[c]]
  /\ UNCHANGED <<engines, stage, match, cancelled, reader, writer, socket>>

-----------------------------------------------------------------------------
(* ServeWS *)

\* The match is found and the connection upgraded; without a match the
\* request is answered and forgotten.
Upgrade(c, m) ==
  /\ stage[c] = "none"
  /\ m \in DOMAIN matches
  /\ stage' = [stage EXCEPT ![c] = "joining"]
  /\ match' = [match EXCEPT ![c] = m]
  /\ socket' = [socket EXCEPT ![c] = "open"]
  /\ UNCHANGED <<engines, pumps>>

\* The engine takes the client in the place of any other of the same player,
\* and the pumps start.
Join(c) ==
  /\ stage[c] = "joining"
  /\ ID(c) \in matches[match[c]]
  /\ clients' = [clients EXCEPT ![match[c]] = Put(@, ID(c), c)]
  /\ stage' = [stage EXCEPT ![c] = "serving"]
  /\ reader' = [reader EXCEPT ![c] = "reading"]
  /\ writer' = [writer EXCEPT ![c] = "select"]
  /\ UNCHANGED <<matches, match, cancelled, buffer, socket>>

\* Not part of this match: closed, and nothing to leave.
RefuseJoin(c) ==
  /\ stage[c] = "joining"
  /\ ID(c) \notin matches[match[c]]
  /\ stage' = [stage EXCEPT ![c] = "none"]
  /\ socket' = [socket EXCEPT ![c] = "gone"]
  /\ UNCHANGED <<engines, match, pumps>>

\* Mutant of PumpsEnd: only the write pump is waited for.
WriterEnds(c) ==
  /\ stage[c] = "serving"
  /\ writer[c] = "ended"
  /\ stage' = [stage EXCEPT ![c] = "closing"]
  /\ UNCHANGED <<engines, match, pumps, socket>>

\* Both pumps have ended; the socket is closed.
PumpsEnd(c) ==
  /\ stage[c] = "serving"
  /\ reader[c] = "ended"
  /\ writer[c] = "ended"
  /\ stage' = [stage EXCEPT ![c] = "closing"]
  /\ UNCHANGED <<engines, match, pumps, socket>>

\* What is left of a connection: nothing.
Forget(c) ==
  /\ stage' = [stage EXCEPT ![c] = "none"]
  /\ cancelled' = [cancelled EXCEPT ![c] = FALSE]
  /\ reader' = [reader EXCEPT ![c] = "off"]
  /\ writer' = [writer EXCEPT ![c] = "off"]
  /\ buffer' = [buffer EXCEPT ![c] = 0]
  /\ socket' = [socket EXCEPT ![c] = "gone"]
  /\ UNCHANGED <<matches, match>>

\* Mutant of Leave: the client stays in the table.
LeaveKeepsClient(c) == stage[c] = "closing" /\ Forget(c) /\ UNCHANGED clients

\* The deferred Leave, after the closing handshake: the client of the player
\* is removed, whichever connection it is.
Leave(c) ==
  /\ stage[c] = "closing"
  /\ clients' = [clients EXCEPT ![match[c]] = Delete(@, ID(c))]
  /\ Forget(c)

-----------------------------------------------------------------------------
(* readPump *)

\* A well-formed input arrives; a malformed one is skipped.
Read(c) ==
  /\ reader[c] = "reading"
  /\ socket[c] # "gone"
  /\ reader' = [reader EXCEPT ![c] = "handling"]
  /\ UNCHANGED <<engines, stage, match, cancelled, writer, buffer, socket>>

\* The input goes to HandleInput of the engine.
Handle(c) ==
  /\ reader[c] = "handling"
  /\ reader' = [reader EXCEPT ![c] = "reading"]
  /\ UNCHANGED <<engines, stage, match, cancelled, writer, buffer, socket>>

\* Mutant of ReadFails: the pump ends without cancelling the context.
ReadFailsSilently(c) ==
  /\ reader[c] = "reading"
  /\ socket[c] = "gone" \/ cancelled[c]
  /\ reader' = [reader EXCEPT ![c] = "ended"]
  /\ socket' = [socket EXCEPT ![c] = "gone"]
  /\ UNCHANGED <<engines, stage, match, cancelled, writer, buffer>>

\* The read fails once the peer is gone or the context is cancelled, which
\* closes the socket; the pump cancels the context and ends.
ReadFails(c) ==
  /\ reader[c] = "reading"
  /\ socket[c] = "gone" \/ cancelled[c]
  /\ reader' = [reader EXCEPT ![c] = "ended"]
  /\ cancelled' = [cancelled EXCEPT ![c] = TRUE]
  /\ socket' = [socket EXCEPT ![c] = "gone"]
  /\ UNCHANGED <<engines, stage, match, writer, buffer>>

-----------------------------------------------------------------------------
(* writePump *)

\* The select takes a message ...
WriteNext(c) ==
  /\ writer[c] = "select"
  /\ buffer[c] > 0
  /\ writer' = [writer EXCEPT ![c] = "writing"]
  /\ buffer' = [buffer EXCEPT ![c] = @ - 1]
  /\ UNCHANGED <<engines, stage, match, cancelled, reader, socket>>

\* ... or finds the context cancelled.
WriterStops(c) ==
  /\ writer[c] = "select"
  /\ cancelled[c]
  /\ writer' = [writer EXCEPT ![c] = "ended"]
  /\ UNCHANGED <<engines, stage, match, cancelled, reader, buffer, socket>>

Written(c) ==
  /\ writer[c] = "writing"
  /\ socket[c] = "open"
  /\ writer' = [writer EXCEPT ![c] = "select"]
  /\ UNCHANGED <<engines, stage, match, cancelled, reader, buffer, socket>>

\* Mutant of WriteFails: a write has no time limit of its own.
WriteFailsOnceGone(c) ==
  /\ writer[c] = "writing"
  /\ socket[c] = "gone" \/ cancelled[c]
  /\ writer' = [writer EXCEPT ![c] = "ended"]
  /\ cancelled' = [cancelled EXCEPT ![c] = TRUE]
  /\ socket' = [socket EXCEPT ![c] = "gone"]
  /\ UNCHANGED <<engines, stage, match, reader, buffer>>

\* The peer is gone, or takes nothing for five seconds, which closes the
\* socket; the pump cancels the context and ends.
WriteFails(c) ==
  /\ writer[c] = "writing"
  /\ socket[c] # "open" \/ cancelled[c]
  /\ writer' = [writer EXCEPT ![c] = "ended"]
  /\ cancelled' = [cancelled EXCEPT ![c] = TRUE]
  /\ socket' = [socket EXCEPT ![c] = "gone"]
  /\ UNCHANGED <<engines, stage, match, reader, buffer>>

-----------------------------------------------------------------------------
(* The peer. *)

Peer(c, from, to) ==
  /\ socket[c] = from
  /\ socket' = [socket EXCEPT ![c] = to]
  /\ UNCHANGED <<engines, stage, match, pumps>>

PeerStalls(c) == Peer(c, "open", "stalled")
PeerResumes(c) == Peer(c, "stalled", "open")
PeerGoes(c) == Peer(c, "open", "gone") \/ Peer(c, "stalled", "gone")

ServeWS(c) == Join(c) \/ RefuseJoin(c) \/ PumpsEnd(c) \/ Leave(c)
ReadPump(c) == Handle(c) \/ ReadFails(c)
WritePump(c) ==
  WriteNext(c) \/ WriterStops(c) \/ Written(c) \/ WriteFails(c)

Next ==
  \/ \E m \in MatchIDs :
       \/ \E roster \in SUBSET Players : StartMatch(m, roster)
       \/ Tick(m)
       \/ \E c \in Conns : Upgrade(c, m)
  \/ \E c \in Conns :
       \/ ServeWS(c)
       \/ Read(c) \/ ReadPump(c)
       \/ WritePump(c)
       \/ PeerStalls(c) \/ PeerResumes(c) \/ PeerGoes(c)

\* The goroutines of a connection run whenever they can, every match ticks.
\* A peer has no obligations: it need not send, read or ever go.
Fairness ==
  /\ \A c \in Conns : WF_vars(ServeWS(c)) /\ WF_vars(ReadPump(c))
                                          /\ WF_vars(WritePump(c))
  /\ \A m \in MatchIDs : WF_vars(Tick(m))

Spec == Init /\ [][Next]_vars /\ Fairness

-----------------------------------------------------------------------------
(* Properties. *)

Stages == {"none", "joining", "serving", "closing"}

\* Every variable has its type.
TypeOK ==
  /\ DOMAIN matches \subseteq MatchIDs
  /\ matches \in [DOMAIN matches -> SUBSET Players]
  /\ DOMAIN clients = DOMAIN matches
  /\ \A m \in DOMAIN matches :
       /\ DOMAIN clients[m] \subseteq matches[m]
       /\ clients[m] \in [DOMAIN clients[m] -> Conns]
  /\ stage \in [Conns -> Stages]
  /\ match \in [Conns -> MatchIDs]
  /\ cancelled \in [Conns -> BOOLEAN]
  /\ reader \in [Conns -> {"off", "reading", "handling", "ended"}]
  /\ writer \in [Conns -> {"off", "select", "writing", "ended"}]
  /\ buffer \in [Conns -> 0..BufferSize]
  /\ socket \in [Conns -> {"open", "stalled", "gone"}]

\* The engine sends to the connection c.
Served(c) ==
  /\ match[c] \in DOMAIN clients
  /\ ID(c) \in DOMAIN clients[match[c]]
  /\ clients[match[c]][ID(c)] = c

\* An engine sends only to connections ServeWS has not left yet, of players
\* who asked for that match: no tick meets the client of a finished request.
ClientsAreConnections ==
  \A m \in DOMAIN matches : \A p \in DOMAIN clients[m] :
    LET c == clients[m][p]
    IN  /\ ID(c) = p
        /\ match[c] = m
        /\ stage[c] \in {"serving", "closing"}

\* No input reaches the engine from a connection that has begun to close, so
\* none after its Leave: both pumps have ended before.
InputsPrecedeLeave ==
  \A c \in Conns :
    reader[c] \in {"reading", "handling"} => stage[c] = "serving"

\* Connections to the match between their Join and their Leave.
Joined(m) ==
  {c \in Conns : match[c] = m /\ stage[c] \in {"serving", "closing"}}

Of(map, m) == IF m \in DOMAIN map THEN map[m] ELSE EmptyMap

Attendance(m) == INSTANCE Attendance WITH
  roster <- Of(matches, m), clients <- Of(clients, m), joined <- Joined(m)

\* What ServeWS and its pumps do to the client table of any match is what an
\* engine counts on: a connection joins, and leaves once, whatever closes it,
\* and a connection that was refused or superseded is no exception.
ImplementsAttendance ==
  /\ \A m \in MatchIDs : Attendance(m)!Init
  /\ [][\A m \in MatchIDs : [Attendance(m)!Next]_(Attendance(m)!vars)]_vars

\* Once the peer is gone the player leaves the match, also when the engine
\* has stopped sending to this connection: a failed read stops the write pump.
GoneIsLeft == \A c \in Conns :
  (stage[c] = "serving" /\ socket[c] = "gone") ~> (stage[c] = "none")

\* A client that reads nothing any more is not served for ever: a write fails
\* in the end, and that stops the read pump, which would wait for ever.
StalledIsLeft == \A c \in Conns :
  (stage[c] = "serving" /\ socket[c] = "stalled" /\ Served(c))
    ~> (stage[c] = "none" \/ socket[c] = "open" \/ ~Served(c))

=============================================================================
