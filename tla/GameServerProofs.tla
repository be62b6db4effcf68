-------------------------- MODULE GameServerProofs --------------------------
(***************************************************************************)
(* Proofs about GameServer, for any players, matches, number of            *)
(* connections and buffer capacity.                                        *)
(***************************************************************************)
EXTENDS GameServer, TLAPS

\* The inductive invariant: the three state properties support one another,
\* since a client that is always a running connection is one whose Leave is
\* still to come.
IInv == TypeOK /\ ClientsAreConnections /\ InputsPrecedeLeave

\* An instance starts without matches and without connections.
LEMMA InitIInv == Init => IInv
  <1> SUFFICES ASSUME Init PROVE IInv
    OBVIOUS
  <1>1. DOMAIN matches = {} /\ DOMAIN clients = {}
    BY DEF Init, EmptyMap
  <1>2. TypeOK
    BY <1>1, GameServerAssumption DEF Init, TypeOK, Stages, EmptyMap
  <1>3. ClientsAreConnections /\ InputsPrecedeLeave
    BY <1>1 DEF Init, ClientsAreConnections, InputsPrecedeLeave
  <1> QED
    BY <1>2, <1>3 DEF IInv

\* A new match has no clients yet, and disturbs none of the others.
LEMMA StartMatchIInv ==
  ASSUME IInv, NEW m \in MatchIDs, NEW roster \in SUBSET Players,
         StartMatch(m, roster)
  PROVE  IInv'
  <1>1. /\ DOMAIN matches' = DOMAIN matches \cup {m}
        /\ DOMAIN clients' = DOMAIN matches \cup {m}
        /\ matches'[m] = roster
        /\ clients'[m] = EmptyMap
        /\ \A n \in DOMAIN matches :
             matches'[n] = matches[n] /\ clients'[n] = clients[n]
    BY DEF IInv, TypeOK, StartMatch, Put
  <1>2. DOMAIN EmptyMap = {} /\ EmptyMap \in [{} -> Conns]
    BY DEF EmptyMap
  <1>3. /\ DOMAIN matches' \subseteq MatchIDs
        /\ matches' \in [DOMAIN matches' -> SUBSET Players]
        /\ DOMAIN clients' = DOMAIN matches'
        /\ \A n \in DOMAIN matches' :
             /\ DOMAIN clients'[n] \subseteq matches'[n]
             /\ clients'[n] \in [DOMAIN clients'[n] -> Conns]
    <2>1. matches' \in [DOMAIN matches' -> SUBSET Players]
      BY <1>1 DEF IInv, TypeOK, StartMatch, Put
    <2> QED
      BY <1>1, <1>2, <2>1 DEF IInv, TypeOK
  <1>4. UNCHANGED <<stage, match, cancelled, reader, writer, buffer, socket>>
    BY DEF StartMatch, pumps
  <1>5. TypeOK'
    BY <1>3, <1>4 DEF IInv, TypeOK
  <1>6. ClientsAreConnections'
    BY <1>1, <1>2, <1>4 DEF IInv, ClientsAreConnections
  <1>7. InputsPrecedeLeave'
    BY <1>4 DEF IInv, InputsPrecedeLeave
  <1> QED
    BY <1>5, <1>6, <1>7 DEF IInv

\* A tick fills buffers, none beyond its capacity.
LEMMA TickIInv ==
  ASSUME IInv, NEW m \in MatchIDs, Tick(m)
  PROVE  IInv'
  <1>1. buffer' \in [Conns -> 0..BufferSize]
    BY GameServerAssumption DEF IInv, TypeOK, Tick, Lesser
  <1>2. UNCHANGED <<matches, clients, stage, match, cancelled, reader, writer,
                    socket>>
    BY DEF Tick, engines
  <1> QED
    BY <1>1, <1>2
    DEF IInv, TypeOK, ClientsAreConnections, InputsPrecedeLeave

\* A connection that starts is no client of any match.
LEMMA UpgradeIInv ==
  ASSUME IInv, NEW c \in Conns, NEW m \in MatchIDs, Upgrade(c, m)
  PROVE  IInv'
  <1>1. /\ stage[c] = "none"
        /\ stage' = [stage EXCEPT ![c] = "joining"]
        /\ match' = [match EXCEPT ![c] = m]
        /\ socket' = [socket EXCEPT ![c] = "open"]
        /\ UNCHANGED <<matches, clients, cancelled, reader, writer, buffer>>
    BY DEF Upgrade, engines, pumps
  <1>2. TypeOK'
    BY <1>1 DEF IInv, TypeOK, Stages
  <1>3. ClientsAreConnections'
    <2>1. ASSUME NEW n \in DOMAIN matches, NEW p \in DOMAIN clients[n]
          PROVE  /\ clients[n][p] \in Conns
                 /\ clients[n][p] # c
      BY <1>1, <2>1 DEF IInv, TypeOK, ClientsAreConnections
    <2> QED
      BY <1>1, <2>1 DEF IInv, TypeOK, ClientsAreConnections
  <1>4. InputsPrecedeLeave'
    BY <1>1 DEF IInv, TypeOK, InputsPrecedeLeave
  <1> QED
    BY <1>2, <1>3, <1>4 DEF IInv

\* The player of a connection.
LEMMA ConnType == ASSUME NEW c \in Conns PROVE ID(c) \in Players
  BY DEF Conns, ID

\* Join puts the connection in the table of its own match only.
LEMMA JoinIInv ==
  ASSUME IInv, NEW c \in Conns, Join(c)
  PROVE  IInv'
  <1> DEFINE m == match[c]
             table == Put(clients[m], ID(c), c)
  <1>1. /\ stage[c] = "joining"
        /\ ID(c) \in matches[m]
        /\ clients' = [clients EXCEPT ![m] = table]
        /\ stage' = [stage EXCEPT ![c] = "serving"]
        /\ reader' = [reader EXCEPT ![c] = "reading"]
        /\ writer' = [writer EXCEPT ![c] = "select"]
        /\ UNCHANGED <<matches, match, cancelled, buffer, socket>>
    BY DEF Join
  <1>2. /\ DOMAIN clients = DOMAIN matches
        /\ \A n \in DOMAIN matches :
             /\ DOMAIN clients[n] \subseteq matches[n]
             /\ clients[n] \in [DOMAIN clients[n] -> Conns]
    BY DEF IInv, TypeOK
  <1>3. DOMAIN clients' = DOMAIN clients
    BY <1>1
  <1>4. \A n \in DOMAIN clients : n # m => clients'[n] = clients[n]
    BY <1>1
  <1>5. ASSUME m \in DOMAIN clients
        PROVE  /\ clients'[m] = table
               /\ DOMAIN table = DOMAIN clients[m] \cup {ID(c)}
               /\ table[ID(c)] = c
               /\ \A p \in DOMAIN clients[m] \ {ID(c)} :
                    table[p] = clients[m][p]
               /\ table \in [DOMAIN table -> Conns]
    BY <1>1, <1>2, <1>5 DEF Put
  <1> HIDE DEF m, table
  <1>6. TypeOK'
    <2>1. \A n \in DOMAIN matches :
            /\ DOMAIN clients'[n] \subseteq matches[n]
            /\ clients'[n] \in [DOMAIN clients'[n] -> Conns]
      BY <1>1, <1>2, <1>4, <1>5
    <2>2. DOMAIN clients' = DOMAIN matches
      BY <1>2, <1>3
    <2>3. /\ stage' \in [Conns -> Stages]
          /\ reader' \in [Conns -> {"off", "reading", "handling", "ended"}]
          /\ writer' \in [Conns -> {"off", "select", "writing", "ended"}]
      BY <1>1 DEF IInv, TypeOK, Stages
    <2> QED
      BY <1>1, <2>1, <2>2, <2>3 DEF IInv, TypeOK
  <1>7. ClientsAreConnections'
    <2>1. stage'[c] = "serving" /\ match'[c] = m
      BY <1>1 DEF IInv, TypeOK, m
    <2>2. \A d \in Conns : d # c => stage'[d] = stage[d]
      BY <1>1 DEF IInv, TypeOK
    <2>3. ASSUME NEW n \in DOMAIN matches, NEW p \in DOMAIN clients[n],
                 clients'[n][p] = clients[n][p]
          PROVE  /\ ID(clients'[n][p]) = p
                 /\ match'[clients'[n][p]] = n
                 /\ stage'[clients'[n][p]] \in {"serving", "closing"}
      <3>1. /\ clients[n][p] \in Conns
            /\ ID(clients[n][p]) = p
            /\ match[clients[n][p]] = n
            /\ stage[clients[n][p]] \in {"serving", "closing"}
        BY <1>2 DEF IInv, ClientsAreConnections
      <3> QED
        BY <1>1, <2>1, <2>2, <2>3, <3>1
    <2>4. ASSUME NEW n \in DOMAIN matches, NEW p \in DOMAIN clients'[n]
          PROVE  /\ ID(clients'[n][p]) = p
                 /\ match'[clients'[n][p]] = n
                 /\ stage'[clients'[n][p]] \in {"serving", "closing"}
      <3>1. CASE n = m /\ p = ID(c)
        BY <1>2, <1>5, <2>1, <3>1
      <3>2. CASE n # m \/ p # ID(c)
        BY <1>2, <1>4, <1>5, <2>3, <3>2
      <3> QED
        BY <3>1, <3>2
    <2> QED
      BY <1>1, <2>4 DEF ClientsAreConnections
  <1>8. InputsPrecedeLeave'
    BY <1>1 DEF IInv, TypeOK, InputsPrecedeLeave
  <1> QED
    BY <1>6, <1>7, <1>8 DEF IInv

\* A connection that is refused was no client.
LEMMA RefuseJoinIInv ==
  ASSUME IInv, NEW c \in Conns, RefuseJoin(c)
  PROVE  IInv'
  <1>1. /\ stage[c] = "joining"
        /\ stage' = [stage EXCEPT ![c] = "none"]
        /\ socket' = [socket EXCEPT ![c] = "gone"]
        /\ UNCHANGED <<matches, clients, match, cancelled, reader, writer,
                       buffer>>
    BY DEF RefuseJoin, engines, pumps
  <1>2. TypeOK'
    BY <1>1 DEF IInv, TypeOK, Stages
  <1>3. ClientsAreConnections'
    <2>1. ASSUME NEW n \in DOMAIN matches, NEW p \in DOMAIN clients[n]
          PROVE  /\ clients[n][p] \in Conns
                 /\ clients[n][p] # c
      BY <1>1, <2>1 DEF IInv, TypeOK, ClientsAreConnections
    <2> QED
      BY <1>1, <2>1 DEF IInv, TypeOK, ClientsAreConnections
  <1>4. InputsPrecedeLeave'
    BY <1>1 DEF IInv, TypeOK, InputsPrecedeLeave
  <1> QED
    BY <1>2, <1>3, <1>4 DEF IInv

\* A connection closes once both its pumps have ended.
LEMMA PumpsEndIInv ==
  ASSUME IInv, NEW c \in Conns, PumpsEnd(c)
  PROVE  IInv'
  <1>1. /\ reader[c] = "ended"
        /\ stage' = [stage EXCEPT ![c] = "closing"]
        /\ UNCHANGED <<matches, clients, match, cancelled, reader, writer,
                       buffer, socket>>
    BY DEF PumpsEnd, engines, pumps
  <1>2. TypeOK'
    BY <1>1 DEF IInv, TypeOK, Stages
  <1>3. ClientsAreConnections'
    <2>1. \A n \in DOMAIN matches : \A p \in DOMAIN clients[n] :
            clients[n][p] \in Conns
      BY DEF IInv, TypeOK
    <2> QED
      BY <1>1, <2>1 DEF IInv, TypeOK, ClientsAreConnections
  <1>4. InputsPrecedeLeave'
    BY <1>1 DEF IInv, TypeOK, InputsPrecedeLeave
  <1> QED
    BY <1>2, <1>3, <1>4 DEF IInv

\* Leave takes the connection, or the one that superseded it, out of the
\* table of its match; it was in no other.
LEMMA LeaveIInv ==
  ASSUME IInv, NEW c \in Conns, Leave(c)
  PROVE  IInv'
  <1> DEFINE m == match[c]
             table == Delete(clients[m], ID(c))
  <1>1. /\ stage[c] = "closing"
        /\ clients' = [clients EXCEPT ![m] = table]
        /\ stage' = [stage EXCEPT ![c] = "none"]
        /\ cancelled' = [cancelled EXCEPT ![c] = FALSE]
        /\ reader' = [reader EXCEPT ![c] = "off"]
        /\ writer' = [writer EXCEPT ![c] = "off"]
        /\ buffer' = [buffer EXCEPT ![c] = 0]
        /\ socket' = [socket EXCEPT ![c] = "gone"]
        /\ UNCHANGED <<matches, match>>
    BY DEF Leave, Forget
  <1>2. /\ DOMAIN clients = DOMAIN matches
        /\ \A n \in DOMAIN matches :
             /\ DOMAIN clients[n] \subseteq matches[n]
             /\ clients[n] \in [DOMAIN clients[n] -> Conns]
    BY DEF IInv, TypeOK
  <1>3. DOMAIN clients' = DOMAIN clients
    BY <1>1
  <1>4. \A n \in DOMAIN clients : n # m => clients'[n] = clients[n]
    BY <1>1
  <1>5. ASSUME m \in DOMAIN clients
        PROVE  /\ clients'[m] = table
               /\ DOMAIN table = DOMAIN clients[m] \ {ID(c)}
               /\ \A p \in DOMAIN table : table[p] = clients[m][p]
               /\ table \in [DOMAIN table -> Conns]
    BY <1>1, <1>2, <1>5 DEF Delete, Restrict
  <1> HIDE DEF m, table
  <1>6. TypeOK'
    <2>1. \A n \in DOMAIN matches :
            /\ DOMAIN clients'[n] \subseteq matches[n]
            /\ clients'[n] \in [DOMAIN clients'[n] -> Conns]
      BY <1>1, <1>2, <1>4, <1>5
    <2>2. DOMAIN clients' = DOMAIN matches
      BY <1>2, <1>3
    <2>3. /\ stage' \in [Conns -> Stages]
          /\ cancelled' \in [Conns -> BOOLEAN]
          /\ reader' \in [Conns -> {"off", "reading", "handling", "ended"}]
          /\ writer' \in [Conns -> {"off", "select", "writing", "ended"}]
          /\ buffer' \in [Conns -> 0..BufferSize]
          /\ socket' \in [Conns -> {"open", "stalled", "gone"}]
      BY <1>1, GameServerAssumption DEF IInv, TypeOK, Stages
    <2> QED
      BY <1>1, <2>1, <2>2, <2>3 DEF IInv, TypeOK
  <1>7. ClientsAreConnections'
    <2>1. ASSUME NEW n \in DOMAIN matches, NEW p \in DOMAIN clients'[n]
          PROVE  /\ ID(clients'[n][p]) = p
                 /\ match'[clients'[n][p]] = n
                 /\ stage'[clients'[n][p]] \in {"serving", "closing"}
      <3>1. /\ p \in DOMAIN clients[n]
            /\ clients'[n][p] = clients[n][p]
            /\ n = m => p # ID(c)
        BY <1>2, <1>4, <1>5
      <3>2. /\ clients[n][p] \in Conns
            /\ ID(clients[n][p]) = p
            /\ match[clients[n][p]] = n
            /\ stage[clients[n][p]] \in {"serving", "closing"}
        BY <1>2, <3>1 DEF IInv, ClientsAreConnections
      <3>3. clients[n][p] # c
        BY <3>1, <3>2 DEF m
      <3>4. stage'[clients[n][p]] = stage[clients[n][p]]
        BY <1>1, <3>2, <3>3 DEF IInv, TypeOK
      <3> QED
        BY <1>1, <3>1, <3>2, <3>4
    <2> QED
      BY <1>1, <2>1 DEF ClientsAreConnections
  <1>8. InputsPrecedeLeave'
    BY <1>1 DEF IInv, TypeOK, InputsPrecedeLeave
  <1> QED
    BY <1>6, <1>7, <1>8 DEF IInv

\* The pumps and the peer change neither the tables nor how far ServeWS is,
\* and a pump that has ended does not start again.
LEMMA PumpIInv ==
  ASSUME IInv, UNCHANGED <<matches, clients, stage, match>>,
         cancelled' \in [Conns -> BOOLEAN],
         reader' \in [Conns -> {"off", "reading", "handling", "ended"}],
         writer' \in [Conns -> {"off", "select", "writing", "ended"}],
         buffer' \in [Conns -> 0..BufferSize],
         socket' \in [Conns -> {"open", "stalled", "gone"}],
         \A c \in Conns : reader'[c] \in {"reading", "handling"}
                            => reader[c] \in {"reading", "handling"}
  PROVE  IInv'
  BY DEF IInv, TypeOK, ClientsAreConnections, InputsPrecedeLeave

\* Every step of a pump or of the peer keeps the invariant.
LEMMA PumpsIInv ==
  ASSUME IInv, NEW c \in Conns,
         \/ Read(c) \/ ReadPump(c) \/ WritePump(c)
         \/ PeerStalls(c) \/ PeerResumes(c) \/ PeerGoes(c)
  PROVE  IInv'
  <1>1. CASE Read(c)
    BY <1>1, PumpIInv DEF Read, IInv, TypeOK, engines
  <1>2. CASE Handle(c)
    BY <1>2, PumpIInv DEF Handle, IInv, TypeOK, engines
  <1>3. CASE ReadFails(c)
    BY <1>3, PumpIInv DEF ReadFails, IInv, TypeOK, engines
  <1>4. CASE WriteNext(c)
    <2>1. buffer' \in [Conns -> 0..BufferSize]
      BY <1>4, GameServerAssumption DEF WriteNext, IInv, TypeOK
    <2> QED
      BY <1>4, <2>1, PumpIInv DEF WriteNext, IInv, TypeOK, engines
  <1>5. CASE WriterStops(c)
    BY <1>5, PumpIInv DEF WriterStops, IInv, TypeOK, engines
  <1>6. CASE Written(c)
    BY <1>6, PumpIInv DEF Written, IInv, TypeOK, engines
  <1>7. CASE WriteFails(c)
    BY <1>7, PumpIInv DEF WriteFails, IInv, TypeOK, engines
  <1>8. CASE PeerStalls(c) \/ PeerResumes(c) \/ PeerGoes(c)
    BY <1>8, PumpIInv
    DEF PeerStalls, PeerResumes, PeerGoes, Peer, IInv, TypeOK, engines, pumps
  <1> QED
    BY <1>1, <1>2, <1>3, <1>4, <1>5, <1>6, <1>7, <1>8 DEF ReadPump, WritePump

\* Every step keeps the invariant.
LEMMA NextIInv == IInv /\ [Next]_vars => IInv'
  <1> SUFFICES ASSUME IInv, [Next]_vars PROVE IInv'
    OBVIOUS
  <1>1. ASSUME NEW m \in MatchIDs, NEW roster \in SUBSET Players,
               StartMatch(m, roster)
        PROVE  IInv'
    BY <1>1, StartMatchIInv
  <1>2. ASSUME NEW m \in MatchIDs, Tick(m) PROVE IInv'
    BY <1>2, TickIInv
  <1>3. ASSUME NEW m \in MatchIDs, NEW c \in Conns, Upgrade(c, m)
        PROVE  IInv'
    BY <1>3, UpgradeIInv
  <1>4. ASSUME NEW c \in Conns, ServeWS(c) PROVE IInv'
    BY <1>4, JoinIInv, RefuseJoinIInv, PumpsEndIInv, LeaveIInv DEF ServeWS
  <1>5. ASSUME NEW c \in Conns,
               \/ Read(c) \/ ReadPump(c) \/ WritePump(c)
               \/ PeerStalls(c) \/ PeerResumes(c) \/ PeerGoes(c)
        PROVE  IInv'
    BY <1>5, PumpsIInv
  <1>6. CASE UNCHANGED vars
    BY <1>6
    DEF vars, engines, pumps, IInv, TypeOK, ClientsAreConnections,
        InputsPrecedeLeave
  <1> QED
    BY <1>1, <1>2, <1>3, <1>4, <1>5, <1>6 DEF Next

\* The invariant holds throughout every behaviour of an instance.
LEMMA Invariance == Spec => []IInv
  BY InitIInv, NextIInv, PTL DEF Spec

-----------------------------------------------------------------------------
(* The contract of the sockets and the engines. *)

\* A connection that is served has asked for a match that exists.
Asked == \A c \in Conns : stage[c] # "none" => match[c] \in DOMAIN matches

\* Matches do not go away.
LEMMA AskedInvariance == Spec => []Asked
  <1>1. Init => Asked
    BY DEF Init, Asked
  <1>2. IInv /\ Asked /\ [Next]_vars => Asked'
    <2> SUFFICES ASSUME IInv, Asked, [Next]_vars PROVE Asked'
      OBVIOUS
    <2>1. ASSUME NEW c \in Conns, NEW m \in MatchIDs, Upgrade(c, m)
          PROVE  Asked'
      BY <2>1 DEF Upgrade, Asked, IInv, TypeOK, engines
    <2>2. ASSUME NEW m \in MatchIDs, NEW roster \in SUBSET Players,
                 StartMatch(m, roster)
          PROVE  Asked'
      BY <2>2 DEF StartMatch, Asked, Put
    <2>3. ASSUME NEW c \in Conns, ServeWS(c)
          PROVE  Asked'
      BY <2>3 DEF ServeWS, Join, RefuseJoin, PumpsEnd, Leave, Forget, Asked,
                  IInv, TypeOK, engines
    <2>4. CASE UNCHANGED <<matches, stage, match>>
      BY <2>4 DEF Asked
    <2>5. ASSUME NEW c \in Conns,
                 \/ Read(c) \/ ReadPump(c) \/ WritePump(c)
                 \/ PeerStalls(c) \/ PeerResumes(c) \/ PeerGoes(c)
          PROVE  UNCHANGED <<matches, stage, match>>
      BY <2>5
      DEF Read, ReadPump, Handle, ReadFails, WritePump, WriteNext,
          WriterStops, Written, WriteFails, PeerStalls, PeerResumes, PeerGoes,
          Peer, engines
    <2>6. ASSUME NEW m \in MatchIDs, Tick(m)
          PROVE  UNCHANGED <<matches, stage, match>>
      BY <2>6 DEF Tick, engines
    <2> QED
      BY <2>1, <2>2, <2>3, <2>4, <2>5, <2>6 DEF Next, vars, engines
  <1> QED
    BY <1>1, <1>2, Invariance, PTL DEF Spec

\* A match nobody has joined or left is as it was for the contract.
LEMMA SameAttendance ==
  ASSUME NEW m \in MatchIDs, UNCHANGED <<matches, clients, match>>,
         \A c \in Conns : stage'[c] \in {"serving", "closing"}
                             <=> stage[c] \in {"serving", "closing"}
  PROVE  UNCHANGED Attendance(m)!vars
  BY DEF Attendance!vars, Of, Joined

\* A new match has no connections, and the others keep theirs.
LEMMA StartMatchAttendance ==
  ASSUME IInv, Asked, NEW n \in MatchIDs, NEW roster \in SUBSET Players,
         StartMatch(n, roster), NEW m \in MatchIDs
  PROVE  [Attendance(m)!Next]_(Attendance(m)!vars)
  <1>1. /\ UNCHANGED <<stage, match>>
        /\ n \notin DOMAIN matches /\ DOMAIN clients = DOMAIN matches
        /\ DOMAIN matches' = DOMAIN matches \cup {n}
        /\ DOMAIN clients' = DOMAIN matches \cup {n}
        /\ clients'[n] = EmptyMap
        /\ \A k \in DOMAIN matches :
             matches'[k] = matches[k] /\ clients'[k] = clients[k]
    BY DEF StartMatch, IInv, TypeOK, Put
  <1>2. UNCHANGED Joined(m)
    BY <1>1 DEF Joined
  <1>3. CASE m = n
    <2>1. Joined(m) = {}
      BY <1>1, <1>3 DEF IInv, Asked, Joined
    <2>2. DOMAIN Of(clients, m)' = {}
      BY <1>1, <1>3 DEF Of, EmptyMap
    <2> QED
      BY <1>2, <2>1, <2>2 DEF Attendance!Next, Attendance!Create
  <1>4. CASE m # n
    BY <1>1, <1>2, <1>4 DEF Attendance!vars, Of
  <1> QED
    BY <1>3, <1>4

\* Join is the Join of its match.
LEMMA JoinAttendance ==
  ASSUME IInv, Asked, NEW c \in Conns, Join(c), NEW m \in MatchIDs
  PROVE  [Attendance(m)!Next]_(Attendance(m)!vars)
  <1>1. /\ stage[c] = "joining"
        /\ match[c] \in DOMAIN matches /\ DOMAIN clients = DOMAIN matches
        /\ ID(c) \in matches[match[c]]
        /\ clients' = [clients EXCEPT ![match[c]] =
                         Put(clients[match[c]], ID(c), c)]
        /\ UNCHANGED <<matches, match>>
        /\ \A d \in Conns : stage'[d] = IF d = c THEN "serving" ELSE stage[d]
    BY DEF IInv, TypeOK, Asked, Join
  <1>2. CASE match[c] = m
    <2>1. c \notin Joined(m) /\ Joined(m)' = Joined(m) \cup {c}
      BY <1>1, <1>2 DEF Joined
    <2>2. /\ Of(matches, m) = matches[m] /\ UNCHANGED Of(matches, m)
          /\ Of(clients, m) = clients[m]
          /\ Of(clients, m)' = Put(clients[m], ID(c), c)
      BY <1>1, <1>2 DEF Of
    <2>3. Attendance(m)!Join(c)
      BY <1>1, <1>2, <2>1, <2>2 DEF Attendance!Join, Put, ID
    <2> QED
      BY <2>3 DEF Attendance!Next
  <1>3. CASE match[c] # m
    BY <1>1, <1>3 DEF Attendance!vars, Of, Joined
  <1> QED
    BY <1>2, <1>3

\* Leave is the Leave of its match.
LEMMA LeaveAttendance ==
  ASSUME IInv, Asked, NEW c \in Conns, Leave(c), NEW m \in MatchIDs
  PROVE  [Attendance(m)!Next]_(Attendance(m)!vars)
  <1>1. /\ stage[c] = "closing"
        /\ match[c] \in DOMAIN matches /\ DOMAIN clients = DOMAIN matches
        /\ clients' = [clients EXCEPT ![match[c]] =
                         Delete(clients[match[c]], ID(c))]
        /\ UNCHANGED <<matches, match>>
        /\ \A d \in Conns : stage'[d] = IF d = c THEN "none" ELSE stage[d]
    BY DEF IInv, TypeOK, Asked, Leave, Forget
  <1>2. CASE match[c] = m
    <2>1. c \in Joined(m) /\ Joined(m)' = Joined(m) \ {c}
      BY <1>1, <1>2 DEF Joined
    <2>2. /\ UNCHANGED Of(matches, m)
          /\ Of(clients, m) = clients[m]
          /\ Of(clients, m)' = Delete(clients[m], ID(c))
      BY <1>1, <1>2 DEF Of
    <2>3. Attendance(m)!Leave(c)
      BY <2>1, <2>2
      DEF Attendance!Leave, Attendance!Restrict, Restrict, Delete, ID
    <2> QED
      BY <2>3 DEF Attendance!Next
  <1>3. CASE match[c] # m
    BY <1>1, <1>3 DEF Attendance!vars, Of, Joined
  <1> QED
    BY <1>2, <1>3

\* Whatever else happens, no connection joins or leaves.
LEMMA OtherAttendance ==
  ASSUME IInv, Asked, NEW c \in Conns, NEW m \in MatchIDs,
         \/ \E n \in MatchIDs : Upgrade(c, n)
         \/ RefuseJoin(c) \/ PumpsEnd(c)
         \/ Read(c) \/ ReadPump(c) \/ WritePump(c)
         \/ PeerStalls(c) \/ PeerResumes(c) \/ PeerGoes(c)
  PROVE  UNCHANGED Attendance(m)!vars
  <1>1. ASSUME NEW n \in MatchIDs, Upgrade(c, n)
        PROVE  UNCHANGED Attendance(m)!vars
    <2>1. /\ UNCHANGED <<matches, clients>>
          /\ \A d \in Conns : d # c => /\ stage'[d] = stage[d]
                                        /\ match'[d] = match[d]
          /\ stage[c] = "none" /\ stage'[c] = "joining"
      BY <1>1 DEF Upgrade, IInv, TypeOK, engines
    <2> QED
      BY <2>1 DEF Attendance!vars, Of, Joined
  <1>2. CASE RefuseJoin(c) \/ PumpsEnd(c)
    BY <1>2, SameAttendance DEF RefuseJoin, PumpsEnd, IInv, TypeOK, engines
  <1>3. CASE \/ Read(c) \/ ReadPump(c) \/ WritePump(c)
             \/ PeerStalls(c) \/ PeerResumes(c) \/ PeerGoes(c)
    <2>1. UNCHANGED <<matches, clients, stage, match>>
      BY <1>3
      DEF Read, ReadPump, Handle, ReadFails, WritePump, WriteNext,
          WriterStops, Written, WriteFails, PeerStalls, PeerResumes, PeerGoes,
          Peer, engines
    <2> QED
      BY <2>1, SameAttendance
  <1> QED
    BY <1>1, <1>2, <1>3

-----------------------------------------------------------------------------
(* The theorems. *)

\* Every variable keeps its type, and no buffer exceeds its capacity.
THEOREM Types == Spec => []TypeOK
  BY Invariance, PTL DEF IInv

\* No tick sends to a connection whose request has ended.
THEOREM ClientsRun == Spec => []ClientsAreConnections
  BY Invariance, PTL DEF IInv

\* The sockets keep the contract with every engine of the instance.
THEOREM Contract == Spec => ImplementsAttendance
  <1>1. Init => \A m \in MatchIDs : Attendance(m)!Init
    BY DEF Init, Attendance!Init, Of, Joined, EmptyMap
  <1>2. IInv /\ Asked /\ [Next]_vars => [\A m \in MatchIDs :
                  [Attendance(m)!Next]_(Attendance(m)!vars)]_vars
    <2> SUFFICES ASSUME IInv, Asked, Next, NEW m \in MatchIDs
                 PROVE  [Attendance(m)!Next]_(Attendance(m)!vars)
      OBVIOUS
    <2>1. CASE \E n \in MatchIDs : \E roster \in SUBSET Players :
                 StartMatch(n, roster)
      BY <2>1, StartMatchAttendance
    <2>2. CASE \E n \in MatchIDs : Tick(n)
      BY <2>2, SameAttendance DEF Tick, engines
    <2>3. CASE \E c \in Conns : \/ Join(c) \/ Leave(c)
      BY <2>3, JoinAttendance, LeaveAttendance
    <2>4. CASE \E c \in Conns :
                 \/ \E n \in MatchIDs : Upgrade(c, n)
                 \/ RefuseJoin(c) \/ PumpsEnd(c)
                 \/ Read(c) \/ ReadPump(c) \/ WritePump(c)
                 \/ PeerStalls(c) \/ PeerResumes(c) \/ PeerGoes(c)
      BY <2>4, OtherAttendance
    <2> QED
      BY <2>1, <2>2, <2>3, <2>4 DEF Next, ServeWS
  <1> QED
    BY <1>1, <1>2, Invariance, AskedInvariance, PTL
    DEF Spec, ImplementsAttendance

\* No input of a connection comes after its Leave.
THEOREM NoLateInput == Spec => []InputsPrecedeLeave
  BY Invariance, PTL DEF IInv

-----------------------------------------------------------------------------
(* How a connection is taken down. *)

\* The pumps of a connection run while it is served; one that has ended has
\* cancelled the context, and that closes the socket.
Together(c) ==
  /\ stage[c] \in {"none", "joining"} =>
       reader[c] = "off" /\ writer[c] = "off" /\ ~cancelled[c]
  /\ stage[c] = "serving" => reader[c] # "off" /\ writer[c] # "off"
  /\ stage[c] = "closing" => reader[c] = "ended" /\ writer[c] = "ended"
  /\ reader[c] = "ended" \/ writer[c] = "ended" => cancelled[c]
  /\ cancelled[c] => socket[c] = "gone"

PumpsTogether == \A c \in Conns : Together(c)

Ending(c) == stage[c] \in {"serving", "closing"} /\ socket[c] = "gone"

\* The goroutines of the connection c have a step to take: the guards of
\* Handle, ReadFails, WriteNext, WriterStops, WriteFails, PumpsEnd and Leave.
HasStep(c) ==
  \/ reader[c] = "handling"
  \/ reader[c] = "reading" /\ (socket[c] = "gone" \/ cancelled[c])
  \/ writer[c] = "select" /\ (buffer[c] > 0 \/ cancelled[c])
  \/ writer[c] = "writing" /\ (socket[c] # "open" \/ cancelled[c])
  \/ stage[c] = "serving" /\ reader[c] = "ended" /\ writer[c] = "ended"
  \/ stage[c] = "closing"

NoTeardownDeadlock == \A c \in Conns : Ending(c) => HasStep(c)

\* The steps left to the goroutines of a connection that ends.
ServeRank(s) == IF s = "serving" THEN 1 ELSE 0
ReadRank(s) == IF s = "handling" THEN 2 ELSE IF s = "reading" THEN 1 ELSE 0
WriteRank(s) == IF s = "select" THEN 2 ELSE IF s = "writing" THEN 1 ELSE 0
Rank(c) == ServeRank(stage[c]) + ReadRank(reader[c]) + WriteRank(writer[c])

\* What the goroutines of c and its peer change.
Local(c) == <<stage[c], reader[c], writer[c], cancelled[c], socket[c]>>

Shrinks(c) == Ending(c) =>
  \/ stage'[c] = "none"
  \/ Ending(c)' /\ Rank(c)' < Rank(c)
  \/ UNCHANGED Local(c)

TeardownShrinks == [][\A c \in Conns : Shrinks(c)]_vars

\* The steps of a connection, its pumps and its peer.
ConnStep(c) ==
  \/ \E m \in MatchIDs : Upgrade(c, m)
  \/ ServeWS(c) \/ Read(c) \/ ReadPump(c) \/ WritePump(c)
  \/ PeerStalls(c) \/ PeerResumes(c) \/ PeerGoes(c)

\* Every connection has goroutines, a context and a socket of its own.
LEMMA OtherConnStep ==
  ASSUME IInv, NEW c \in Conns, NEW d \in Conns, c # d, ConnStep(d)
  PROVE  UNCHANGED Local(c)
  <1> USE DEF IInv, TypeOK, Local
  <1>1. CASE \E m \in MatchIDs : Upgrade(d, m)
    BY <1>1 DEF Upgrade, pumps
  <1>2. CASE Join(d) \/ RefuseJoin(d) \/ PumpsEnd(d)
    BY <1>2 DEF Join, RefuseJoin, PumpsEnd, pumps
  <1>3. CASE Leave(d)
    BY <1>3 DEF Leave, Forget
  <1>4. CASE Read(d) \/ Handle(d) \/ ReadFails(d)
    BY <1>4 DEF Read, Handle, ReadFails
  <1>5. CASE WriteNext(d) \/ WriterStops(d) \/ Written(d) \/ WriteFails(d)
    BY <1>5 DEF WriteNext, WriterStops, Written, WriteFails
  <1>6. CASE PeerStalls(d) \/ PeerResumes(d) \/ PeerGoes(d)
    BY <1>6 DEF PeerStalls, PeerResumes, PeerGoes, Peer, pumps
  <1> QED
    BY <1>1, <1>2, <1>3, <1>4, <1>5, <1>6
    DEF ConnStep, ServeWS, ReadPump, WritePump

\* What ServeWS does to its own connection.
LEMMA ServeTogether ==
  ASSUME IInv, NEW c \in Conns, Together(c),
         (\E m \in MatchIDs : Upgrade(c, m)) \/ ServeWS(c)
  PROVE  Together(c)' /\ Shrinks(c)
  <1> USE DEF IInv, TypeOK, Together, Shrinks, Ending
  <1>1. CASE \E m \in MatchIDs : Upgrade(c, m)
    BY <1>1 DEF Upgrade, pumps
  <1>2. CASE Join(c)
    BY <1>2 DEF Join
  <1>3. CASE RefuseJoin(c)
    BY <1>3 DEF RefuseJoin, pumps
  <1>4. CASE PumpsEnd(c)
    <2>1. /\ stage[c] = "serving" /\ stage'[c] = "closing"
          /\ reader[c] = "ended" /\ writer[c] = "ended"
          /\ UNCHANGED <<reader, writer, cancelled, socket>>
      BY <1>4 DEF PumpsEnd, pumps
    <2>2. Rank(c)' < Rank(c)
      BY <2>1 DEF Rank, ServeRank, ReadRank, WriteRank
    <2> QED
      BY <2>1, <2>2
  <1>5. CASE Leave(c)
    BY <1>5 DEF Leave, Forget
  <1> QED
    BY <1>1, <1>2, <1>3, <1>4, <1>5 DEF ServeWS

\* What the read pump does to its own connection.
LEMMA ReadTogether ==
  ASSUME IInv, NEW c \in Conns, Together(c), Read(c) \/ ReadPump(c)
  PROVE  Together(c)' /\ Shrinks(c)
  <1>1. stage[c] = "serving" /\ UNCHANGED <<stage[c], writer[c]>>
    BY DEF IInv, InputsPrecedeLeave, Read, ReadPump, Handle, ReadFails
  <1>2. CASE Read(c)
    BY <1>1, <1>2 DEF IInv, TypeOK, Together, Shrinks, Ending, Read
  <1>3. CASE Handle(c)
    <2>1. /\ reader[c] = "handling" /\ reader'[c] = "reading"
          /\ UNCHANGED <<cancelled, socket>>
      BY <1>3 DEF IInv, TypeOK, Handle
    <2>2. Rank(c)' < Rank(c)
      BY <1>1, <2>1 DEF Rank, ServeRank, ReadRank, WriteRank
    <2> QED
      BY <1>1, <2>1, <2>2 DEF Together, Shrinks, Ending
  <1>4. CASE ReadFails(c)
    <2>1. /\ reader[c] = "reading" /\ reader'[c] = "ended"
          /\ cancelled'[c] = TRUE /\ socket'[c] = "gone"
      BY <1>4 DEF IInv, TypeOK, ReadFails
    <2>2. Rank(c)' < Rank(c)
      BY <1>1, <2>1 DEF Rank, ServeRank, ReadRank, WriteRank
    <2> QED
      BY <1>1, <2>1, <2>2 DEF Together, Shrinks, Ending
  <1> QED
    BY <1>2, <1>3, <1>4 DEF ReadPump

\* What the write pump does to its own connection.
LEMMA WriteTogether ==
  ASSUME IInv, NEW c \in Conns, Together(c), WritePump(c)
  PROVE  Together(c)' /\ Shrinks(c)
  <1>1. stage[c] = "serving" /\ UNCHANGED <<stage[c], reader[c]>>
    BY DEF IInv, TypeOK, Stages, Together, WritePump, WriteNext, WriterStops,
           Written, WriteFails
  <1>2. CASE Written(c)
    BY <1>1, <1>2 DEF IInv, TypeOK, Together, Shrinks, Ending, Written
  <1>3. CASE WriteNext(c)
    <2>1. /\ writer[c] = "select" /\ writer'[c] = "writing"
          /\ UNCHANGED <<cancelled, socket>>
      BY <1>3 DEF IInv, TypeOK, WriteNext
    <2>2. Rank(c)' < Rank(c)
      BY <1>1, <2>1 DEF Rank, ServeRank, ReadRank, WriteRank
    <2> QED
      BY <1>1, <2>1, <2>2 DEF Together, Shrinks, Ending
  <1>4. CASE WriterStops(c)
    <2>1. /\ writer[c] = "select" /\ writer'[c] = "ended" /\ cancelled[c]
          /\ UNCHANGED <<cancelled, socket>>
      BY <1>4 DEF IInv, TypeOK, WriterStops
    <2>2. Rank(c)' < Rank(c)
      BY <1>1, <2>1 DEF Rank, ServeRank, ReadRank, WriteRank
    <2> QED
      BY <1>1, <2>1, <2>2 DEF Together, Shrinks, Ending
  <1>5. CASE WriteFails(c)
    <2>1. /\ writer[c] = "writing" /\ writer'[c] = "ended"
          /\ cancelled'[c] = TRUE /\ socket'[c] = "gone"
      BY <1>5 DEF IInv, TypeOK, WriteFails
    <2>2. Rank(c)' < Rank(c)
      BY <1>1, <2>1 DEF Rank, ServeRank, ReadRank, WriteRank
    <2> QED
      BY <1>1, <2>1, <2>2 DEF Together, Shrinks, Ending
  <1> QED
    BY <1>2, <1>3, <1>4, <1>5 DEF WritePump

\* What the peer does to its own connection: it never brings a socket back.
LEMMA PeerTogether ==
  ASSUME IInv, NEW c \in Conns, Together(c),
         PeerStalls(c) \/ PeerResumes(c) \/ PeerGoes(c)
  PROVE  Together(c)' /\ Shrinks(c)
  <1>1. /\ UNCHANGED <<stage, reader, writer, cancelled>>
        /\ socket[c] # "gone"
    BY DEF PeerStalls, PeerResumes, PeerGoes, Peer, pumps
  <1> QED
    BY <1>1 DEF Together, Shrinks, Ending

LEMMA NextTogether ==
  ASSUME IInv, PumpsTogether, [Next]_vars
  PROVE  PumpsTogether' /\ \A c \in Conns : Shrinks(c)
  <1> SUFFICES ASSUME NEW c \in Conns
               PROVE  Together(c)' /\ Shrinks(c)
    BY DEF PumpsTogether
  <1>1. Together(c)
    BY DEF PumpsTogether
  <1>2. ASSUME UNCHANGED Local(c)
        PROVE  Together(c)' /\ Shrinks(c)
    BY <1>1, <1>2 DEF Local, Together, Shrinks
  <1>3. ASSUME NEW d \in Conns, ConnStep(d)
        PROVE  Together(c)' /\ Shrinks(c)
    BY <1>1, <1>2, <1>3, OtherConnStep, ServeTogether, ReadTogether,
       WriteTogether, PeerTogether DEF ConnStep
  <1>4. ASSUME NEW m \in MatchIDs,
               Tick(m) \/ \E roster \in SUBSET Players : StartMatch(m, roster)
        PROVE  UNCHANGED Local(c)
    BY <1>4 DEF Tick, StartMatch, Local, pumps
  <1>5. CASE UNCHANGED vars
    BY <1>2, <1>5 DEF vars, pumps, Local
  <1> QED
    BY <1>2, <1>3, <1>4, <1>5 DEF Next, ConnStep

LEMMA TogetherInvariance == Spec => []PumpsTogether
  <1>1. Init => PumpsTogether
    BY DEF Init, PumpsTogether, Together
  <1> QED
    BY <1>1, NextTogether, Invariance, PTL DEF Spec

\* The pumps of a dead connection never wait for each other: one that ends
\* brings the other down, and so somebody can always go on who is not the peer.
THEOREM PumpsDoNotDeadlock == Spec => []NoTeardownDeadlock
  <1>1. IInv /\ PumpsTogether => NoTeardownDeadlock
    BY DEF IInv, TypeOK, PumpsTogether, Together, NoTeardownDeadlock, Ending,
           HasStep
  <1> QED
    BY <1>1, Invariance, TogetherInvariance, PTL

\* Once the socket is gone, every step of these goroutines finishes the
\* connection or reduces its rank, and nobody else, the ticks that go on
\* filling its buffer included, adds to it.  With PumpsDoNotDeadlock it is the
\* argument behind GoneIsLeft, for any number of connections.
THEOREM TeardownsShrink == Spec => TeardownShrinks
  <1>1. IInv /\ PumpsTogether /\ [Next]_vars =>
          [\A c \in Conns : Shrinks(c)]_vars
    BY NextTogether
  <1> QED
    BY <1>1, Invariance, TogetherInvariance, PTL DEF Spec, TeardownShrinks

=============================================================================
