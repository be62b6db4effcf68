-------------------------- MODULE EngineStepProofs --------------------------
(***************************************************************************)
(* What single steps of Engine may do to timers and zone, and under which  *)
(* conditions on joins and leaves the two comments of engine.go hold that  *)
(* the code breaks.                                                        *)
(***************************************************************************)
EXTENDS EngineProofs

-----------------------------------------------------------------------------
(* The players of the match and the open connections. *)

\* The players present are those with an open connection; all are on the
\* roster, because the others were refused.
Present ==
  /\ \A conn \in open : ID(conn) \in Roster
  /\ DOMAIN players = {ID(conn) : conn \in open}

\* Leave deletes by player ID; that is right for the last connection of a
\* player.
LEMMA LeavePresent ==
  ASSUME Present, NEW conn \in Conns, Leave(conn),
         \A other \in open' : ID(other) # ID(conn)
  PROVE  Present'
  <1>1. /\ DOMAIN players' = DOMAIN players \ {ID(conn)}
        /\ open' = open \ {conn} /\ conn \in open
    BY DEF Leave, Delete, Restrict
  <1>2. {ID(c) : c \in open'} = {ID(c) : c \in open} \ {ID(conn)}
    BY <1>1
  <1> QED
    BY <1>1, <1>2 DEF Present

\* Join adds the player, unless it is there already.
LEMMA JoinPresent ==
  ASSUME Present, NEW conn \in Conns, Join(conn)
  PROVE  Present'
  <1>1. /\ DOMAIN players' = DOMAIN players \cup {ID(conn)}
        /\ open' = open \cup {conn} /\ ID(conn) \in Roster
    BY DEF Join, Put
  <1> QED
    BY <1>1 DEF Present

\* Nothing else changes who is in the match.
LEMMA OtherMembers ==
  ASSUME IInv, [Next]_vars,
         ~ \E conn \in Conns : Join(conn) \/ Leave(conn)
  PROVE  DOMAIN players' = DOMAIN players /\ open' = open
  <1>1. CASE AdvanceTime \/ \E conn \in Conns : HandleInput(conn)
    BY <1>1, SameHealth DEF AdvanceTime, HandleInput
  <1>2. CASE TickLive
    BY <1>2, LiveTickSquad DEF TickLive
  <1>3. CASE TickLiveEmpty \/ TickEnded
    BY <1>3 DEF TickLiveEmpty, TickEnded, ResetMatch, ReviveAll, AfterRespawns
  <1>4. CASE UNCHANGED <<players, open>>
    BY <1>4
  <1> QED
    BY <1>1, <1>2, <1>3, <1>4 DEF Next, Tick, TickWaiting, RefuseJoin, vars

\* The comment of PlayerCount holds as long as no connection leaves before
\* another one of its player: superseded connections are the only way to lose
\* a connected player.
THEOREM CountIsConnectedIfFinal ==
  Spec /\ LeavesAreFinal => []PlayerCountIsConnected
  <1> DEFINE Final ==
        \A conn \in open \ open' : \A other \in open' : ID(other) # ID(conn)
  <1>1. Init => Present
    BY EmptyMapType DEF Init, Present
  <1>2. IInv /\ Present /\ [Next]_vars /\ [Final]_vars => Present'
    <2> SUFFICES ASSUME IInv, Present, [Next]_vars, [Final]_vars
                 PROVE  Present'
      OBVIOUS
    <2>1. ASSUME NEW conn \in Conns, Leave(conn)
          PROVE  Present'
      <3>1. conn \in open \ open'
        BY <2>1 DEF Leave
      <3>2. \A other \in open' : ID(other) # ID(conn)
        BY <3>1 DEF vars
      <3> QED
        BY <2>1, <3>2, LeavePresent
    <2>2. ASSUME NEW conn \in Conns, Join(conn)
          PROVE  Present'
      BY <2>2, JoinPresent
    <2>3. CASE ~ \E conn \in Conns : Join(conn) \/ Leave(conn)
      BY <2>3, OtherMembers DEF Present
    <2> QED
      BY <2>1, <2>2, <2>3
  <1>3. Present => PlayerCountIsConnected
    BY DEF Present, PlayerCountIsConnected
  <1> QED
    BY <1>1, <1>2, <1>3, Invariance, PTL DEF Spec, LeavesAreFinal

-----------------------------------------------------------------------------
(* Respawn timers. *)

\* Only the dead have timers.
TimersOfDead == \A id \in DOMAIN respawnAt : ~players[id].alive

LEMMA NextTimersOfDead ==
  ASSUME IInv, TimersOfDead, [Next]_vars,
         [\A conn \in open' \ open : ID(conn) \notin DOMAIN respawnAt]_vars
  PROVE  TimersOfDead'
  <1>1. ASSUME NEW conn \in Conns, Join(conn)
        PROVE  TimersOfDead'
    <2>1. conn \in open' \ open /\ UNCHANGED respawnAt
      BY <1>1 DEF Join
    <2>2. ID(conn) \notin DOMAIN respawnAt
      BY <2>1 DEF vars
    <2>3. \A id \in DOMAIN players \ {ID(conn)} : players'[id] = players[id]
      BY <1>1 DEF Join, Put
    <2> QED
      BY <2>1, <2>2, <2>3 DEF TimersOfDead, IInv, RespawnsNameMembers
  <1>2. ASSUME NEW conn \in Conns, Leave(conn)
        PROVE  TimersOfDead'
    BY <1>2
    DEF Leave, Delete, Restrict, TimersOfDead, IInv, RespawnsNameMembers
  <1>3. CASE AdvanceTime \/ \E conn \in Conns : HandleInput(conn)
    <2>1. DOMAIN respawnAt' = DOMAIN respawnAt
      BY <1>3 DEF AdvanceTime, HandleInput
    <2> QED
      BY <1>3, <2>1, SameHealth DEF TimersOfDead, IInv, RespawnsNameMembers
  <1>4. CASE TickLive
    BY <1>4, LiveTickSquad DEF TimersOfDead
  <1>5. CASE TickLiveEmpty \/ TickEnded
    BY <1>5, EmptyMapType
    DEF TickLiveEmpty, TickEnded, ResetMatch, ResetWorld, TimersOfDead
  <1>6. CASE UNCHANGED <<players, respawnAt>>
    BY <1>6 DEF TimersOfDead
  <1> QED
    BY <1>1, <1>2, <1>3, <1>4, <1>5, <1>6
    DEF Next, Tick, TickWaiting, RefuseJoin, vars

\* The comment of processRespawns holds as long as nobody joins with a timer
\* running: a rejoin of the dead is the only way to be healed in mid-fight.
THEOREM OnlyTheDeadRespawn ==
  Spec /\ JoinsAreFresh => RespawnOnlyRevivesDead
  <1> DEFINE Fresh ==
        \A conn \in open' \ open : ID(conn) \notin DOMAIN respawnAt
      Healed == \A id \in DOMAIN players \cap DOMAIN players' :
        players'[id].hp > players[id].hp
          => \/ id \in DOMAIN respawnAt /\ respawnAt[id] = 0
             \/ phase = "ended" /\ phase' = "waiting"
             \/ \E conn \in open' \ open : ID(conn) = id
      Unhealed == \A id \in DOMAIN players \cap DOMAIN players' :
        phase = "live" /\ open' = open /\ players[id].alive
          => players'[id].hp <= players[id].hp
  <1>1. Init => TimersOfDead
    BY EmptyMapType DEF Init, TimersOfDead
  <1>2. IInv /\ TimersOfDead /\ [Next]_vars /\ [Fresh]_vars => TimersOfDead'
    BY NextTimersOfDead
  <1>3. IInv /\ IInv' /\ TimersOfDead /\ [Healed]_vars => [Unhealed]_vars
    <2> SUFFICES ASSUME IInv, IInv', TimersOfDead, Healed,
                        NEW id \in DOMAIN players \cap DOMAIN players',
                        phase = "live", open' = open, players[id].alive
                 PROVE  players'[id].hp <= players[id].hp
      OBVIOUS
    <2>1. players[id].hp \in Int /\ players'[id].hp \in Int
      BY CombatAssumption DEF IInv, TypeOK, IsMap, Player
    <2>2. ~(players'[id].hp > players[id].hp)
      BY DEF TimersOfDead
    <2> QED
      BY <2>1, <2>2
  <1> QED
    BY <1>1, <1>2, <1>3, Invariance, NobodyRespawnsEarly, PTL
    DEF Spec, JoinsAreFresh, NoEarlyRespawn, RespawnOnlyRevivesDead

-----------------------------------------------------------------------------
(* Delays and the zone. *)

\* No delay starts over while somebody waits for it.
DelaysRunDown == [][
  /\ phase = "waiting" /\ phase' = "waiting" /\ waitStarted # NoTime
       => waitStarted' >= waitStarted
  /\ phase = "ended" /\ phase' = "ended" => endedAt' >= endedAt
  /\ \A id \in DOMAIN players \cap DOMAIN players' :
       ~players[id].alive /\ ~players'[id].alive
         => respawnAt'[id] <= respawnAt[id]]_vars

\* An instant gets older, up to the delay it is compared with.
LEMMA ElapseGrows ==
  ASSUME NEW limit \in Nat, NEW time \in 0..limit
  PROVE  Elapse(time, limit) >= time
  BY DEF Elapse, NoTime, Lesser

\* The countdown is not restarted by those who join or leave, the result is not
\* shown anew, and whoever is dead does not get more time to wait by dying in
\* the zone or by the hits of others: with the fairness of ticks and clock it
\* is the argument behind MatchStarts, MatchReopens and DeadComeBack.
THEOREM DelaysAreKept == Spec => DelaysRunDown
  <1> DEFINE Waits == phase = "waiting" /\ phase' = "waiting"
                        /\ waitStarted # NoTime => waitStarted' >= waitStarted
             Shows == phase = "ended" /\ phase' = "ended"
                        => endedAt' >= endedAt
             Heals == \A id \in DOMAIN players \cap DOMAIN players' :
                        ~players[id].alive /\ ~players'[id].alive
                          => respawnAt'[id] <= respawnAt[id]
  <1>1. ASSUME IInv, Next PROVE Waits
    <2>1. waitStarted = NoTime \/ waitStarted \in 0..MatchStartDelay
      BY <1>1 DEF IInv, TypeOK
    <2>2. CASE AdvanceTime
      BY <2>1, <2>2, ElapseGrows, DelayAssumption DEF AdvanceTime
    <2>3. waitStarted # NoTime => waitStarted >= waitStarted
      BY <2>1, DelayAssumption
    <2> QED
      BY <1>1, <2>2, <2>3
      DEF Next, Tick, TickWaiting, TickLive, TickLiveEmpty, TickEnded, Join,
          RefuseJoin, Leave, HandleInput, vars
  <1>2. ASSUME IInv, Next PROVE Shows
    <2>1. phase = "ended" => endedAt \in 0..ResetDelay
      BY <1>2 DEF IInv, TypeOK, WinnerStands
    <2>2. CASE AdvanceTime
      BY <2>1, <2>2, ElapseGrows, DelayAssumption DEF AdvanceTime
    <2>3. phase = "ended" => endedAt >= endedAt
      BY <2>1, DelayAssumption
    <2> QED
      BY <1>2, <2>2, <2>3
      DEF Next, Tick, TickWaiting, TickLive, TickLiveEmpty, TickEnded,
          ResetMatch, Reopen, Join, RefuseJoin, Leave, HandleInput, vars
  <1>3. ASSUME IInv, Next,
               NEW id \in DOMAIN players \cap DOMAIN players',
               ~players[id].alive, ~players'[id].alive
        PROVE  respawnAt'[id] <= respawnAt[id]
    <2>1. id \in DOMAIN respawnAt /\ respawnAt[id] \in Int
                                  /\ respawnAt[id] >= 0
      BY <1>3, DelayAssumption DEF IInv, TypeOK, IsMap, DeadAreScheduled
    <2>2. CASE AdvanceTime
      BY <2>1, <2>2 DEF AdvanceTime, Greater
    <2>3. CASE TickLive
      BY <1>3, <2>1, <2>3, LiveTickSquad
    <2>4. ASSUME NEW conn \in Conns, Join(conn)
          PROVE  UNCHANGED respawnAt
      BY <2>4 DEF Join
    <2>5. ASSUME NEW conn \in Conns, Leave(conn)
          PROVE  respawnAt'[id] <= respawnAt[id]
      BY <1>3, <2>1, <2>5 DEF Leave, Delete, Restrict
    <2>6. CASE TickLiveEmpty
      BY <1>3, <2>6 DEF TickLiveEmpty
    <2>7. CASE TickEnded
      <3>1. PICK spawn \in [DOMAIN players -> Rings] :
              players' = AfterRespawns(players, spawn)
        BY <2>7 DEF TickEnded, ResetMatch, ReviveAll
      <3>2. Squad(players)
        BY <1>3 DEF IInv, TypeOK, AliveMeansHealth, Squad
      <3> QED
        BY <1>3, <3>1, <3>2, AfterRespawnsSquad
    <2>8. CASE UNCHANGED respawnAt
      BY <2>1, <2>8
    <2>9. /\ \A conn \in Conns :
               RefuseJoin(conn) \/ HandleInput(conn) => UNCHANGED respawnAt
          /\ TickWaiting => UNCHANGED respawnAt
      BY DEF RefuseJoin, HandleInput, TickWaiting, vars
    <2> HIDE DEF Waits, Shows, Heals
    <2> QED
      BY <1>3, <2>2, <2>3, <2>4, <2>5, <2>6, <2>7, <2>8, <2>9 DEF Next, Tick
  <1>4. IInv /\ [Next]_vars => [Waits /\ Shows /\ Heals]_vars
    BY <1>1, <1>2, <1>3
  <1> QED
    BY <1>4, Invariance, PTL DEF Spec, DelaysRunDown

\* The safe area of a running match only gets smaller; a reset restores it.
ZoneOnlyShrinks ==
  [][zone'.radius > zone.radius
       => phase # "waiting" /\ phase' = "waiting"]_vars

\* Whatever happens to players and timers, nobody is given room back within a
\* match.
THEOREM ZoneShrinks == Spec => ZoneOnlyShrinks
  <1>1. ASSUME IInv, Next, zone'.radius > zone.radius
        PROVE  phase # "waiting" /\ phase' = "waiting"
    <2>1. zone.radius \in Int /\ zone \in Zone /\ zone.radius >= ZoneMinRadius
      BY <1>1, ZoneAssumption DEF IInv, TypeOK, Zone
    <2>2. ~(zone.radius > zone.radius)
      BY <2>1
    <2>3. CASE TickLive
      <3>1. Shrink(zone).radius <= zone.radius
        BY <2>1, ZoneAssumption DEF Shrink, Zone, Greater
      <3> QED
        BY <1>1, <2>1, <2>3, <3>1, ShrinkType, ZoneAssumption
        DEF TickLive, Zone
    <2>4. CASE AdvanceTime
      BY <1>1, <2>1, <2>2, <2>4 DEF AdvanceTime, Zone
    <2>5. CASE TickLiveEmpty \/ TickEnded
      BY <2>5 DEF TickLiveEmpty, TickEnded, ResetMatch, Reopen
    <2>6. CASE UNCHANGED zone
      BY <1>1, <2>2, <2>6
    <2> QED
      BY <1>1, <2>3, <2>4, <2>5, <2>6
      DEF Next, Tick, TickWaiting, Join, RefuseJoin, Leave, HandleInput, world,
          vars
  <1>2. IInv /\ [Next]_vars =>
          [zone'.radius > zone.radius
             => phase # "waiting" /\ phase' = "waiting"]_vars
    BY <1>1
  <1> QED
    BY <1>2, Invariance, PTL DEF Spec, ZoneOnlyShrinks

=============================================================================
