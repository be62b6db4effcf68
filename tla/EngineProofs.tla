---------------------------- MODULE EngineProofs ----------------------------
(***************************************************************************)
(* Proofs about Engine, for any roster, any number of connections and any  *)
(* values of the game's constants that its assumptions allow.              *)
(***************************************************************************)
EXTENDS Engine, FiniteSetTheorems, TLAPS

\* The players of one stage of a tick: well typed and consistent.
Squad(ps) ==
  /\ IsMap(ps, PlayerIDs, Player)
  /\ \A id \in DOMAIN ps : Consistent(ps[id])

-----------------------------------------------------------------------------
(* Maps. *)

\* Setting one key of a map, as Join and HandleInput do, keeps its type.
LEMMA PutType ==
  ASSUME NEW map, NEW keys, NEW values, IsMap(map, keys, values),
         NEW key \in keys, NEW value \in values
  PROVE  /\ IsMap(Put(map, key, value), keys, values)
         /\ DOMAIN Put(map, key, value) = DOMAIN map \cup {key}
         /\ Put(map, key, value)[key] = value
         /\ \A x \in DOMAIN map \ {key} : Put(map, key, value)[x] = map[x]
  BY DEF IsMap, Put

\* So does keeping only some keys of it.
LEMMA RestrictType ==
  ASSUME NEW map, NEW keys, NEW values, IsMap(map, keys, values),
         NEW S \in SUBSET DOMAIN map
  PROVE  /\ IsMap(Restrict(map, S), keys, values)
         /\ DOMAIN Restrict(map, S) = S
         /\ \A x \in S : Restrict(map, S)[x] = map[x]
  BY DEF IsMap, Restrict

\* And deleting one.
LEMMA DeleteType ==
  ASSUME NEW map, NEW keys, NEW values, IsMap(map, keys, values), NEW key
  PROVE  /\ IsMap(Delete(map, key), keys, values)
         /\ DOMAIN Delete(map, key) = DOMAIN map \ {key}
         /\ \A x \in DOMAIN map \ {key} : Delete(map, key)[x] = map[x]
  BY RestrictType DEF Delete

-----------------------------------------------------------------------------
(* The rules of package world. *)

\* A new player, in the match or back in it, is alive at full health.
LEMMA NewPlayerType ==
  ASSUME NEW ring \in Rings
  PROVE  /\ NewPlayer(ring) \in Player
         /\ Consistent(NewPlayer(ring))
         /\ NewPlayer(ring).alive
         /\ NewPlayer(ring).hp = PlayerStartHP
         /\ NewPlayer(ring).armour = 0
  BY CombatAssumption DEF NewPlayer, Player, Consistent

\* So is one brought back by Player.Respawn.
LEMMA RespawnType ==
  ASSUME NEW player \in Player, NEW ring \in Rings
  PROVE  /\ Respawn(player, ring) \in Player
         /\ Consistent(Respawn(player, ring))
         /\ Respawn(player, ring).alive
         /\ Respawn(player, ring).hp = PlayerStartHP
         /\ Respawn(player, ring).armour = 0
  BY CombatAssumption DEF Respawn, Player, Consistent

\* Fields of the right type make a player.
LEMMA PlayerType ==
  ASSUME NEW hp \in 0..PlayerStartHP, NEW armour \in 0..PlayerMaxArmour,
         NEW alive \in BOOLEAN, NEW lastShot \in 0..FireRate,
         NEW ring \in Rings
  PROVE  [hp |-> hp, armour |-> armour, alive |-> alive,
          lastShot |-> lastShot, ring |-> ring] \in Player
  BY DEF Player

\* Damage of any size leaves health and armour in range and in step with the
\* Alive flag, and never revives.
LEMMA ApplyDamageType ==
  ASSUME NEW player \in Player, Consistent(player), NEW damage \in Nat
  PROVE  /\ ApplyDamage(player, damage) \in Player
         /\ Consistent(ApplyDamage(player, damage))
         /\ ApplyDamage(player, damage).alive => player.alive
         /\ ApplyDamage(player, damage).hp <= player.hp
  <1> DEFINE absorbed == Lesser(damage, player.armour)
             hp == Greater(0, player.hp - (damage - absorbed))
             alive == player.alive /\ hp # 0
  <1>1. ApplyDamage(player, damage) =
          [hp |-> hp, armour |-> player.armour - absorbed, alive |-> alive,
           lastShot |-> player.lastShot, ring |-> player.ring]
    BY DEF ApplyDamage
  <1>2. /\ player.hp \in 0..PlayerStartHP
        /\ player.armour \in 0..PlayerMaxArmour
        /\ player.alive \in BOOLEAN
        /\ player.lastShot \in 0..FireRate
        /\ player.ring \in Rings
        /\ player.alive <=> player.hp > 0
        /\ ~player.alive => player.armour = 0
    BY DEF Player, Consistent
  <1>3. /\ hp \in 0..PlayerStartHP
        /\ hp <= player.hp
        /\ player.armour - absorbed \in 0..PlayerMaxArmour
        /\ hp = 0 => player.armour - absorbed = 0 \/ player.hp = 0
    BY <1>2, CombatAssumption DEF Lesser, Greater
  <1>4. ~alive => player.armour - absorbed = 0
    BY <1>2, <1>3, CombatAssumption DEF Lesser
  <1>5. alive \in BOOLEAN /\ (alive <=> hp > 0) /\ (alive => player.alive)
    BY <1>2, <1>3, CombatAssumption
  <1> HIDE DEF absorbed, hp, alive
  <1>6. ApplyDamage(player, damage) \in Player
    <2>1. /\ hp \in 0..PlayerStartHP
          /\ player.armour - absorbed \in 0..PlayerMaxArmour
          /\ alive \in BOOLEAN
          /\ player.lastShot \in 0..FireRate
          /\ player.ring \in Rings
      BY <1>2, <1>3, <1>5
    <2> QED
      BY <1>1, <2>1, PlayerType
  <1>7. /\ ApplyDamage(player, damage).hp = hp
        /\ ApplyDamage(player, damage).armour = player.armour - absorbed
        /\ ApplyDamage(player, damage).alive = alive
    BY <1>1
  <1> QED
    BY <1>3, <1>4, <1>5, <1>6, <1>7 DEF Consistent

\* No damage, no change.
LEMMA ApplyNoDamage ==
  ASSUME NEW player \in Player, Consistent(player)
  PROVE  ApplyDamage(player, 0) = player
  <1>1. /\ player.hp \in 0..PlayerStartHP
        /\ player.armour \in 0..PlayerMaxArmour
        /\ player.alive \in BOOLEAN
        /\ player.alive <=> player.hp > 0
    BY DEF Player, Consistent
  <1>2. /\ Lesser(0, player.armour) = 0
        /\ Greater(0, player.hp - (0 - 0)) = player.hp
    BY <1>1, CombatAssumption DEF Lesser, Greater
  <1>3. (player.alive /\ player.hp # 0) = player.alive
    BY <1>1, CombatAssumption
  <1>4. player.armour - 0 = player.armour
    BY <1>1, CombatAssumption
  <1> QED
    BY <1>2, <1>3, <1>4 DEF ApplyDamage, Player

\* One hit after another is one hit of their sum: why AfterHits may add up the
\* damage that checkBulletCollisions applies bullet by bullet.
THEOREM DamageAdds ==
  ASSUME NEW player \in Player, NEW a \in Nat, NEW b \in Nat
  PROVE  ApplyDamage(ApplyDamage(player, a), b) = ApplyDamage(player, a + b)
  <1> DEFINE armour == player.armour
             arm1 == armour - Lesser(a, armour)
             hp1 == Greater(0, player.hp - (a - Lesser(a, armour)))
             arm2 == arm1 - Lesser(b, arm1)
             hp2 == Greater(0, hp1 - (b - Lesser(b, arm1)))
             armSum == armour - Lesser(a + b, armour)
             hpSum == Greater(0, player.hp - ((a + b) - Lesser(a + b, armour)))
             alive1 == player.alive /\ hp1 # 0
  <1>1. player.hp \in Nat /\ armour \in Nat /\ player.alive \in BOOLEAN
    BY CombatAssumption DEF Player
  <1>2. arm2 = armSum /\ hp2 = hpSum
    BY <1>1 DEF Lesser, Greater
  <1>3. hp1 = 0 => hp2 = 0
    BY <1>1 DEF Lesser, Greater
  <1>4. (alive1 /\ hp2 # 0) = (player.alive /\ hpSum # 0)
    BY <1>2, <1>3
  <1>5. ApplyDamage(player, a) =
          [hp |-> hp1, armour |-> arm1, alive |-> alive1,
           lastShot |-> player.lastShot, ring |-> player.ring]
    BY DEF ApplyDamage
  <1>6. ApplyDamage(player, a + b) =
          [hp |-> hpSum, armour |-> armSum,
           alive |-> player.alive /\ hpSum # 0,
           lastShot |-> player.lastShot, ring |-> player.ring]
    BY DEF ApplyDamage
  <1> HIDE DEF hp1, arm1, alive1
  <1>7. ApplyDamage(ApplyDamage(player, a), b) =
          [hp |-> hp2, armour |-> arm2, alive |-> alive1 /\ hp2 # 0,
           lastShot |-> player.lastShot, ring |-> player.ring]
    BY <1>5 DEF ApplyDamage
  <1> QED
    BY <1>2, <1>4, <1>6, <1>7

\* One pickup after others is one more of them: why AfterPickups may add up
\* what checkItemPickups applies item by item.
THEOREM PickupsAdd ==
  ASSUME NEW player \in Player, NEW count \in Nat
  PROVE  ApplyPickups(ApplyPickups(player, count), 1) =
           ApplyPickups(player, count + 1)
  <1> DEFINE gain == count * ArmourPickupAmount
             arm1 == Lesser(player.armour + gain, PlayerMaxArmour)
  <1>1. player.armour \in Nat /\ gain \in Nat /\ ArmourPickupAmount \in Nat
    BY CombatAssumption DEF Player
  <1>2. /\ (count + 1) * ArmourPickupAmount = gain + ArmourPickupAmount
        /\ 1 * ArmourPickupAmount = ArmourPickupAmount
    BY CombatAssumption
  <1> HIDE DEF gain
  <1>3. Lesser(arm1 + ArmourPickupAmount, PlayerMaxArmour) =
          Lesser(player.armour + (gain + ArmourPickupAmount), PlayerMaxArmour)
    BY <1>1, CombatAssumption DEF Lesser
  <1>4. \A p \in Player : \A n : ApplyPickups(p, n) =
          [hp |-> p.hp, alive |-> p.alive, lastShot |-> p.lastShot,
           armour |-> Lesser(p.armour + n * ArmourPickupAmount,
                             PlayerMaxArmour),
           ring |-> p.ring]
    BY DEF ApplyPickups, Player
  <1>5. ApplyPickups(player, count) =
          [hp |-> player.hp, alive |-> player.alive,
           lastShot |-> player.lastShot, armour |-> arm1,
           ring |-> player.ring]
    BY <1>4 DEF gain
  <1>6. ApplyPickups(player, count) \in Player
    <2>1. arm1 \in 0..PlayerMaxArmour
      BY <1>1, CombatAssumption DEF Lesser
    <2> QED
      BY <1>5, <2>1 DEF Player
  <1> QED
    BY <1>2, <1>3, <1>4, <1>5, <1>6

\* Pickups keep armour within its maximum and touch neither health nor life.
LEMMA ApplyPickupsType ==
  ASSUME NEW player \in Player, Consistent(player), NEW count \in Nat,
         count # 0 => player.alive
  PROVE  /\ ApplyPickups(player, count) \in Player
         /\ Consistent(ApplyPickups(player, count))
         /\ ApplyPickups(player, count).alive = player.alive
         /\ ApplyPickups(player, count).hp = player.hp
  <1> DEFINE sum == player.armour + count * ArmourPickupAmount
             armour == Lesser(sum, PlayerMaxArmour)
  <1>1. /\ player.armour \in 0..PlayerMaxArmour
        /\ player.alive \in BOOLEAN
        /\ player.hp \in 0..PlayerStartHP
        /\ player.lastShot \in 0..FireRate
        /\ player.ring \in Rings
        /\ player.alive <=> player.hp > 0
        /\ ~player.alive => player.armour = 0
    BY DEF Player, Consistent
  <1>2. count * ArmourPickupAmount \in Nat
    BY CombatAssumption
  <1>3. count = 0 => count * ArmourPickupAmount = 0
    BY CombatAssumption
  <1>4. ApplyPickups(player, count) =
          [hp |-> player.hp, armour |-> armour, alive |-> player.alive,
           lastShot |-> player.lastShot, ring |-> player.ring]
    BY DEF ApplyPickups, Player
  <1>5. /\ armour \in 0..PlayerMaxArmour
        /\ ~player.alive => armour = 0
    BY <1>1, <1>2, <1>3, CombatAssumption DEF Lesser
  <1> HIDE DEF armour
  <1> QED
    BY <1>1, <1>4, <1>5 DEF Player, Consistent

\* An input moves the player and may note a shot; health is not touched.
LEMMA InputType ==
  ASSUME NEW player \in Player, NEW ring \in Rings
  PROVE  \A after \in {Move(player, ring), RecordShot(Move(player, ring))} :
           /\ after \in Player
           /\ after.hp = player.hp
           /\ after.armour = player.armour
           /\ after.alive = player.alive
  <1>1. /\ Move(player, ring) \in Player
        /\ Move(player, ring).hp = player.hp
        /\ Move(player, ring).armour = player.armour
        /\ Move(player, ring).alive = player.alive
    BY DEF Move, Player
  <1>2. ASSUME NEW p \in Player
        PROVE  /\ RecordShot(p) \in Player
               /\ RecordShot(p).hp = p.hp
               /\ RecordShot(p).armour = p.armour
               /\ RecordShot(p).alive = p.alive
    BY CombatAssumption DEF RecordShot, Player
  <1> QED
    BY <1>1, <1>2

-----------------------------------------------------------------------------
(* The stages of a live tick. *)

\* How often somebody is chosen is a number, 0 for those who are not.
LEMMA TakenType ==
  ASSUME NEW choice, IsFiniteSet(DOMAIN choice), NEW id
  PROVE  /\ Taken(choice, id) \in Nat
         /\ Takers(choice, id) = {} <=> Taken(choice, id) = 0
  <1>1. IsFiniteSet(Takers(choice, id))
    BY FS_Subset DEF Takers
  <1> QED
    BY <1>1, FS_CardinalityType, FS_EmptySet DEF Taken

\* The bullets of a tick leave a squad a squad, and revive nobody.
LEMMA AfterHitsSquad ==
  ASSUME NEW ps, Squad(ps), NEW hits, IsFiniteSet(DOMAIN hits)
  PROVE  /\ Squad(AfterHits(ps, hits))
         /\ DOMAIN AfterHits(ps, hits) = DOMAIN ps
         /\ \A id \in DOMAIN ps :
              /\ AfterHits(ps, hits)[id].alive => ps[id].alive
              /\ AfterHits(ps, hits)[id].hp <= ps[id].hp
  <1>1. ASSUME NEW id \in DOMAIN ps
        PROVE  /\ ps[id] \in Player
               /\ Consistent(ps[id])
               /\ Taken(hits, id) * BulletDamage \in Nat
    BY <1>1, TakenType, CombatAssumption DEF Squad, IsMap
  <1>2. \A id \in DOMAIN ps :
          LET after == ApplyDamage(ps[id], Taken(hits, id) * BulletDamage)
          IN  /\ after \in Player
              /\ Consistent(after)
              /\ after.alive => ps[id].alive
              /\ after.hp <= ps[id].hp
    BY <1>1, ApplyDamageType
  <1> QED
    BY <1>2 DEF AfterHits, Squad, IsMap

\* The pickups leave it a squad, and life and death as they were.
LEMMA AfterPickupsSquad ==
  ASSUME NEW ps, Squad(ps), NEW picks, IsFiniteSet(DOMAIN picks),
         PossiblePickups(ps, picks)
  PROVE  /\ Squad(AfterPickups(ps, picks))
         /\ DOMAIN AfterPickups(ps, picks) = DOMAIN ps
         /\ \A id \in DOMAIN ps :
              /\ AfterPickups(ps, picks)[id].alive = ps[id].alive
              /\ AfterPickups(ps, picks)[id].hp = ps[id].hp
  <1>1. ASSUME NEW id \in DOMAIN ps
        PROVE  /\ ps[id] \in Player
               /\ Consistent(ps[id])
               /\ Taken(picks, id) \in Nat
               /\ Taken(picks, id) # 0 => ps[id].alive
    BY <1>1, TakenType DEF Squad, IsMap, PossiblePickups
  <1>2. \A id \in DOMAIN ps :
          LET after == ApplyPickups(ps[id], Taken(picks, id))
          IN  /\ after \in Player
              /\ Consistent(after)
              /\ after.alive = ps[id].alive
              /\ after.hp = ps[id].hp
    BY <1>1, ApplyPickupsType
  <1> QED
    BY <1>2 DEF AfterPickups, Squad, IsMap

\* The zone leaves it a squad, and revives nobody.
LEMMA AfterZoneSquad ==
  ASSUME NEW ps, Squad(ps), NEW z
  PROVE  /\ Squad(AfterZone(ps, z))
         /\ DOMAIN AfterZone(ps, z) = DOMAIN ps
         /\ \A id \in DOMAIN ps :
              /\ AfterZone(ps, z)[id].alive => ps[id].alive
              /\ AfterZone(ps, z)[id].hp <= ps[id].hp
  <1>1. \A id \in DOMAIN ps :
          ps[id] \in Player /\ Consistent(ps[id]) /\ ps[id].hp <= ps[id].hp
    BY CombatAssumption DEF Squad, IsMap, Player
  <1>2. \A id \in DOMAIN ps :
          LET after == ApplyDamage(ps[id], ZoneDamagePerTick)
          IN  /\ after \in Player
              /\ Consistent(after)
              /\ after.alive => ps[id].alive
              /\ after.hp <= ps[id].hp
    BY <1>1, ApplyDamageType, ZoneAssumption
  <1> QED
    BY <1>1, <1>2 DEF AfterZone, Squad, IsMap

\* The respawns leave it a squad and bring back exactly those they name.
LEMMA AfterRespawnsSquad ==
  ASSUME NEW ps, Squad(ps), NEW S, NEW spawn \in [S -> Rings]
  PROVE  /\ Squad(AfterRespawns(ps, spawn))
         /\ DOMAIN AfterRespawns(ps, spawn) = DOMAIN ps
         /\ \A id \in DOMAIN ps \cap S :
              /\ AfterRespawns(ps, spawn)[id].alive
              /\ AfterRespawns(ps, spawn)[id].hp = PlayerStartHP
              /\ AfterRespawns(ps, spawn)[id].armour = 0
         /\ \A id \in DOMAIN ps \ S : AfterRespawns(ps, spawn)[id] = ps[id]
  <1>1. \A id \in DOMAIN ps : ps[id] \in Player /\ Consistent(ps[id])
    BY DEF Squad, IsMap
  <1>2. \A id \in DOMAIN ps \cap S :
          LET after == Respawn(ps[id], spawn[id])
          IN  /\ after \in Player
              /\ Consistent(after)
              /\ after.alive
              /\ after.hp = PlayerStartHP
              /\ after.armour = 0
    BY <1>1, RespawnType
  <1> QED
    BY <1>1, <1>2 DEF AfterRespawns, Squad, IsMap

-----------------------------------------------------------------------------
(* The inductive invariant. *)

IInv ==
  /\ TypeOK
  /\ RespawnsNameMembers
  /\ DeadAreScheduled
  /\ AliveMeansHealth
  /\ ClientsServePlayers
  /\ FreshWhileWaiting
  /\ CountdownRunsForMembers
  /\ WinnerStands

\* The empty map is a map of any type.
LEMMA EmptyMapType ==
  ASSUME NEW keys, NEW values
  PROVE  IsMap(EmptyMap, keys, values) /\ DOMAIN EmptyMap = {}
  BY DEF IsMap, EmptyMap

\* A connection belongs to one of the players.
LEMMA ConnType ==
  ASSUME NEW conn \in Conns
  PROVE  ID(conn) \in PlayerIDs
  BY DEF Conns, ID

\* A new zone is a zone, of the initial radius.
LEMMA NewZoneType == NewZone \in Zone /\ NewZone.radius = ZoneInitialRadius
  BY ZoneAssumption DEF NewZone, Zone

\* A fresh engine satisfies the invariant.
LEMMA InitIInv == Init => IInv
  <1> SUFFICES ASSUME Init PROVE IInv
    OBVIOUS
  <1>1. TypeOK
    BY EmptyMapType, NewZoneType, RosterAssumption DEF Init, TypeOK
  <1>2. DOMAIN players = {} /\ DOMAIN clients = {} /\ DOMAIN respawnAt = {}
    BY EmptyMapType DEF Init
  <1>3. RespawnsNameMembers /\ DeadAreScheduled /\ AliveMeansHealth
    BY <1>2 DEF RespawnsNameMembers, DeadAreScheduled, AliveMeansHealth
  <1>4. ClientsServePlayers
    BY <1>2 DEF ClientsServePlayers
  <1>5. FreshWhileWaiting
    BY <1>2, NewZoneType DEF Init, FreshWhileWaiting
  <1>6. CountdownRunsForMembers /\ WinnerStands
    BY <1>2 DEF Init, CountdownRunsForMembers, WinnerStands
  <1> QED
    BY <1>1, <1>3, <1>4, <1>5, <1>6 DEF IInv

\* Join keeps the invariant, for a new player as for one who joins again.
LEMMA JoinIInv ==
  ASSUME IInv, NEW conn \in Conns, Join(conn)
  PROVE  IInv'
  <1> DEFINE id == ID(conn)
  <1>1. id \in PlayerIDs /\ id \in Roster
    BY ConnType DEF Join
  <1>2. PICK ring \in Rings : players' = Put(players, id, NewPlayer(ring))
    BY DEF Join
  <1>3. /\ IsMap(players', PlayerIDs, Player)
        /\ DOMAIN players' = DOMAIN players \cup {id}
        /\ players'[id] = NewPlayer(ring)
        /\ \A x \in DOMAIN players \ {id} : players'[x] = players[x]
    <2>1. IsMap(players, PlayerIDs, Player) /\ NewPlayer(ring) \in Player
      BY NewPlayerType DEF IInv, TypeOK
    <2> QED
      BY <1>1, <1>2, <2>1, PutType
  <1>4. /\ IsMap(clients', PlayerIDs, Conns)
        /\ DOMAIN clients' = DOMAIN clients \cup {id}
        /\ clients'[id] = conn
        /\ \A x \in DOMAIN clients \ {id} : clients'[x] = clients[x]
    <2>1. IsMap(clients, PlayerIDs, Conns) /\ conn \in Conns
      BY DEF IInv, TypeOK
    <2>2. clients' = Put(clients, id, conn)
      BY DEF Join
    <2> HIDE DEF id
    <2>3. LET map == Put(clients, id, conn)
          IN  /\ IsMap(map, PlayerIDs, Conns)
              /\ DOMAIN map = DOMAIN clients \cup {id}
              /\ map[id] = conn
              /\ \A x \in DOMAIN clients \ {id} : map[x] = clients[x]
      BY <1>1, <2>1 DEF IsMap, Put
    <2> QED
      BY <2>2, <2>3
  <1>5. waitStarted' \in {NoTime} \cup 0..MatchStartDelay
    BY DelayAssumption DEF Join, IInv, TypeOK
  <1>6. TypeOK'
    BY <1>3, <1>4, <1>5 DEF Join, IInv, TypeOK, world
  <1>7. RespawnsNameMembers'
    BY <1>3 DEF Join, IInv, RespawnsNameMembers
  <1>8. DeadAreScheduled'
    BY <1>3, NewPlayerType DEF Join, IInv, DeadAreScheduled
  <1>9. AliveMeansHealth'
    BY <1>3, NewPlayerType DEF IInv, AliveMeansHealth
  <1>10. ClientsServePlayers'
    BY <1>1, <1>3, <1>4 DEF Join, IInv, ClientsServePlayers
  <1>11. FreshWhileWaiting'
    BY <1>3, NewPlayerType DEF Join, IInv, FreshWhileWaiting, world
  <1>12. CountdownRunsForMembers'
    <2>1. phase = "waiting" /\ DOMAIN players # {} => waitStarted # NoTime
      BY DEF IInv, CountdownRunsForMembers
    <2>2. /\ phase' = phase
          /\ waitStarted' = IF phase = "waiting" /\ DOMAIN players = {}
                               /\ waitStarted = NoTime
                            THEN 0 ELSE waitStarted
      BY DEF Join, world
    <2> HIDE DEF id
    <2>3. phase = "waiting" => waitStarted' # NoTime
      BY <2>1, <2>2 DEF NoTime
    <2> QED
      BY <2>2, <2>3 DEF CountdownRunsForMembers
  <1>13. WinnerStands'
    BY <1>3, NewPlayerType DEF Join, IInv, WinnerStands
  <1> QED
    BY <1>6, <1>7, <1>8, <1>9, <1>10, <1>11, <1>12, <1>13 DEF IInv

\* Leave keeps the invariant, also when it takes out a superseding player.
LEMMA LeaveIInv ==
  ASSUME IInv, NEW conn \in Conns, Leave(conn)
  PROVE  IInv'
  <1> DEFINE id == ID(conn)
  <1>1. /\ IsMap(players', PlayerIDs, Player)
        /\ DOMAIN players' = DOMAIN players \ {id}
        /\ \A x \in DOMAIN players \ {id} : players'[x] = players[x]
    BY DeleteType DEF Leave, IInv, TypeOK
  <1>2. /\ IsMap(clients', PlayerIDs, Conns)
        /\ DOMAIN clients' = DOMAIN clients \ {id}
        /\ \A x \in DOMAIN clients \ {id} : clients'[x] = clients[x]
    BY DeleteType DEF Leave, IInv, TypeOK
  <1>3. /\ IsMap(respawnAt', PlayerIDs, 0..RespawnDelay)
        /\ DOMAIN respawnAt' = DOMAIN respawnAt \ {id}
        /\ \A x \in DOMAIN respawnAt \ {id} : respawnAt'[x] = respawnAt[x]
    BY DeleteType DEF Leave, IInv, TypeOK
  <1>4. TypeOK'
    BY <1>1, <1>2, <1>3 DEF Leave, IInv, TypeOK, world
  <1>5. RespawnsNameMembers'
    BY <1>1, <1>3 DEF IInv, RespawnsNameMembers
  <1>6. DeadAreScheduled'
    BY <1>1, <1>3 DEF IInv, DeadAreScheduled
  <1>7. AliveMeansHealth'
    BY <1>1 DEF IInv, AliveMeansHealth
  <1>8. ClientsServePlayers'
    BY <1>1, <1>2 DEF Leave, IInv, ClientsServePlayers
  <1>9. FreshWhileWaiting'
    <2>1. respawnAt = EmptyMap => respawnAt' = EmptyMap
      BY DEF Leave, Delete, Restrict, EmptyMap
    <2> QED
      BY <1>1, <2>1 DEF Leave, IInv, FreshWhileWaiting, world
  <1>10. CountdownRunsForMembers'
    BY <1>1 DEF Leave, IInv, CountdownRunsForMembers
  <1>11. WinnerStands'
    BY <1>1 DEF Leave, IInv, WinnerStands
  <1> QED
    BY <1>4, <1>5, <1>6, <1>7, <1>8, <1>9, <1>10, <1>11 DEF IInv

\* An input keeps the invariant, with and without a shot.
LEMMA HandleInputIInv ==
  ASSUME IInv, NEW conn \in Conns, HandleInput(conn)
  PROVE  IInv'
  <1> DEFINE id == ID(conn)
  <1>1. /\ id \in DOMAIN players
        /\ phase = "live"
        /\ UNCHANGED <<clients, items, zone, respawnAt, phase, waitStarted,
                       endedAt, winner, open>>
    BY DEF HandleInput
  <1>2. players[id] \in Player /\ id \in PlayerIDs
    BY <1>1 DEF IInv, TypeOK, IsMap
  <1>3. PICK player \in Player :
          /\ player.hp = players[id].hp
          /\ player.armour = players[id].armour
          /\ player.alive = players[id].alive
          /\ players' = [players EXCEPT ![id] = player]
    <2>1. PICK ring \in Rings :
            \/ players' = [players EXCEPT ![id] = Move(players[id], ring)]
            \/ players' =
                 [players EXCEPT ![id] = RecordShot(Move(players[id], ring))]
      BY DEF HandleInput
    <2> QED
      BY <1>2, <2>1, InputType
  <1>4. /\ IsMap(players', PlayerIDs, Player)
        /\ DOMAIN players' = DOMAIN players
        /\ \A x \in DOMAIN players :
             /\ players'[x].hp = players[x].hp
             /\ players'[x].armour = players[x].armour
             /\ players'[x].alive = players[x].alive
    BY <1>3 DEF IInv, TypeOK, IsMap
  <1>5. IsMap(bullets', BulletSlots, Bullet)
    <2>1. CASE UNCHANGED bullets
      BY <2>1 DEF IInv, TypeOK
    <2>2. CASE \E slot \in BulletSlots \ DOMAIN bullets :
                 bullets' = Put(bullets, slot,
                                [owner |-> id, life |-> BulletLife])
      <3>1. [owner |-> id, life |-> BulletLife] \in Bullet
        BY <1>2, CombatAssumption DEF Bullet
      <3>2. IsMap(bullets, BulletSlots, Bullet)
        BY DEF IInv, TypeOK
      <3>3. \A slot \in BulletSlots :
              IsMap(Put(bullets, slot, [owner |-> id, life |-> BulletLife]),
                    BulletSlots, Bullet)
        BY <3>1, <3>2, PutType
      <3> QED
        BY <2>2, <3>3
    <2> QED
      BY <2>1, <2>2 DEF HandleInput
  <1>6. TypeOK'
    BY <1>1, <1>4, <1>5 DEF IInv, TypeOK
  <1>7. AliveMeansHealth'
    BY <1>4 DEF IInv, AliveMeansHealth, Consistent
  <1>8. RespawnsNameMembers' /\ DeadAreScheduled'
    BY <1>1, <1>4 DEF IInv, RespawnsNameMembers, DeadAreScheduled
  <1>9. ClientsServePlayers'
    BY <1>1, <1>4 DEF IInv, ClientsServePlayers
  <1>10. FreshWhileWaiting' /\ CountdownRunsForMembers' /\ WinnerStands'
    BY <1>1, <1>4
    DEF IInv, FreshWhileWaiting, CountdownRunsForMembers, WinnerStands
  <1> QED
    BY <1>6, <1>7, <1>8, <1>9, <1>10 DEF IInv

\* A tick of a waiting match keeps the invariant.
LEMMA TickWaitingIInv == IInv /\ TickWaiting => IInv'
  <1> SUFFICES ASSUME IInv, TickWaiting PROVE IInv'
    OBVIOUS
  <1>1. TypeOK'
    BY DEF TickWaiting, IInv, TypeOK, world
  <1>2. RespawnsNameMembers' /\ DeadAreScheduled' /\ AliveMeansHealth'
    BY DEF TickWaiting, IInv, RespawnsNameMembers, DeadAreScheduled,
           AliveMeansHealth
  <1>3. ClientsServePlayers'
    BY DEF TickWaiting, IInv, ClientsServePlayers
  <1>4. FreshWhileWaiting' /\ CountdownRunsForMembers'
    BY DEF TickWaiting, FreshWhileWaiting, CountdownRunsForMembers
  <1>5. WinnerStands'
    BY DEF TickWaiting, IInv, WinnerStands
  <1> QED
    BY <1>1, <1>2, <1>3, <1>4, <1>5 DEF IInv

\* The time since an instant stays within the limit it is kept to.
LEMMA ElapseType ==
  ASSUME NEW limit \in Nat, NEW time \in {NoTime} \cup 0..limit
  PROVE  /\ Elapse(time, limit) \in {NoTime} \cup 0..limit
         /\ Elapse(time, limit) = NoTime <=> time = NoTime
  BY DEF Elapse, NoTime, Lesser

\* Time changes nothing but the timers.
LEMMA AdvanceTimeIInv == IInv /\ AdvanceTime => IInv'
  <1> SUFFICES ASSUME IInv, AdvanceTime PROVE IInv'
    OBVIOUS
  <1>1. /\ IsMap(players', PlayerIDs, Player)
        /\ DOMAIN players' = DOMAIN players
        /\ \A id \in DOMAIN players :
             /\ players'[id].hp = players[id].hp
             /\ players'[id].armour = players[id].armour
             /\ players'[id].alive = players[id].alive
    <2>1. ASSUME NEW p \in Player
          PROVE  LET after == [p EXCEPT !.lastShot = Elapse(@, FireRate)]
                 IN  /\ after \in Player
                     /\ after.hp = p.hp
                     /\ after.armour = p.armour
                     /\ after.alive = p.alive
      <3>1. p.lastShot \in 0..FireRate
        BY DEF Player
      <3>2. Elapse(p.lastShot, FireRate) \in 0..FireRate
        BY <3>1, CombatAssumption DEF Elapse, NoTime, Lesser
      <3> QED
        BY <3>2 DEF Player
    <2>2. \A id \in DOMAIN players : players[id] \in Player
      BY DEF IInv, TypeOK, IsMap
    <2>3. DOMAIN players \subseteq PlayerIDs
      BY DEF IInv, TypeOK, IsMap
    <2> QED
      BY <2>1, <2>2, <2>3 DEF AdvanceTime, IsMap
  <1>2. /\ IsMap(respawnAt', PlayerIDs, 0..RespawnDelay)
        /\ DOMAIN respawnAt' = DOMAIN respawnAt
    <2>1. \A n \in 0..RespawnDelay : Greater(0, n - 1) \in 0..RespawnDelay
      BY DelayAssumption DEF Greater
    <2>2. IsMap(respawnAt, PlayerIDs, 0..RespawnDelay)
      BY DEF IInv, TypeOK
    <2> QED
      BY <2>1, <2>2 DEF AdvanceTime, IsMap
  <1>3. zone' \in Zone /\ zone'.radius = zone.radius
    <2>1. zone \in Zone
      BY DEF IInv, TypeOK
    <2>2. Elapse(zone.lastShrink, ZoneShrinkInterval)
            \in 0..ZoneShrinkInterval
      BY <2>1, ZoneAssumption DEF Zone, Elapse, NoTime, Lesser
    <2>3. zone' = [zone EXCEPT !.lastShrink =
                     Elapse(zone.lastShrink, ZoneShrinkInterval)]
      BY DEF AdvanceTime
    <2> QED
      BY <2>1, <2>2, <2>3 DEF Zone
  <1>4. /\ waitStarted' \in {NoTime} \cup 0..MatchStartDelay
        /\ waitStarted' = NoTime <=> waitStarted = NoTime
        /\ endedAt' \in {NoTime} \cup 0..ResetDelay
        /\ endedAt' = NoTime <=> endedAt = NoTime
    BY ElapseType, DelayAssumption DEF AdvanceTime, IInv, TypeOK
  <1>5. UNCHANGED <<clients, bullets, items, phase, winner, open>>
    BY DEF AdvanceTime
  <1>6. TypeOK'
    BY <1>1, <1>2, <1>3, <1>4, <1>5 DEF IInv, TypeOK
  <1>7. RespawnsNameMembers' /\ DeadAreScheduled'
    BY <1>1, <1>2 DEF IInv, RespawnsNameMembers, DeadAreScheduled
  <1>8. AliveMeansHealth'
    BY <1>1 DEF IInv, AliveMeansHealth, Consistent
  <1>9. ClientsServePlayers'
    BY <1>1, <1>5 DEF IInv, ClientsServePlayers
  <1>10. FreshWhileWaiting'
    <2>1. respawnAt = EmptyMap => respawnAt' = EmptyMap
      BY DEF AdvanceTime, EmptyMap
    <2> QED
      BY <1>1, <1>3, <1>4, <1>5, <2>1 DEF IInv, FreshWhileWaiting
  <1>11. CountdownRunsForMembers'
    BY <1>1, <1>4, <1>5 DEF IInv, CountdownRunsForMembers
  <1>12. WinnerStands'
    BY <1>1, <1>4, <1>5 DEF IInv, WinnerStands
  <1> QED
    BY <1>6, <1>7, <1>8, <1>9, <1>10, <1>11, <1>12 DEF IInv

\* However the match stood, a reset leaves everybody alive at full health.
LEMMA ResetMatchIInv ==
  IInv /\ ResetMatch(players) /\ UNCHANGED <<clients, open>> => IInv'
  <1> SUFFICES ASSUME IInv, ResetMatch(players), UNCHANGED <<clients, open>>
               PROVE  IInv'
    OBVIOUS
  <1>1. PICK spawn \in [DOMAIN players -> Rings] :
          players' = AfterRespawns(players, spawn)
    BY DEF ResetMatch, ReviveAll
  <1>2. Squad(players)
    BY DEF IInv, TypeOK, AliveMeansHealth, Squad
  <1>3. /\ Squad(AfterRespawns(players, spawn))
        /\ DOMAIN AfterRespawns(players, spawn) = DOMAIN players
        /\ \A id \in DOMAIN players :
              /\ AfterRespawns(players, spawn)[id].alive
              /\ AfterRespawns(players, spawn)[id].hp = PlayerStartHP
              /\ AfterRespawns(players, spawn)[id].armour = 0
    BY <1>2, AfterRespawnsSquad
  <1>4. /\ IsMap(players', PlayerIDs, Player)
        /\ \A id \in DOMAIN players' : Consistent(players'[id])
        /\ DOMAIN players' = DOMAIN players
        /\ \A id \in DOMAIN players' :
              /\ players'[id].alive
              /\ players'[id].hp = PlayerStartHP
              /\ players'[id].armour = 0
    BY <1>1, <1>3 DEF Squad
  <1>5. TypeOK'
    <2>1. /\ IsMap(bullets', BulletSlots, Bullet)
          /\ IsMap(respawnAt', PlayerIDs, 0..RespawnDelay)
      BY EmptyMapType DEF ResetMatch, ResetWorld
    <2>2. /\ items' \subseteq ItemIDs
          /\ zone' \in Zone
          /\ phase' \in {"waiting", "live", "ended"}
          /\ waitStarted' \in {NoTime} \cup 0..MatchStartDelay
          /\ endedAt' \in {NoTime} \cup 0..ResetDelay
          /\ winner' \in PlayerIDs \cup {NoOne}
      BY NewZoneType, DelayAssumption DEF ResetMatch, ResetWorld, Reopen
    <2> QED
      BY <1>4, <2>1, <2>2 DEF IInv, TypeOK
  <1>6. RespawnsNameMembers' /\ DeadAreScheduled' /\ AliveMeansHealth'
    BY <1>4, EmptyMapType
    DEF ResetMatch, ResetWorld, RespawnsNameMembers, DeadAreScheduled,
        AliveMeansHealth
  <1>7. ClientsServePlayers'
    BY <1>4 DEF IInv, ClientsServePlayers
  <1>8. FreshWhileWaiting'
    BY <1>4, NewZoneType DEF ResetMatch, ResetWorld, FreshWhileWaiting
  <1>9. CountdownRunsForMembers'
    BY <1>4 DEF ResetMatch, Reopen, CountdownRunsForMembers, NoTime
  <1>10. WinnerStands'
    BY <1>4 DEF ResetMatch, ResetWorld, Reopen, WinnerStands
  <1> QED
    BY <1>5, <1>6, <1>7, <1>8, <1>9, <1>10 DEF IInv

\* The bullets a tick moves are bullets still.
LEMMA MovedType ==
  ASSUME IInv
  PROVE  IsMap(Moved, BulletSlots, Bullet) /\ IsFiniteSet(DOMAIN Moved)
  <1>1. IsMap(bullets, BulletSlots, Bullet)
    BY DEF IInv, TypeOK
  <1>2. \A bullet \in Bullet : bullet.life > 1 =>
          [bullet EXCEPT !.life = @ - 1] \in Bullet
    BY CombatAssumption DEF Bullet
  <1>3. IsMap(Moved, BulletSlots, Bullet)
    BY <1>1, <1>2 DEF Moved, IsMap
  <1>4. DOMAIN Moved \subseteq BulletSlots
    BY <1>3 DEF IsMap
  <1> QED
    BY <1>3, <1>4, SlotsAreFinite, FS_Subset

\* Shrinking keeps the radius between its floor and where it began.
LEMMA ShrinkType ==
  ASSUME NEW z \in Zone
  PROVE  Shrink(z) \in Zone
  BY ZoneAssumption DEF Zone, Shrink, Greater

\* What a live tick does to the players, whichever bullets hit and whoever
\* picks up what: the squad stays a squad, every dead player has a timer that
\* has not run out, and every timer belongs to a player of the match.
LEMMA LiveTickSquad ==
  ASSUME IInv, TickLive
  PROVE  /\ Squad(players')
         /\ DOMAIN players' = DOMAIN players
         /\ IsMap(respawnAt', PlayerIDs, 0..RespawnDelay)
         /\ DOMAIN respawnAt' \subseteq DOMAIN players
         /\ \A id \in DOMAIN players : ~players'[id].alive =>
              id \in DOMAIN respawnAt'
         /\ bullets' \in [DOMAIN bullets' -> Bullet]
         /\ DOMAIN bullets' \subseteq BulletSlots
         /\ items' \subseteq ItemIDs
         /\ CheckMatchEnd(players')
         /\ \A id \in DOMAIN players : players'[id].hp > players[id].hp =>
              id \in DOMAIN respawnAt /\ respawnAt[id] = 0
         /\ \A id \in DOMAIN players :
              /\ ~players[id].alive /\ ~players'[id].alive =>
                   respawnAt'[id] = respawnAt[id]
              /\ players'[id].alive /\ id \in DOMAIN respawnAt' =>
                   players[id].alive /\ id \in DOMAIN respawnAt
  <1> DEFINE Outcome(hits, picks, hit, hurt, timers, due) ==
          /\ hit = AfterHits(players, hits)
          /\ hurt = AfterZone(AfterPickups(hit, picks), Shrink(zone))
          /\ timers = Schedule(players, hurt)
          /\ due = Due(timers)
          /\ PossiblePickups(hit, picks)
          /\ bullets' = Restrict(Moved, Takers(hits, NoOne))
          /\ items' = Takers(picks, NoOne)
          /\ respawnAt' = Restrict(timers, DOMAIN timers \ due)
          /\ \E spawn \in [due -> Rings] :
               CheckMatchEnd(AfterRespawns(hurt, spawn))
  <1>0. PICK hits \in [DOMAIN Moved -> DOMAIN players \cup {NoOne}],
              picks \in [items -> DOMAIN players \cup {NoOne}] :
           \E hit, hurt, timers, due :
             Outcome(hits, picks, hit, hurt, timers, due)
    BY DEF TickLive
  <1>1. PICK hit, hurt, timers, due :
          Outcome(hits, picks, hit, hurt, timers, due)
    BY <1>0
  <1>2. PICK spawn \in [due -> Rings] :
          CheckMatchEnd(AfterRespawns(hurt, spawn))
    BY <1>1
  <1>3. players' = AfterRespawns(hurt, spawn)
    BY <1>2 DEF CheckMatchEnd, Contested, Winners
  <1>4. Squad(players) /\ DOMAIN players \subseteq PlayerIDs
    BY DEF IInv, TypeOK, AliveMeansHealth, Squad, IsMap
  <1>5. IsFiniteSet(DOMAIN hits) /\ IsFiniteSet(DOMAIN picks)
    <2>1. IsFiniteSet(items)
      BY SlotsAreFinite, FS_Subset DEF IInv, TypeOK
    <2> QED
      BY <2>1, MovedType
  <1>6. /\ Squad(hit)
        /\ DOMAIN hit = DOMAIN players
        /\ \A id \in DOMAIN players :
             hit[id].alive => players[id].alive
        /\ \A id \in DOMAIN players : hit[id].hp <= players[id].hp
    BY <1>1, <1>4, <1>5, AfterHitsSquad
  <1>7. /\ Squad(AfterPickups(hit, picks))
        /\ DOMAIN AfterPickups(hit, picks) = DOMAIN players
        /\ \A id \in DOMAIN players :
             /\ AfterPickups(hit, picks)[id].alive = hit[id].alive
             /\ AfterPickups(hit, picks)[id].hp = hit[id].hp
    BY <1>1, <1>5, <1>6, AfterPickupsSquad
  <1>8. /\ Squad(hurt)
        /\ DOMAIN hurt = DOMAIN players
        /\ \A id \in DOMAIN players :
             /\ hurt[id].alive => AfterPickups(hit, picks)[id].alive
             /\ hurt[id].hp <= AfterPickups(hit, picks)[id].hp
    BY <1>1, <1>7, AfterZoneSquad
  <1>9. /\ IsMap(timers, PlayerIDs, 0..RespawnDelay)
        /\ DOMAIN timers \subseteq DOMAIN players
        /\ \A id \in DOMAIN players : ~hurt[id].alive => id \in DOMAIN timers
    <2>1. /\ IsMap(respawnAt, PlayerIDs, 0..RespawnDelay)
          /\ DOMAIN respawnAt \subseteq DOMAIN players
          /\ \A id \in DOMAIN players :
               ~players[id].alive => id \in DOMAIN respawnAt
      BY DEF IInv, TypeOK, RespawnsNameMembers, DeadAreScheduled
    <2>2. RespawnDelay \in 0..RespawnDelay
      BY DelayAssumption
    <2> QED
      BY <1>1, <1>4, <2>1, <2>2 DEF Schedule, Killed, IsMap
  <1>10. due \subseteq DOMAIN timers
    BY <1>1 DEF Due
  <1>11. /\ Squad(players')
         /\ DOMAIN players' = DOMAIN players
         /\ \A id \in DOMAIN players \cap due : players'[id].alive
         /\ \A id \in DOMAIN players \ due : players'[id] = hurt[id]
    BY <1>3, <1>8, AfterRespawnsSquad
  <1>12. /\ IsMap(respawnAt', PlayerIDs, 0..RespawnDelay)
         /\ DOMAIN respawnAt' = DOMAIN timers \ due
    BY <1>1, <1>9, RestrictType
  <1>13. \A id \in DOMAIN players : ~players'[id].alive =>
           id \in DOMAIN respawnAt'
    BY <1>9, <1>11, <1>12
  <1>14. /\ bullets' \in [DOMAIN bullets' -> Bullet]
         /\ DOMAIN bullets' \subseteq BulletSlots
    <2>1. Takers(hits, NoOne) \subseteq DOMAIN Moved
      BY DEF Takers
    <2> QED
      BY <1>1, <2>1, MovedType, RestrictType DEF IsMap
  <1>15. items' \subseteq ItemIDs
    BY <1>1 DEF Takers, IInv, TypeOK
  <1>16. ASSUME NEW id \in DOMAIN players
         PROVE  /\ hurt[id].alive => players[id].alive
                /\ hurt[id].hp <= players[id].hp
    <2>1. /\ players[id].hp \in Int
          /\ hit[id].hp \in Int
          /\ hurt[id].hp \in Int
      BY <1>4, <1>6, <1>8, CombatAssumption DEF Squad, IsMap, Player
    <2> QED
      BY <1>6, <1>7, <1>8, <2>1
  <1>17. \A id \in due : id \in DOMAIN respawnAt /\ respawnAt[id] = 0
    BY <1>1, DelayAssumption DEF Due, Schedule
  <1>18. ASSUME NEW id \in DOMAIN players, players'[id].hp > players[id].hp
         PROVE  id \in DOMAIN respawnAt /\ respawnAt[id] = 0
    <2>1. /\ players[id].hp \in Int
          /\ players'[id].hp \in Int
      BY <1>4, <1>11, CombatAssumption DEF Squad, IsMap, Player
    <2>2. id \in due
      BY <1>11, <1>16, <1>18, <2>1
    <2> QED
      BY <1>17, <2>2
  <1>19. ASSUME NEW id \in DOMAIN players,
                ~players[id].alive, ~players'[id].alive
         PROVE  respawnAt'[id] = respawnAt[id]
    <2>1. id \notin Killed(players, hurt)
      BY <1>19 DEF Killed
    <2>2. id \in DOMAIN respawnAt'
      BY <1>13, <1>19
    <2>3. respawnAt'[id] = timers[id] /\ id \in DOMAIN timers
      BY <1>1, <1>9, <1>10, <1>12, <2>2, RestrictType
    <2> QED
      BY <1>1, <2>1, <2>3 DEF Schedule
  <1>20. ASSUME NEW id \in DOMAIN players,
                players'[id].alive, id \in DOMAIN respawnAt'
         PROVE  players[id].alive /\ id \in DOMAIN respawnAt
    <2>1. id \in DOMAIN timers /\ hurt[id].alive
      BY <1>11, <1>12, <1>20
    <2>2. id \notin Killed(players, hurt)
      BY <2>1 DEF Killed
    <2> QED
      BY <1>1, <1>16, <2>1, <2>2 DEF Schedule
  <1> QED
    BY <1>2, <1>3, <1>9, <1>11, <1>12, <1>13, <1>14, <1>15, <1>18, <1>19,
       <1>20

\* A tick of a live match keeps the invariant, decided or not.
LEMMA TickLiveIInv == IInv /\ TickLive => IInv'
  <1> SUFFICES ASSUME IInv, TickLive PROVE IInv'
    OBVIOUS
  <1>1. /\ phase = "live"
        /\ zone' = Shrink(zone)
        /\ UNCHANGED <<clients, waitStarted, open>>
    BY DEF TickLive
  <1>2. /\ phase' \in {"live", "ended"}
        /\ endedAt' \in {NoTime} \cup 0..ResetDelay
        /\ phase' = "ended" => endedAt' # NoTime
        /\ phase' # "ended" => winner' = NoOne
        /\ winner' = NoOne \/ winner' \in Alive(players')
    <2>1. CheckMatchEnd(players')
      BY LiveTickSquad
    <2>2. winner = NoOne /\ endedAt \in {NoTime} \cup 0..ResetDelay
      BY <1>1 DEF IInv, TypeOK, WinnerStands
    <2> QED
      BY <1>1, <2>1, <2>2, DelayAssumption
      DEF CheckMatchEnd, Contested, Winners, NoTime
  <1>3. /\ IsMap(players', PlayerIDs, Player)
        /\ \A id \in DOMAIN players' : Consistent(players'[id])
    BY LiveTickSquad DEF Squad
  <1>4. TypeOK'
    <2>1. zone' \in Zone
      BY <1>1, ShrinkType DEF IInv, TypeOK
    <2>2. winner' \in PlayerIDs \cup {NoOne}
      BY <1>2, <1>3 DEF Alive, IsMap
    <2>3. IsMap(bullets', BulletSlots, Bullet)
      BY LiveTickSquad DEF IsMap
    <2> QED
      BY <1>1, <1>2, <1>3, <2>1, <2>2, <2>3, LiveTickSquad DEF IInv, TypeOK
  <1>5. RespawnsNameMembers' /\ DeadAreScheduled'
    BY LiveTickSquad DEF RespawnsNameMembers, DeadAreScheduled
  <1>6. AliveMeansHealth'
    BY <1>3 DEF AliveMeansHealth
  <1>7. ClientsServePlayers'
    BY <1>1, LiveTickSquad DEF IInv, ClientsServePlayers
  <1>8. FreshWhileWaiting' /\ CountdownRunsForMembers'
    BY <1>2 DEF FreshWhileWaiting, CountdownRunsForMembers
  <1>9. WinnerStands'
    <2>1. NoOne \notin DOMAIN players'
      BY <1>3, RosterAssumption DEF IsMap
    <2> QED
      BY <1>2, <2>1 DEF WinnerStands, Alive
  <1> QED
    BY <1>4, <1>5, <1>6, <1>7, <1>8, <1>9 DEF IInv

\* So does a step that changes nothing, a refused Join among them.
LEMMA StutterIInv == IInv /\ UNCHANGED vars => IInv'
  <1> SUFFICES ASSUME IInv, UNCHANGED vars PROVE IInv'
    OBVIOUS
  <1>1. UNCHANGED <<players, clients, bullets, items, zone, respawnAt, phase,
                    waitStarted, endedAt, winner, open>>
    BY DEF vars, world
  <1> QED
    BY <1>1
    DEF IInv, TypeOK, RespawnsNameMembers, DeadAreScheduled, AliveMeansHealth,
        ClientsServePlayers, FreshWhileWaiting, CountdownRunsForMembers,
        WinnerStands

\* Every step of the engine keeps the invariant.
LEMMA NextIInv == IInv /\ [Next]_vars => IInv'
  <1> SUFFICES ASSUME IInv, [Next]_vars PROVE IInv'
    OBVIOUS
  <1>1. ASSUME NEW conn \in Conns, Join(conn) PROVE IInv'
    BY <1>1, JoinIInv
  <1>2. ASSUME NEW conn \in Conns, RefuseJoin(conn) PROVE IInv'
    BY <1>2, StutterIInv DEF RefuseJoin
  <1>3. ASSUME NEW conn \in Conns, Leave(conn) PROVE IInv'
    BY <1>3, LeaveIInv
  <1>4. ASSUME NEW conn \in Conns, HandleInput(conn) PROVE IInv'
    BY <1>4, HandleInputIInv
  <1>5. CASE TickWaiting
    BY <1>5, TickWaitingIInv
  <1>6. CASE TickLive
    BY <1>6, TickLiveIInv
  <1>7. CASE TickLiveEmpty
    BY <1>7, ResetMatchIInv DEF TickLiveEmpty
  <1>8. CASE TickEnded
    BY <1>8, ResetMatchIInv DEF TickEnded
  <1>9. CASE AdvanceTime
    BY <1>9, AdvanceTimeIInv
  <1>10. CASE UNCHANGED vars
    BY <1>10, StutterIInv
  <1> QED
    BY <1>1, <1>2, <1>3, <1>4, <1>5, <1>6, <1>7, <1>8, <1>9, <1>10
    DEF Next, Tick

\* The invariant holds throughout every behaviour of the engine.
LEMMA Invariance == Spec => []IInv
  BY InitIInv, NextIInv, PTL DEF Spec

-----------------------------------------------------------------------------
(* The theorems. *)

\* Every variable of the engine keeps its type (all of engine.go).
THEOREM Types == Spec => []TypeOK
  BY Invariance, PTL DEF IInv

\* processRespawns never meets a timer of a player who is not in the match,
\* whatever joins and leaves happened while it ran.
THEOREM RespawnTimersAreSafe == Spec => []RespawnsNameMembers
  BY Invariance, PTL DEF IInv

\* Whoever is dead in the match has a respawn timer.
THEOREM DeadHaveTimers == Spec => []DeadAreScheduled
  BY Invariance, PTL DEF IInv

\* The health, the armour and the Alive flag of every player agree.
THEOREM HealthAgrees == Spec => []AliveMeansHealth
  BY Invariance, PTL DEF IInv

\* The engine broadcasts to exactly the players of the match, on connections
\* that are still served.
THEOREM ClientsAreServed == Spec => []ClientsServePlayers
  BY Invariance, PTL DEF IInv

\* Nothing of an earlier match is left in a waiting one.
THEOREM WaitingIsFresh == Spec => []FreshWhileWaiting
  BY Invariance, PTL DEF IInv

\* No player waits in a match whose countdown does not run.
THEOREM CountdownRuns == Spec => []CountdownRunsForMembers
  BY Invariance, PTL DEF IInv

\* The declared winner is alive while the result is shown.
THEOREM WinnerIsStanding == Spec => []WinnerStands
  BY Invariance, PTL DEF IInv

\* What aliveCount compares with 1.
LEMMA AtMostOne ==
  ASSUME NEW S, IsFiniteSet(S)
  PROVE  (\A x, y \in S : x = y) <=> ~(Cardinality(S) > 1)
  <1>1. Cardinality(S) \in Nat /\ (Cardinality(S) = 0 <=> S = {})
    BY FS_CardinalityType, FS_EmptySet
  <1>2. ASSUME \A x, y \in S : x = y
        PROVE  ~(Cardinality(S) > 1)
    <2>1. CASE S = {}
      BY <1>1, <2>1
    <2>2. CASE S # {}
      <3>1. PICK x \in S : S = {x}
        BY <1>2, <2>2
      <3>2. Cardinality(S) = 1
        BY <3>1, FS_Singleton
      <3> QED
        BY <3>2
    <2> QED
      BY <2>1, <2>2
  <1>3. ASSUME ~(Cardinality(S) > 1)
        PROVE  \A x, y \in S : x = y
    <2>1. CASE Cardinality(S) = 0
      BY <1>1, <2>1
    <2>2. CASE Cardinality(S) = 1
      <3>1. PICK x : S = {x}
        BY <2>2, FS_Singleton
      <3> QED
        BY <3>1
    <2> QED
      BY <1>1, <1>3, <2>1, <2>2
  <1> QED
    BY <1>2, <1>3

\* A match is decided with at most one player standing, who is the winner.
THEOREM LastStandingWins == Spec => DecidedByLastStanding
  <1> DEFINE P == phase = "live" /\ phase' = "ended"
                    => \/ Alive(players') = {} /\ winner' = NoOne
                       \/ Alive(players') = {winner'}
  <1>1. ASSUME IInv, [Next]_vars, phase = "live", phase' = "ended"
        PROVE  \/ Alive(players') = {} /\ winner' = NoOne
               \/ Alive(players') = {winner'}
    <2>1. TickLive
      BY <1>1 DEF Next, Tick, Join, RefuseJoin, Leave, HandleInput,
                  TickWaiting, TickLiveEmpty, TickEnded, ResetMatch, Reopen,
                  AdvanceTime, vars
    <2>2. CheckMatchEnd(players') /\ Squad(players')
      BY <1>1, <2>1, LiveTickSquad
    <2>3. IsFiniteSet(Alive(players'))
      BY <2>2, PlayersAreFinite, FS_Subset DEF Alive, Squad, IsMap
    <2>4. ~(Cardinality(Alive(players')) > 1)
      BY <1>1, <2>2 DEF CheckMatchEnd, Contested, Winners
    <2>5. ASSUME Alive(players') # {}
          PROVE  Alive(players') = {winner'}
      <3>1. winner' \in Alive(players')
        BY <1>1, <2>2, <2>4, <2>5 DEF CheckMatchEnd, Contested, Winners
      <3> QED
        BY <2>3, <2>4, <3>1, AtMostOne
    <2> QED
      BY <1>1, <2>2, <2>4, <2>5 DEF CheckMatchEnd, Contested, Winners
  <1>2. IInv /\ [Next]_vars => [P]_vars
    BY <1>1
  <1> QED
    BY Invariance, <1>2, PTL DEF Spec, DecidedByLastStanding

\* Inputs and time do not touch anybody's health.
LEMMA SameHealth ==
  ASSUME IInv, AdvanceTime \/ \E conn \in Conns : HandleInput(conn)
  PROVE  /\ DOMAIN players' = DOMAIN players
         /\ \A id \in DOMAIN players :
              /\ players'[id].hp = players[id].hp
              /\ players'[id].alive = players[id].alive
  <1>1. \A id \in DOMAIN players : players[id] \in Player
    BY DEF IInv, TypeOK, IsMap
  <1>2. CASE AdvanceTime
    <2>1. \A p \in Player :
            LET after == [p EXCEPT !.lastShot = Elapse(@, FireRate)]
            IN  after.hp = p.hp /\ after.alive = p.alive
      BY DEF Player
    <2> QED
      BY <1>1, <1>2, <2>1 DEF AdvanceTime
  <1>3. ASSUME NEW conn \in Conns, HandleInput(conn)
        PROVE  /\ DOMAIN players' = DOMAIN players
               /\ \A id \in DOMAIN players :
                    /\ players'[id].hp = players[id].hp
                    /\ players'[id].alive = players[id].alive
    <2> DEFINE who == ID(conn)
    <2>1. PICK ring \in Rings :
            \/ players' = [players EXCEPT ![who] = Move(players[who], ring)]
            \/ players' =
                 [players EXCEPT ![who] = RecordShot(Move(players[who], ring))]
      BY <1>3 DEF HandleInput
    <2>2. players[who] \in Player
      BY <1>1, <1>3 DEF HandleInput
    <2> QED
      BY <2>1, <2>2, InputType
  <1> QED
    BY <1>2, <1>3

\* Nobody's health comes back before the respawn timer has run out, but by a
\* reset or by joining anew.
THEOREM NobodyRespawnsEarly == Spec => NoEarlyRespawn
  <1> DEFINE P == \A id \in DOMAIN players \cap DOMAIN players' :
                    players'[id].hp > players[id].hp
                      => \/ id \in DOMAIN respawnAt /\ respawnAt[id] = 0
                         \/ phase = "ended" /\ phase' = "waiting"
                         \/ \E conn \in open' \ open : ID(conn) = id
  <1>1. ASSUME IInv, [Next]_vars,
               NEW id \in DOMAIN players \cap DOMAIN players',
               players'[id].hp > players[id].hp
        PROVE  \/ id \in DOMAIN respawnAt /\ respawnAt[id] = 0
               \/ phase = "ended" /\ phase' = "waiting"
               \/ \E conn \in open' \ open : ID(conn) = id
    <2>1. players'[id].hp # players[id].hp
      <3>1. players[id].hp \in Int
        BY <1>1, CombatAssumption DEF IInv, TypeOK, IsMap, Player
      <3> QED
        BY <1>1, <3>1
    <2>2. ASSUME NEW conn \in Conns, Join(conn)
          PROVE  \E c \in open' \ open : ID(c) = id
      <3>1. conn \in open' \ open
        BY <2>2 DEF Join
      <3>2. ID(conn) = id
        BY <1>1, <2>1, <2>2 DEF Join, Put
      <3> QED
        BY <3>1, <3>2
    <2>3. ASSUME NEW conn \in Conns, Leave(conn) PROVE FALSE
      BY <1>1, <2>1, <2>3 DEF Leave, Delete, Restrict
    <2>4. CASE AdvanceTime \/ \E conn \in Conns : HandleInput(conn)
      BY <1>1, <2>1, <2>4, SameHealth
    <2>5. CASE TickLive
      BY <1>1, <2>5, LiveTickSquad
    <2>6. CASE TickEnded
      BY <2>6 DEF TickEnded, ResetMatch, Reopen
    <2>7. CASE TickLiveEmpty
      BY <1>1, <2>7 DEF TickLiveEmpty
    <2>8. CASE UNCHANGED players
      BY <2>1, <2>8
    <2> QED
      BY <1>1, <2>2, <2>3, <2>4, <2>5, <2>6, <2>7, <2>8
      DEF Next, Tick, TickWaiting, RefuseJoin, vars
  <1>2. IInv /\ [Next]_vars => [P]_vars
    BY <1>1
  <1> QED
    BY Invariance, <1>2, PTL DEF Spec, NoEarlyRespawn

-----------------------------------------------------------------------------
(* The engine implements the life of a match. *)

\* A fresh engine is a fresh match of the contract.
LEMMA InitLifecycle == Init => Lifecycle!Init
  BY EmptyMapType DEF Init, Lifecycle!Init, Alive

\* Join is Enter.
LEMMA JoinLifecycle ==
  ASSUME IInv, NEW conn \in Conns, Join(conn)
  PROVE  Lifecycle!Next
  <1> DEFINE id == ID(conn)
  <1>1. PICK ring \in Rings : players' = Put(players, id, NewPlayer(ring))
    BY DEF Join
  <1>2. DOMAIN players' = DOMAIN players \cup {id}
    BY <1>1 DEF Put
  <1>3. players'[id].alive
    BY <1>1, NewPlayerType DEF Put
  <1>4. \A x \in DOMAIN players \ {id} : players'[x] = players[x]
    BY <1>1 DEF Put
  <1>5. Alive(players') = Alive(players) \cup {id}
    BY <1>2, <1>3, <1>4 DEF Alive
  <1>6. Lifecycle!Enter(id)
    BY <1>2, <1>5 DEF Join, Lifecycle!Enter
  <1> QED
    BY <1>6 DEF Join, Lifecycle!Next

\* Leave is Exit.
LEMMA LeaveLifecycle ==
  ASSUME IInv, NEW conn \in Conns, Leave(conn)
  PROVE  [Lifecycle!Next]_(Lifecycle!vars)
  <1> DEFINE id == ID(conn)
  <1>1. /\ DOMAIN players' = DOMAIN players \ {id}
        /\ \A x \in DOMAIN players \ {id} : players'[x] = players[x]
    BY DEF Leave, Delete, Restrict
  <1>2. Alive(players') = Alive(players) \ {id}
    BY <1>1 DEF Alive
  <1>3. UNCHANGED <<phase, winner>>
    BY DEF Leave
  <1>4. CASE id \in DOMAIN players
    <2>1. id \in Roster
      BY <1>4 DEF IInv, ClientsServePlayers
    <2>2. Lifecycle!Exit(id)
      BY <1>1, <1>2, <1>3 DEF Lifecycle!Exit
    <2> QED
      BY <2>1, <2>2 DEF Lifecycle!Next
  <1>5. CASE id \notin DOMAIN players
    <2>1. DOMAIN players' = DOMAIN players /\ Alive(players') = Alive(players)
      BY <1>1, <1>2, <1>5 DEF Alive
    <2> QED
      BY <1>3, <2>1 DEF Lifecycle!vars
  <1> QED
    BY <1>4, <1>5

\* What leaves everybody's life as it is does not show in the contract.
LEMMA SameLives ==
  ASSUME DOMAIN players' = DOMAIN players,
         \A id \in DOMAIN players : players'[id].alive = players[id].alive,
         UNCHANGED <<phase, winner>>
  PROVE  UNCHANGED Lifecycle!vars
  <1>1. Alive(players') = Alive(players)
    BY DEF Alive
  <1> QED
    BY <1>1 DEF Lifecycle!vars

\* An input does not show in the contract.
LEMMA HandleInputLifecycle ==
  ASSUME IInv, NEW conn \in Conns, HandleInput(conn)
  PROVE  UNCHANGED Lifecycle!vars
  <1> DEFINE id == ID(conn)
  <1>1. players[id] \in Player
    BY DEF HandleInput, IInv, TypeOK, IsMap
  <1>2. PICK ring \in Rings :
          \/ players' = [players EXCEPT ![id] = Move(players[id], ring)]
          \/ players' =
               [players EXCEPT ![id] = RecordShot(Move(players[id], ring))]
    BY DEF HandleInput
  <1>3. /\ DOMAIN players' = DOMAIN players
        /\ \A x \in DOMAIN players : players'[x].alive = players[x].alive
    BY <1>1, <1>2, InputType
  <1> QED
    BY <1>3, SameLives DEF HandleInput

\* Whichever tick resets the match, it is Reset of the contract.
LEMMA ResetLifecycle ==
  ASSUME IInv, ResetMatch(players),
         phase = "ended" \/ (phase = "live" /\ DOMAIN players = {})
  PROVE  Lifecycle!Next
  <1>1. PICK spawn \in [DOMAIN players -> Rings] :
          players' = AfterRespawns(players, spawn)
    BY DEF ResetMatch, ReviveAll
  <1>2. Squad(players)
    BY DEF IInv, TypeOK, AliveMeansHealth, Squad
  <1>3. /\ DOMAIN players' = DOMAIN players
        /\ \A id \in DOMAIN players : players'[id].alive
    BY <1>1, <1>2, AfterRespawnsSquad
  <1>4. Alive(players') = DOMAIN players
    BY <1>3 DEF Alive
  <1>5. Lifecycle!Reset
    BY <1>3, <1>4 DEF ResetMatch, ResetWorld, Reopen, Lifecycle!Reset
  <1> QED
    BY <1>5 DEF Lifecycle!Next

\* A tick of a live match is a Round of the contract.
LEMMA TickLiveLifecycle ==
  ASSUME IInv, TickLive
  PROVE  Lifecycle!Next
  <1>1. phase = "live" /\ DOMAIN players # {}
    BY DEF TickLive
  <1>2. DOMAIN players' = DOMAIN players /\ CheckMatchEnd(players')
    BY LiveTickSquad
  <1>3. \E fallen \in SUBSET Alive(players),
           risen \in SUBSET (DOMAIN players \ Alive(players)) :
          Alive(players') = (Alive(players) \ fallen) \cup risen
    <2> DEFINE fallen == Alive(players) \ Alive(players')
               risen == Alive(players') \ Alive(players)
    <2>1. /\ fallen \in SUBSET Alive(players)
          /\ risen \in SUBSET (DOMAIN players \ Alive(players))
      BY <1>2 DEF Alive
    <2>2. Alive(players') = (Alive(players) \ fallen) \cup risen
      OBVIOUS
    <2> QED
      BY <2>1, <2>2
  <1>4. IF Lifecycle!Decided(Alive(players'))
        THEN /\ phase' = "ended"
             /\ winner' \in IF Alive(players') = {} THEN {NoOne}
                            ELSE Alive(players')
        ELSE UNCHANGED <<phase, winner>>
    <2>1. IsFiniteSet(Alive(players'))
      BY LiveTickSquad, PlayersAreFinite, FS_Subset DEF Alive, Squad, IsMap
    <2>2. Lifecycle!Decided(Alive(players'))
            <=> ~(Cardinality(Alive(players')) > 1)
      BY <2>1, AtMostOne DEF Lifecycle!Decided
    <2> QED
      BY <1>2, <2>2 DEF CheckMatchEnd, Contested, Winners
  <1>5. Lifecycle!Round
    BY <1>1, <1>2, <1>3, <1>4 DEF Lifecycle!Round
  <1> QED
    BY <1>5 DEF Lifecycle!Next

\* Every step of the engine is a step of the contract, or none.
LEMMA NextLifecycle ==
  IInv /\ [Next]_vars => [Lifecycle!Next]_(Lifecycle!vars)
  <1> SUFFICES ASSUME IInv, [Next]_vars
               PROVE  [Lifecycle!Next]_(Lifecycle!vars)
    OBVIOUS
  <1>1. ASSUME NEW conn \in Conns, Join(conn)
        PROVE  Lifecycle!Next
    BY <1>1, JoinLifecycle
  <1>2. ASSUME NEW conn \in Conns, Leave(conn)
        PROVE  [Lifecycle!Next]_(Lifecycle!vars)
    BY <1>2, LeaveLifecycle
  <1>3. ASSUME NEW conn \in Conns, HandleInput(conn)
        PROVE  UNCHANGED Lifecycle!vars
    BY <1>3, HandleInputLifecycle
  <1>4. CASE TickWaiting
    <2>1. Lifecycle!Start
      BY <1>4 DEF TickWaiting, Lifecycle!Start
    <2> QED
      BY <2>1 DEF Lifecycle!Next
  <1>5. CASE TickLive
    BY <1>5, TickLiveLifecycle
  <1>6. CASE TickLiveEmpty
    BY <1>6, ResetLifecycle DEF TickLiveEmpty
  <1>7. CASE TickEnded
    <2>1. phase = "ended" /\ ResetMatch(players)
      BY <1>7 DEF TickEnded
    <2> QED
      BY <2>1, ResetLifecycle
  <1>8. CASE AdvanceTime
    <2>1. \A id \in DOMAIN players : players[id] \in Player
      BY DEF IInv, TypeOK, IsMap
    <2>2. \A p \in Player :
            [p EXCEPT !.lastShot = Elapse(@, FireRate)].alive = p.alive
      BY DEF Player
    <2>3. /\ DOMAIN players' = DOMAIN players
          /\ \A id \in DOMAIN players :
               players'[id].alive = players[id].alive
      BY <1>8, <2>1, <2>2 DEF AdvanceTime
    <2> QED
      BY <1>8, <2>3, SameLives DEF AdvanceTime
  <1>9. CASE UNCHANGED vars
    BY <1>9, SameLives DEF vars
  <1>10. ASSUME NEW conn \in Conns, RefuseJoin(conn)
        PROVE  UNCHANGED Lifecycle!vars
    BY <1>10, SameLives DEF RefuseJoin, vars
  <1> QED
    BY <1>1, <1>2, <1>3, <1>4, <1>5, <1>6, <1>7, <1>8, <1>9, <1>10
    DEF Next, Tick

\* The engine implements the documented life of a match, for any roster, any
\* number of connections and any constants.
THEOREM Implementation == Spec => ImplementsLifecycle
  BY Invariance, InitLifecycle, NextLifecycle, PTL
  DEF Spec, ImplementsLifecycle, Lifecycle!Safety

\* The engine as the sockets see it.
Seats == INSTANCE Attendance WITH roster <- Roster, joined <- open

\* Joining and leaving an engine is what the sockets take it to be: whatever a
\* tick or an input does, the table is that of the last joins and leaves.
THEOREM Attends == Spec => Seats!Spec
  <1>1. Init => Seats!Init
    BY DEF Init, Seats!Init, EmptyMap
  <1>2. [Next]_vars => [Seats!Next]_(Seats!vars)
    <2> SUFFICES ASSUME [Next]_vars PROVE [Seats!Next]_(Seats!vars)
      OBVIOUS
    <2>1. ASSUME NEW conn \in Conns, Join(conn)
          PROVE  Seats!Next
      BY <2>1 DEF Join, Put, ID, Seats!Next, Seats!Join
    <2>2. ASSUME NEW conn \in Conns, Leave(conn)
          PROVE  Seats!Next
      BY <2>2
      DEF Leave, Delete, Restrict, ID, Seats!Next, Seats!Leave, Seats!Restrict
    <2>3. ASSUME NEW conn \in Conns, RefuseJoin(conn) \/ HandleInput(conn)
          PROVE  UNCHANGED <<clients, open>>
      BY <2>3 DEF RefuseJoin, HandleInput, vars
    <2>4. CASE Tick \/ AdvanceTime
      <3>1. UNCHANGED <<clients, open>>
        BY <2>4
        DEF Tick, TickWaiting, TickLive, TickLiveEmpty, TickEnded, AdvanceTime,
            vars
      <3> QED
        BY <3>1 DEF Seats!vars
    <2> QED
      BY <2>1, <2>2, <2>3, <2>4 DEF Next, vars, Seats!vars
  <1> QED
    BY <1>1, <1>2, PTL DEF Spec, Seats!Spec

=============================================================================
