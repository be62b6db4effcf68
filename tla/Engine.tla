------------------------------- MODULE Engine -------------------------------
(***************************************************************************)
(* The match engine of services/game/engine/engine.go together with the    *)
(* player, bullet, item and zone rules of services/game/world that it      *)
(* drives.  Every action is one critical section of Engine.mu: Join,       *)
(* Leave and HandleInput are called by the goroutines of one WebSocket     *)
(* connection, Tick by the match's own loop, in any order.                 *)
(*                                                                         *)
(* Three abstractions.                                                     *)
(*  - An instant is kept as the time elapsed since it (or, for respawnAt,  *)
(*    the time left until it), no further than the one delay it is ever    *)
(*    compared with; AdvanceTime ages all of them together.                *)
(*  - A position is the ring around the centre of the map it lies in, the  *)
(*    distance Zone.IsOutside compares with the radius.  Which bullets hit *)
(*    and which items are touched is left open wherever the code decides   *)
(*    it from the geometry alone.                                          *)
(*  - Bullets sit in numbered slots instead of a slice.  A gun pickup only *)
(*    sets Player.Gun, which nothing reads, so items are armour pickups.   *)
(***************************************************************************)
EXTENDS Integers, FiniteSets, Functions

CONSTANTS
  PlayerIDs,          \* verified identities that may open a connection
  Roster,             \* allowedPlayers (all of PlayerIDs when it is nil)
  MaxConns,           \* bound: simultaneous connections of one player
  BulletSlots,        \* bound: bullets in flight
  ItemIDs,            \* the ItemCount items of one spread
  CornerRing,         \* the ring of the map's corners
  PlayerStartHP, PlayerMaxArmour, ArmourPickupAmount,
  BulletDamage, BulletLife, FireRate,
  ZoneInitialRadius, ZoneMinRadius, ZoneShrinkAmount,
  ZoneShrinkInterval, ZoneDamagePerTick,
  MatchStartDelay, RespawnDelay, ResetDelay,
  NoOne               \* the empty winner string, and a bullet that misses

ASSUME RosterAssumption == Roster \subseteq PlayerIDs /\ NoOne \notin PlayerIDs

ASSUME PlayersAreFinite == IsFiniteSet(PlayerIDs)

ASSUME SlotsAreFinite == IsFiniteSet(BulletSlots) /\ IsFiniteSet(ItemIDs)

ASSUME CombatAssumption ==
  /\ PlayerStartHP \in Nat \ {0}
  /\ PlayerMaxArmour \in Nat
  /\ ArmourPickupAmount \in Nat
  /\ BulletDamage \in Nat
  /\ BulletLife \in Nat \ {0}
  /\ FireRate \in Nat

ASSUME ZoneAssumption ==
  /\ CornerRing \in Nat
  /\ ZoneInitialRadius \in Nat
  /\ ZoneMinRadius \in 0..ZoneInitialRadius
  /\ ZoneShrinkAmount \in Nat
  /\ ZoneShrinkInterval \in Nat
  /\ ZoneDamagePerTick \in Nat

ASSUME DelayAssumption ==
  /\ MatchStartDelay \in Nat
  /\ RespawnDelay \in Nat \ {0}
  /\ ResetDelay \in Nat

ASSUME ConnsAssumption == MaxConns \in Nat \ {0}

VARIABLES
  players,      \* playerID -> Player, of the players in the match
  clients,      \* playerID -> the connection the engine broadcasts to
  bullets,      \* slot -> Bullet
  items,        \* armour pickups still on the ground
  zone,         \* the safe area
  respawnAt,    \* playerID -> time left until the player respawns
  phase,        \* "waiting", "live" or "ended"
  waitStarted,  \* time since the countdown started, NoTime when zero
  endedAt,      \* time since the match ended, NoTime when zero
  winner,       \* winning player, NoOne for none
  open          \* connections between their Join and their Leave (ServeWS)

world == <<bullets, items, zone>>
vars == <<players, clients, world, respawnAt, phase, waitStarted, endedAt,
          winner, open>>

NoTime == -1
Rings == 0..CornerRing

\* A connection is a *Client of server.go; its ID() is the player's.
Conns == PlayerIDs \X (1..MaxConns)
ID(conn) == conn[1]

Player == [hp : 0..PlayerStartHP, armour : 0..PlayerMaxArmour, alive : BOOLEAN,
           lastShot : 0..FireRate, ring : Rings]
Bullet == [owner : PlayerIDs, life : 1..BulletLife]
Zone == [radius : ZoneMinRadius..ZoneInitialRadius,
         lastShrink : 0..ZoneShrinkInterval]

EmptyMap == [x \in {} |-> x]
Lesser(a, b) == IF a < b THEN a ELSE b
Greater(a, b) == IF a > b THEN a ELSE b

\* map[key] = value
Put(map, key, value) ==
  [x \in DOMAIN map \cup {key} |-> IF x = key THEN value ELSE map[x]]

\* delete(map, key)
Delete(map, key) == Restrict(map, DOMAIN map \ {key})

-----------------------------------------------------------------------------
(* The rules of package world. *)

\* LastShot is the zero time, so the first shot is always allowed.
NewPlayer(ring) ==
  [hp |-> PlayerStartHP, armour |-> 0, alive |-> TRUE, lastShot |-> FireRate,
   ring |-> ring]

\* Armour absorbs first; at no health the player dies.
ApplyDamage(player, damage) ==
  LET absorbed == Lesser(damage, player.armour)
      hp == Greater(0, player.hp - (damage - absorbed))
  IN  [hp |-> hp, armour |-> player.armour - absorbed,
       alive |-> player.alive /\ hp # 0,
       lastShot |-> player.lastShot, ring |-> player.ring]

\* As good as new, except for the time of the last shot.
Respawn(player, ring) ==
  [hp |-> PlayerStartHP, armour |-> 0, alive |-> TRUE,
   lastShot |-> player.lastShot, ring |-> ring]

Move(player, ring) == [player EXCEPT !.ring = ring]

RecordShot(player) == [player EXCEPT !.lastShot = 0]

CanShoot(player) == player.lastShot >= FireRate

\* `count` armour pickups in a row.
ApplyPickups(player, count) ==
  [player EXCEPT !.armour = Lesser(@ + count * ArmourPickupAmount,
                                   PlayerMaxArmour)]

NewZone == [radius |-> ZoneInitialRadius, lastShrink |-> 0]

\* Mutant of Shrink: the floor of the radius is forgotten.
ShrinkPastFloor(z) ==
  IF z.lastShrink < ZoneShrinkInterval
  THEN z
  ELSE [radius |-> z.radius - ZoneShrinkAmount, lastShrink |-> 0]

Shrink(z) ==
  IF z.lastShrink < ZoneShrinkInterval
  THEN z
  ELSE [radius |-> Greater(ZoneMinRadius, z.radius - ZoneShrinkAmount),
        lastShrink |-> 0]

IsOutside(player, z) == player.ring > z.radius

-----------------------------------------------------------------------------
Init ==
  /\ players = EmptyMap
  /\ clients = EmptyMap
  /\ bullets = EmptyMap
  /\ items \in SUBSET ItemIDs
  /\ zone = NewZone
  /\ respawnAt = EmptyMap
  /\ phase = "waiting"
  /\ waitStarted = NoTime
  /\ endedAt = NoTime
  /\ winner = NoOne
  /\ open = {}

\* ServeWS calls Join once per connection, before it starts the pumps.
Join(conn) ==
  /\ conn \notin open
  /\ ID(conn) \in Roster
  /\ waitStarted' =
       IF phase = "waiting" /\ DOMAIN players = {} /\ waitStarted = NoTime
       THEN 0 ELSE waitStarted
  /\ \E ring \in Rings : players' = Put(players, ID(conn), NewPlayer(ring))
  /\ clients' = Put(clients, ID(conn), conn)
  /\ open' = open \cup {conn}
  /\ UNCHANGED <<world, respawnAt, phase, endedAt, winner>>

\* Join returns false and ServeWS closes the connection without a Leave.
RefuseJoin(conn) ==
  /\ conn \notin open
  /\ ID(conn) \notin Roster
  /\ UNCHANGED vars

\* Mutants of Leave: one of the three deletes is forgotten.
LeaveKeepsTimer(conn) ==
  /\ conn \in open
  /\ players' = Delete(players, ID(conn))
  /\ clients' = Delete(clients, ID(conn))
  /\ open' = open \ {conn}
  /\ UNCHANGED <<world, respawnAt, phase, waitStarted, endedAt, winner>>

LeaveKeepsClient(conn) ==
  /\ conn \in open
  /\ players' = Delete(players, ID(conn))
  /\ respawnAt' = Delete(respawnAt, ID(conn))
  /\ open' = open \ {conn}
  /\ UNCHANGED <<clients, world, phase, waitStarted, endedAt, winner>>

\* The deferred Leave of ServeWS, once both pumps of the connection ended.
Leave(conn) ==
  /\ conn \in open
  /\ players' = Delete(players, ID(conn))
  /\ clients' = Delete(clients, ID(conn))
  /\ respawnAt' = Delete(respawnAt, ID(conn))
  /\ open' = open \ {conn}
  /\ UNCHANGED <<world, phase, waitStarted, endedAt, winner>>

\* readPump forwards one decoded input.  DX and DY are not limited, so one
\* input may take the player to any ring.
HandleInput(conn) ==
  LET id == ID(conn) IN
  /\ conn \in open
  /\ phase = "live"
  /\ id \in DOMAIN players
  /\ players[id].alive
  /\ \E ring \in Rings, shoot \in BOOLEAN :
       IF shoot /\ CanShoot(players[id])
       THEN /\ players' = [players EXCEPT ![id] = RecordShot(Move(@, ring))]
            /\ \E slot \in BulletSlots \ DOMAIN bullets :
                 bullets' = Put(bullets, slot,
                                [owner |-> id, life |-> BulletLife])
       ELSE /\ players' = [players EXCEPT ![id] = Move(@, ring)]
            /\ UNCHANGED bullets
  /\ UNCHANGED <<clients, items, zone, respawnAt, phase, waitStarted, endedAt,
                 winner, open>>

-----------------------------------------------------------------------------
(* The stages of a live tick, each a function of the players before it. *)

\* moveBullets: the bullets whose life has not run out.
Moved == LET kept == {slot \in DOMAIN bullets : bullets[slot].life > 1}
         IN  [slot \in kept |-> [bullets[slot] EXCEPT !.life = @ - 1]]

\* A choice of who is touched by each thing, NoOne for nobody.
Takers(choice, id) == {x \in DOMAIN choice : choice[x] = id}
Taken(choice, id) == Cardinality(Takers(choice, id))

\* A bullet hits the living other than its owner, one after the other: all
\* hits on a player but the last one left the player alive.
PossibleHits(ps, hits) ==
  \A id \in DOMAIN ps : Takers(hits, id) # {} =>
    /\ ps[id].alive
    /\ \A slot \in Takers(hits, id) : bullets[slot].owner # id
    /\ ApplyDamage(ps[id], (Taken(hits, id) - 1) * BulletDamage).alive

AfterHits(ps, hits) ==
  [id \in DOMAIN ps |-> ApplyDamage(ps[id], Taken(hits, id) * BulletDamage)]

\* Mutant of PossiblePickups: CollidesWith without its guard.
PickupsByAnyone(ps, picks) == TRUE

\* Only the living pick items up.
PossiblePickups(ps, picks) ==
  \A id \in DOMAIN ps : Takers(picks, id) # {} => ps[id].alive

AfterPickups(ps, picks) ==
  [id \in DOMAIN ps |-> ApplyPickups(ps[id], Taken(picks, id))]

AfterZone(ps, z) ==
  [id \in DOMAIN ps |->
     IF ps[id].alive /\ IsOutside(ps[id], z)
     THEN ApplyDamage(ps[id], ZoneDamagePerTick)
     ELSE ps[id]]

\* Mutant of Killed: applyZoneDamage ignores what DamageIfOutside returns.
KilledByBulletsOnly(before, after) ==
  {id \in DOMAIN before : /\ before[id].alive /\ ~after[id].alive
                          /\ ~IsOutside(after[id], Shrink(zone))}

\* Every death of the tick, by bullet or by zone, schedules a respawn.
Killed(before, after) ==
  {id \in DOMAIN before : before[id].alive /\ ~after[id].alive}

Schedule(before, after) ==
  LET killed == Killed(before, after)
  IN  [id \in DOMAIN respawnAt \cup killed |->
         IF id \in killed THEN RespawnDelay ELSE respawnAt[id]]

\* Mutant of Due: the comparison is off by one.
DueOneEarly(schedule) == {id \in DOMAIN schedule : schedule[id] < 2}

Due(schedule) == {id \in DOMAIN schedule : schedule[id] = 0}

AfterRespawns(ps, spawn) ==
  [id \in DOMAIN ps |->
     IF id \in DOMAIN spawn THEN Respawn(ps[id], spawn[id]) ELSE ps[id]]

Alive(ps) == {id \in DOMAIN ps : ps[id].alive}

-----------------------------------------------------------------------------
(* The three parts of resetMatch. *)

\* Mutant of ResetWorld: the zone stays as it was.
ResetWorldKeepsZone ==
  /\ bullets' = EmptyMap
  /\ items' \in SUBSET ItemIDs
  /\ zone' = zone
  /\ respawnAt' = EmptyMap
  /\ winner' = NoOne
  /\ endedAt' = NoTime

ResetWorld ==
  /\ bullets' = EmptyMap
  /\ items' \in SUBSET ItemIDs
  /\ zone' = NewZone
  /\ respawnAt' = EmptyMap
  /\ winner' = NoOne
  /\ endedAt' = NoTime

\* Mutant of ReviveAll: the players stay as they were.
ReviveNobody(ps) == players' = ps

ReviveAll(ps) ==
  \E spawn \in [DOMAIN ps -> Rings] : players' = AfterRespawns(ps, spawn)

\* Mutant of Reopen: the countdown is left for Join to start.
ReopenWithoutCountdown(ps) == phase' = "waiting" /\ waitStarted' = NoTime

Reopen(ps) ==
  /\ phase' = "waiting"
  /\ waitStarted' = IF DOMAIN ps # {} THEN 0 ELSE NoTime

\* Clears the match, brings back everybody in ps and waits again.
ResetMatch(ps) == ResetWorld /\ ReviveAll(ps) /\ Reopen(ps)

\* Mutants of Contested: aliveCount is compared with the wrong number.
ContestedByOne(ps) == Cardinality(Alive(ps)) > 0
ContestedByThree(ps) == Cardinality(Alive(ps)) > 2

Contested(ps) == Cardinality(Alive(ps)) > 1

\* Mutant of Winners: lastAliveID is set for the dead as well.
WinnersDeadOrAlive(ps) == DOMAIN ps

Winners(ps) == IF Alive(ps) = {} THEN {NoOne} ELSE Alive(ps)

\* checkMatchEnd when the match goes on, or is decided.
CheckMatchEnd(ps) ==
  /\ players' = ps
  /\ IF Contested(ps)
     THEN UNCHANGED <<phase, endedAt, winner>>
     ELSE /\ phase' = "ended"
          /\ endedAt' = 0
          /\ winner' \in Winners(ps)

\* tickWaiting
TickWaiting ==
  /\ phase = "waiting"
  /\ waitStarted # NoTime
  /\ waitStarted >= MatchStartDelay
  /\ phase' = "live"
  /\ UNCHANGED <<players, clients, world, respawnAt, waitStarted, endedAt,
                 winner, open>>

\* tickLive with players in the match: `hit` and `hurt` are the players after
\* the bullets and after the zone.
TickLive ==
  /\ phase = "live"
  /\ DOMAIN players # {}
  /\ zone' = Shrink(zone)
  /\ \E hits \in [DOMAIN Moved -> DOMAIN players \cup {NoOne}] :
     \E picks \in [items -> DOMAIN players \cup {NoOne}] :
     \E hit \in {AfterHits(players, hits)} :
     \E hurt \in {AfterZone(AfterPickups(hit, picks), Shrink(zone))} :
       LET timers == Schedule(players, hurt)
           due    == Due(timers)
       IN  /\ PossibleHits(players, hits)
           /\ PossiblePickups(hit, picks)
           /\ bullets' = Restrict(Moved, Takers(hits, NoOne))
           /\ items' = Takers(picks, NoOne)
           /\ respawnAt' = Restrict(timers, DOMAIN timers \ due)
           /\ \E spawn \in [due -> Rings] :
                CheckMatchEnd(AfterRespawns(hurt, spawn))
  /\ UNCHANGED <<clients, waitStarted, open>>

\* tickLive of a match everybody has left: checkMatchEnd resets it.
TickLiveEmpty ==
  /\ phase = "live"
  /\ DOMAIN players = {}
  /\ ResetMatch(players)
  /\ UNCHANGED <<clients, open>>

\* Mutant of TickEnded: the match starts over only once everybody has left.
TickEndedOnceEmpty ==
  /\ phase = "ended"
  /\ endedAt >= ResetDelay
  /\ DOMAIN players = {}
  /\ ResetMatch(players)
  /\ UNCHANGED <<clients, open>>

\* tickEnded
TickEnded ==
  /\ phase = "ended"
  /\ endedAt >= ResetDelay
  /\ ResetMatch(players)
  /\ UNCHANGED <<clients, open>>

\* The broadcast that follows every tick changes nothing here.
Tick == TickWaiting \/ TickLive \/ TickLiveEmpty \/ TickEnded

\* One unit of time passes for every instant the engine remembers.
Elapse(time, limit) ==
  IF time = NoTime THEN NoTime ELSE Lesser(time + 1, limit)

AdvanceTime ==
  /\ players' = [id \in DOMAIN players |->
                   [players[id] EXCEPT !.lastShot = Elapse(@, FireRate)]]
  /\ zone' = [zone EXCEPT !.lastShrink = Elapse(@, ZoneShrinkInterval)]
  /\ respawnAt' = [id \in DOMAIN respawnAt |-> Greater(0, respawnAt[id] - 1)]
  /\ waitStarted' = Elapse(waitStarted, MatchStartDelay)
  /\ endedAt' = Elapse(endedAt, ResetDelay)
  /\ UNCHANGED <<clients, bullets, items, phase, winner, open>>

Next ==
  \/ \E conn \in Conns :
       Join(conn) \/ RefuseJoin(conn) \/ Leave(conn) \/ HandleInput(conn)
  \/ Tick
  \/ AdvanceTime

\* Run's ticker keeps firing and the clock keeps running.
Fairness == WF_vars(Tick) /\ WF_vars(AdvanceTime)

Spec == Init /\ [][Next]_vars /\ Fairness

-----------------------------------------------------------------------------
(* Properties. *)

IsMap(map, keys, values) ==
  DOMAIN map \subseteq keys /\ map \in [DOMAIN map -> values]

\* Every variable has its type.
TypeOK ==
  /\ IsMap(players, PlayerIDs, Player)
  /\ IsMap(clients, PlayerIDs, Conns)
  /\ IsMap(bullets, BulletSlots, Bullet)
  /\ items \subseteq ItemIDs
  /\ zone \in Zone
  /\ IsMap(respawnAt, PlayerIDs, 0..RespawnDelay)
  /\ phase \in {"waiting", "live", "ended"}
  /\ waitStarted \in {NoTime} \cup 0..MatchStartDelay
  /\ endedAt \in {NoTime} \cup 0..ResetDelay
  /\ winner \in PlayerIDs \cup {NoOne}
  /\ open \subseteq Conns

\* processRespawns dereferences e.players[id] for every respawn timer: a timer
\* of a player who is no longer in the match would bring the server down.
RespawnsNameMembers == DOMAIN respawnAt \subseteq DOMAIN players

\* A dead player always has a respawn timer; without one the player would
\* watch the rest of the match, however it got to be dead.
DeadAreScheduled == \A id \in DOMAIN players :
  ~players[id].alive => id \in DOMAIN respawnAt

Consistent(player) ==
  /\ player.alive <=> player.hp > 0
  /\ ~player.alive => player.armour = 0

\* Health and the Alive flag never disagree, and the armour of the fallen is
\* spent: ApplyDamage, Respawn and NewPlayer keep the three in step.
AliveMeansHealth == \A id \in DOMAIN players : Consistent(players[id])

\* The players in the match are those the engine broadcasts to, all on the
\* roster, and it broadcasts to a connection ServeWS still serves.
ClientsServePlayers ==
  /\ DOMAIN clients = DOMAIN players
  /\ DOMAIN clients \subseteq Roster
  /\ \A id \in DOMAIN clients : clients[id] \in open /\ ID(clients[id]) = id

\* A match waits, for the first time or after a reset, with nothing left over
\* from an earlier one: full health for all, no bullets, no timers, the whole
\* zone, no result.
FreshWhileWaiting == phase = "waiting" =>
  /\ bullets = EmptyMap
  /\ respawnAt = EmptyMap
  /\ zone.radius = ZoneInitialRadius
  /\ endedAt = NoTime
  /\ winner = NoOne
  /\ \A id \in DOMAIN players :
       players[id].alive /\ players[id].hp = PlayerStartHP
                         /\ players[id].armour = 0

\* Nobody waits in a match whose countdown is not running.
CountdownRunsForMembers ==
  phase = "waiting" /\ DOMAIN players # {} => waitStarted # NoTime

\* The result on display names somebody who did not die: whoever is declared
\* the winner is alive for as long as the result is shown.
WinnerStands ==
  /\ phase # "ended" => winner = NoOne
  /\ phase = "ended" => endedAt # NoTime
  /\ winner \in DOMAIN players => players[winner].alive

\* Health comes back only when the respawn timer has run out, by a reset of the
\* match or by joining anew oneself: nobody is healed or revived before the
\* time, whoever else comes and goes.
NoEarlyRespawn ==
  [][\A id \in DOMAIN players \cap DOMAIN players' :
       players'[id].hp > players[id].hp
         => \/ id \in DOMAIN respawnAt /\ respawnAt[id] = 0
            \/ phase = "ended" /\ phase' = "waiting"
            \/ \E conn \in open' \ open : ID(conn) = id]_vars

\* A match is decided only with at most one player standing, and the result
\* names that player.
DecidedByLastStanding ==
  [][phase = "live" /\ phase' = "ended"
       => \/ Alive(players') = {} /\ winner' = NoOne
          \/ Alive(players') = {winner'}]_vars

\* The engine implements the life of a match it documents: it is that life
\* with the players of the match as members and the living as standing.
Lifecycle == INSTANCE MatchLifecycle
  WITH members <- DOMAIN players, standing <- Alive(players)

\* Every step of the engine is one of the contract's, or none.
ImplementsLifecycle == Lifecycle!Safety

\* The promises of progress of that contract, one by one.  Players in a
\* waiting match see it start: tickWaiting finds a countdown that elapsed.
MatchStarts == Lifecycle!Starts

\* A live match with one player or none ends: checkMatchEnd, every tick.
MatchIsDecided == Lifecycle!IsDecided

\* tickEnded takes a result down after ResetDelay.
MatchReopens == Lifecycle!Reopens

\* Whoever is dead is back, or gone, in the end: processRespawns in a live
\* match, resetMatch in an ended one.
DeadComeBack == Lifecycle!DeadReturn

-----------------------------------------------------------------------------
(* What the comments of engine.go say and the code does not do. *)

\* The comment of PlayerCount: the players of the match are the currently
\* connected ones.  Leave of a superseded connection takes the player of the
\* newer connection out of the match.
PlayerCountIsConnected ==
  DOMAIN players = {ID(conn) : conn \in {c \in open : ID(c) \in Roster}}

\* The connection that leaves is the last one of its player, which the code
\* does not see to.
LeavesAreFinal ==
  [][\A conn \in open \ open' : \A other \in open' : ID(other) # ID(conn)]_vars

\* The comment of processRespawns: it brings back players, so no tick of a
\* live match gives health to the living.  Join keeps the respawn timer of a
\* player who was dead.
RespawnOnlyRevivesDead ==
  [][\A id \in DOMAIN players \cap DOMAIN players' :
       phase = "live" /\ open' = open /\ players[id].alive
         => players'[id].hp <= players[id].hp]_vars

\* Nobody joins with a respawn timer running, which the code allows.
JoinsAreFresh ==
  [][\A conn \in open' \ open : ID(conn) \notin DOMAIN respawnAt]_vars

=============================================================================
