SPECIFICATION Spec
CONSTANTS
  PlayerIDs = {a, b, c, z}
  Roster = {a, b, c}
  MaxConns = 2
  BulletSlots = {s1}
  ItemIDs = {i1}
  CornerRing = 1
  PlayerStartHP = 1
  PlayerMaxArmour = 1
  ArmourPickupAmount = 1
  BulletDamage = 1
  BulletLife = 2
  FireRate = 0
  ZoneInitialRadius = 1
  ZoneMinRadius = 0
  ZoneShrinkAmount = 1
  ZoneShrinkInterval = 1
  ZoneDamagePerTick = 1
  MatchStartDelay = 1
  RespawnDelay = 2
  ResetDelay = 1
  NoOne = NoOne
  a = a
  b = b
  c = c
  z = z
  s1 = s1
  i1 = i1

SYMMETRY PlayerSymmetry
INVARIANTS
  TypeOK
  RespawnsNameMembers
  DeadAreScheduled
  ClientsServePlayers
  FreshWhileWaiting
  CountdownRunsForMembers
  AliveMeansHealth
  WinnerStands
PROPERTIES
  NoEarlyRespawn
  DecidedByLastStanding
