SPECIFICATION Spec
CONSTANTS
  PlayerIDs = {a, b, c, z}
  Roster = {a, b, c}
  MaxConns = 1
  BulletSlots = {s1, s2}
  ItemIDs = {}
  CornerRing = 1
  PlayerStartHP = 1
  PlayerMaxArmour = 0
  ArmourPickupAmount = 1
  BulletDamage = 1
  BulletLife = 2
  FireRate = 0
  ZoneInitialRadius = 1
  ZoneMinRadius = 0
  ZoneShrinkAmount = 1
  ZoneShrinkInterval = 1
  ZoneDamagePerTick = 1
  MatchStartDelay = 1
  RespawnDelay = 2
  ResetDelay = 2
  NoOne = NoOne
  a = a
  b = b
  c = c
  z = z
  s1 = s1
  s2 = s2

PROPERTIES
  ImplementsLifecycle
  MatchStarts
  MatchIsDecided
  MatchReopens
  DeadComeBack
