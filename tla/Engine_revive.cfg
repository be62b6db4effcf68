SPECIFICATION Spec
CONSTANTS
  PlayerIDs = {a, b, c}
  Roster = {a, b, c}
  MaxConns = 2
  BulletSlots = {s1}
  ItemIDs = {}
  CornerRing = 1
  PlayerStartHP = 2
  PlayerMaxArmour = 0
  ArmourPickupAmount = 1
  BulletDamage = 2
  BulletLife = 2
  FireRate = 0
  ZoneInitialRadius = 1
  ZoneMinRadius = 0
  ZoneShrinkAmount = 1
  ZoneShrinkInterval = 1
  ZoneDamagePerTick = 1
  MatchStartDelay = 1
  RespawnDelay = 2
  ResetDelay = 1
  NoOne = NoOne
  a = a
  b = b
  c = c
  s1 = s1

SYMMETRY PlayerSymmetry
PROPERTY RespawnOnlyRevivesDead
