SPECIFICATION Spec
CONSTANTS
  PlayerIDs = {a, b, z}
  Roster = {a, b}
  MaxConns = 2
  BulletSlots = {s1, s2}
  ItemIDs = {i1}
  CornerRing = 2
  PlayerStartHP = 2
  PlayerMaxArmour = 1
  ArmourPickupAmount = 1
  BulletDamage = 1
  BulletLife = 2
  FireRate = 1
  ZoneInitialRadius = 1
  ZoneMinRadius = 0
  ZoneShrinkAmount = 1
  ZoneShrinkInterval = 1
  ZoneDamagePerTick = 1
  MatchStartDelay = 1
  RespawnDelay = 1
  ResetDelay = 1
  NoOne = NoOne
  a = a
  b = b
  z = z
  s1 = s1
  s2 = s2
  i1 = i1

INVARIANT PlayerCountIsConnected
