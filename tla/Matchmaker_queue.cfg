SPECIFICATION Spec
CONSTANTS
  Players = {a, b, c}
  Instances = {g1, g2}
  MinPlayersPerMatch = 2
  MaxMatches = 1
  MaxListed = 2
  MaxWaiting = 3
  a = a
  b = b
  c = c
  g1 = g1
  g2 = g2

INVARIANTS
  TypeOK
  NoPlayerLost
PROPERTIES
  CreatedOnce
  NobodyIsOvertaken
  ImplementsContract
  PassEnds
  QueueIsTried
