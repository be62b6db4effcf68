SPECIFICATION Spec
CONSTANTS
  Players = {a, b}
  Instances = {g1}
  MinPlayersPerMatch = 2
  MaxMatches = 1
  MaxListed = 1
  MaxWaiting = 3
  a = a
  b = b
  g1 = g1

SYMMETRY Symmetry
INVARIANT NoDuplicateWaiting
