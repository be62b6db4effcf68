SPECIFICATION Spec
CONSTANTS
  Players = {a, b}
  Instances = {g1}
  Steady = {a}
  MinPlayersPerMatch = 2
  MaxMatches = 1
  MaxWaiting = 2
  MaxInFlight = 1
  a = a
  b = b
  g1 = g1

PROPERTY ReturnFindsAnother
