SPECIFICATION Spec
CONSTANTS
  Instances = {g1}
  TTL = 15
  Interval = 6
  MaxCall = 1
  MaxLate = 1
  MaxMissed = 2
  g1 = g1

INVARIANTS
  TypeOK
  RunningStaysListed
PROPERTIES
  CrashedAreNotListed
  ReturnsToListing
