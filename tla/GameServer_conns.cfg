SPECIFICATION Spec
CONSTANTS
  Players = {a}
  MatchIDs = {m1, m2}
  MaxConns = 2
  BufferSize = 2
  a = a
  m1 = m1
  m2 = m2

INVARIANTS
  TypeOK
  ClientsAreConnections
  InputsPrecedeLeave
PROPERTIES
  ImplementsAttendance
  GoneIsLeft
  StalledIsLeft
