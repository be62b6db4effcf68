SPECIFICATION Spec
CONSTANTS
  Users = {a, b, d}
  Calls = {c1, c2, c3}
  MaxRows = 2
  a = a
  b = b
  d = d
  c1 = c1
  c2 = c2
  c3 = c3
SYMMETRY Symmetry

INVARIANTS TypeOK DuplicatesOverlapped ListedOnce
PROPERTY ChangedByParticipants
