SPECIFICATION Spec
CONSTANTS
  Users = {a, b}
  Calls = {c1, c2}
  MaxRows = 2
  a = a
  b = b
  c1 = c1
  c2 = c2
SYMMETRY Symmetry

INVARIANT OneRowPerPair
