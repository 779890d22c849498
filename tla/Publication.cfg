CONSTANTS
  p1 = p1
  p2 = p2
  p3 = p3
  j1 = j1
  j2 = j2
  k1 = k1
  k2 = k2
  r1 = r1
  r2 = r2
  r3 = r3
  r4 = r4
  Publishers = {p1, p2, p3}
  Jobs = {j1, j2}
  Keys = {k1, k2}
  Records = {r1, r2, r3, r4}
SPECIFICATION Spec
SYMMETRY Symmetry
INVARIANTS
  RecordsAreConsistent
  SummariesAreComplete
CHECK_DEADLOCK FALSE
