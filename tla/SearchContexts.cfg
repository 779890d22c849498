CONSTANTS
  q1 = q1
  q2 = q2
  o1 = o1
  o2 = o2
  Requests = {q1, q2}
  Records = {o1, o2}
  MaxRevisions = 2
  MaxBatch = 1
  Ttl = 0
  Idle = 0
  MaxTime = 1
SPECIFICATION Spec
SYMMETRY Symmetry
CHECK_DEADLOCK FALSE
INVARIANTS
  ResultsAreCurrent
  RefineNarrows
  RevisionLimitHolds
PROPERTIES
  EndedContextStaysEnded
