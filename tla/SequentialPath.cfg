CONSTANTS
  d1 = d1
  d2 = d2
  d3 = d3
  h1 = h1
  h2 = h2
  DefaultUnits = {d1, d2, d3}
  HighFreqUnits = {h1, h2}
  PoolSize = 2
  MaxAttempts = 2
  MaxRestarts = 2
SPECIFICATION Spec
SYMMETRY Symmetry
INVARIANTS
  FinishedPassIsSettled
  UsableJobIsBacked
CHECK_DEADLOCK FALSE
