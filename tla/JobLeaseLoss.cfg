CONSTANTS
  w1 = w1
  w2 = w2
  d1 = d1
  d2 = d2
  h1 = h1
  Workers = {w1, w2}
  DefaultUnits = {d1, d2}
  HighFreqUnits = {h1}
  Scales = {"default_segment"}
  PoolSize = 2
  MaxRetries = 3
  OrphanRecovery = TRUE
  OrphanBatch = 1
  Faults = {"lease", "unit", "skip", "write", "slow"}
  MaxCrashes = 2
SPECIFICATION Spec
SYMMETRY Symmetry
INVARIANTS
  UsableJobHasBaseline
CHECK_DEADLOCK FALSE
