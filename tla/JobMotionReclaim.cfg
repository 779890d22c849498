CONSTANTS
  w1 = w1
  w2 = w2
  d1 = d1
  d2 = d2
  h1 = h1
  Workers = {w1, w2}
  DefaultUnits = {d1, d2}
  HighFreqUnits = {h1}
  Scales = {"default_segment", "motion_scan", "high_freq_event"}
  PoolSize = 2
  MaxRetries = 3
  OrphanRecovery = TRUE
  OrphanBatch = 1
  Faults = {}
  MaxCrashes = 1
SPECIFICATION FairSpec
PROPERTIES
  JobSettles
CHECK_DEADLOCK FALSE
