CONSTANTS
  w1 = w1
  w2 = w2
  t1 = t1
  t2 = t2
  Workers = {w1, w2}
  Tasks = {t1, t2}
  WorkerId <- SharedWorkerId
  LeaseSeconds = 7
  LeaseRenewSeconds = 1
  WakeDelay = 1
  WriteDelay = 1
  MaxMisses = 1
  MaxRetries = 3
  MaxGiveUps = 2
SPECIFICATION FairSpec
INVARIANTS
  HeldLeaseIsLive
PROPERTIES
  ImplementsTaskLease
  AbandonedTaskIsReclaimed
