CONSTANTS
  u1 = u1
  u2 = u2
  u3 = u3
  Threads = {u1, u2, u3}
  MaxConcurrent = 2
  MinInterval = 2
  MaxAttempts = 2
  SchemaRegenerate = 1
SPECIFICATION FairSpec
INVARIANTS
  StampsAreSpaced
PROPERTIES
  CallsEnd
