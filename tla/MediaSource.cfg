SPECIFICATION FramesSpec
CONSTANTS
  u1 = u1
  u2 = u2
  Units <- MCUnits
  Window = 4
  Overlap = 1
  HfWindow = 3
  HfRatio <- MCRatio
  Threshold = 1
  MinDuration = 3
  MergeGap = 2
  Interval = 2
  Quota = 2
  Videos <- MCVideos
  MaxScans = 2
  Start = 4
  End = 10
  FrameCount = 2
  Ticks = 4
  Slack = 1
  SampleGap = 8
  RingFrames = 2
  RingBytes = 3
  Cases <- MCCases
  Rules <- MCRules
  Replies <- MCReplies
  SchemaTries = 2
  DefaultUnits <- MCDefaultUnits
  HfUnits <- MCHfUnits
  Permits = 1
  Attempts = 2
  MaxFaults = 1
  Clients <- MCClients
  Requests <- MCRequests
  MaxSends = 2
  Planners <- MCUnits
  MaxRecords = 4
  PoolLimit = 3
  BatchSize = 2
  Models = {1, 2}
  MaxRuns = 3
  EmbedTries = 2
  Handlers = {"h1"}
  PrincipalType <- MCPrincipalType
  PolicyLevel <- MCPolicyLevel
  LocationPolicy <- MCLocationPolicy
  CameraSite <- MCCameraSite
  Rows <- MCRows
  FirstRows <- MCFirstRows
  Rulings <- MCRulings
  Ttl = 1
  MaxTime = 2
  MaxChanges = 2
  Writers = {"w1", "w2"}
  Pages = {"records", "audit"}
  MaxWrites = 2
  MaxCommands = 3
  Searches <- MCSearches
  Searchable = {"red"}
  QueryVector <- MCQueryVector
  MaxCandidates = 3
  K = 60
  Unit <- MCUnit
  TopN = 2
  RerankTries = 2
  RerankBodies <- MCRerankBodies
INVARIANTS
  SourceSurvives
CHECK_DEADLOCK FALSE
