CONSTANTS
  None = None
  Lookback = 1
  BackfillChunk = 1
  BackfillDepth = 3
  EnsureMatches = 2
  RecentKeep = 1
  BatchSize = 1
  Operators = FALSE
  Logged = {"match_start", "match_end", "connected"}
  MaxEvents = 6
  MaxFails = 0
SPECIFICATION AdminSpec
PROPERTIES ProtectedStatsStay
