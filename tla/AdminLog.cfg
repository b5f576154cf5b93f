CONSTANTS
  None = None
  Lookback = 1
  BackfillChunk = 1
  BackfillDepth = 3
  EnsureMatches = 2
  RecentKeep = 1
  BatchSize = 1
  Operators = FALSE
  Logged = {"match_start", "match_end", "kill", "connected", "disconnected"}
  MaxEvents = 8
  MaxFails = 1
SPECIFICATION MCSpec
INVARIANTS BoundedRowIsMatch
PROPERTIES RunDerivesKills RunDerivesActiveTime
