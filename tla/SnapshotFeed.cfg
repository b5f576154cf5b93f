CONSTANTS
  KillLimit = 3
  Window = 2
  MaxKills = 4
  MaxSec = 1
  MaxMatch = 2
  MaxStarts = 2
SPECIFICATION FairFeed
INVARIANTS FeedConsistent OneChain
PROPERTY PollingGoesOn
