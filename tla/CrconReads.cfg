SPECIFICATION MCSpec
CONSTANTS
  r1 = r1
  r2 = r2
  s1 = s1
  s2 = s2
  None = None
  Thread <- MCThread
  Server <- MCServer
  Offered <- MCOffered
  Ttl <- MCTtl
  Conn = {1}
  MaxSize = 1
  LongestRead = 1
  WeekLength = 2
  MaxTime = 3
  MaxMatches = 1
  Controlled = {backup}
  GameServer = {g1, g2}
  Loop = {l1}
  Request = {q1}
  MaxRuns = 2
  Failure = Failure
  Layers = {la, lb}
  Tolerance = 1
  Window = 1
  Second = 2
  SnapshotTtl = 1
  MaxMatch = 2
  MaxKills = 1
  MaxNow = 3
  Player = {p1, p2}
  StabilizationPolls = 2
  MaxPolls = 3
INVARIANTS
  PoolAccounted
  NoLostWakeup
  FinishedMatchShows
  ServerListHonest
  EveryMatchFollowed
  ReportsExplained
  EvidenceIsHistory
SYMMETRY Symm
CHECK_DEADLOCK FALSE
