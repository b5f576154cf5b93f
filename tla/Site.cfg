CONSTANTS
  Server = {s1, s2}
  Board = {b1, b2}
  FirstServer = s1
  FirstBoard = b1
  Delays = 2
  MaxClicks = 2
  MaxFailures = 1
  None = None
  Filter = {f1, f2}
  FirstFilter = f1
  Player = {p1, p2}
  MaxQueries = 3
  MaxQueryFailures = 2
  NoRows = NoRows
  MaxTruth = 3
  MaxPanelFailures = 1
  Unknown = Unknown
  MaxChanges = 3
  MaxOutages = 3
SPECIFICATION FairSpec
INVARIANT ShownIsSelected
PROPERTIES NeverGoesBack PagesSettle
CHECK_DEADLOCK FALSE
