CONSTANTS
  runner = runner
  manual = manual
  Refresher = {runner, manual}
  Job <- Jobs
  PeriodLength = 2
  EarlyTicks = 1
  MinMatches = 1
  RecentLimit = 2
  StartTime = 3
  MaxTime = 4
  MaxKills = 1
  NoJob = NoJob
  NoSnapshot = NoSnapshot
SPECIFICATION FairSpec
PROPERTIES ShownNeverRegresses RankingKeepsMatches ModelsCatchUp DocumentSurvives
CHECK_DEADLOCK FALSE
