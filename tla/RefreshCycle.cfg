CONSTANTS
  Day = 12
  FullAt = 2
  SlotTimes <- Slots
  CycleInterval = 3
  RecentInterval = 1
  MaintenanceInterval = 6
  LongestTick = 2
  FullEvery = 2
  MaxRetries = 1
  MaxFaults = 1
SPECIFICATION FairRunner
INVARIANTS CleanCycleShowsAll
PROPERTIES CyclesCatchUp
