CONSTANTS
  worker = worker
  runner = runner
  live = live
  Process = {worker, runner, live}
  Historical = {worker, runner}
  Serial = {1, 2}
  Map = {m1, m2}
  Gap = 1
  MaxTime = 2
  MaxFaults = 1
  None = None
SPECIFICATION FairSpec
INVARIANTS OneHeavyCapture StoredInStep
PROPERTIES CapturesGoOn

