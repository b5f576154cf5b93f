CONSTANTS
  None = None
  PageSizes = {2}
  PageLimits = {1, 4}
  Overlap = 1
  MaxMatches = 5
  MaxFails = 2
  foy = foy
  carentan = carentan
  Played <- Season
  Near = 2
  Far = 4
  MinConfidence = 5
  CandidateLimit = 4
  LongestLag = 1
  MaxToolPages = 2
SPECIFICATION MCSpec
INVARIANTS ResumeSkipsNothing ExhaustedMeansComplete LinkedToItsOwn
PROPERTIES RefreshReachesCutoff BootstrapFinishes
