SPECIFICATION Spec
CONSTANTS
  ClaimCommits = 3
  TraceCommits = 2
  Trees <- DisputedTrees
  Edits = {}
  FirstTrees <- DisputedTrees
  FirstHistory <- MCHistory
  Targets = {"all"}
  Measurements <- MCMeasurements
  NoFile = NoFile
  Torn = Torn
  HistoryCap = 2
  MaxRuns = 1
  MaxEdits = 0
  MaxFaults = 0
INVARIANT LastSourceCommitsTraced
CHECK_DEADLOCK FALSE
