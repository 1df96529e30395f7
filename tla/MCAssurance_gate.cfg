SPECIFICATION FairSpec
CONSTANTS
  ClaimCommits = 3
  TraceCommits = 2
  Trees <- MCTrees
  Edits <- MCEdits
  FirstTrees <- MCFirstTrees
  FirstHistory <- MCHistory
  Targets = {"all", "performance-regression", "forbidden-code", "unknown"}
  Measurements <- MCMeasurements
  NoFile = NoFile
  Torn = Torn
  HistoryCap = 2
  MaxRuns = 2
  MaxEdits = 1
  MaxFaults = 1
INVARIANTS TypeOK VerdictsRight GateDecides EvidenceInOrder
PROPERTIES HistoryKept EveryRunEnds
CHECK_DEADLOCK FALSE
