CONSTANTS
  e1 = e1
  JobIds = {j1, j2}
  Experiments = {e1}
  ExperimentOf <- OneExperiment
  MaxConcurrentJobs = 1
  Callers = {c1}
  NoOne = NoOne
  DatabaseMayFail = TRUE
  MaxCrashes = 1
SPECIFICATION FairSpec
PROPERTIES
  EveryTaskEnds
  EveryCallReturns
CHECK_DEADLOCK FALSE
