CONSTANTS
  e1 = e1
  JobIds = {j1, j2}
  Experiments = {e1}
  ExperimentOf <- OneExperiment
  MaxConcurrentJobs = 1
  Callers = {c1}
  NoOne = NoOne
  DatabaseMayFail = FALSE
  MaxCrashes = 0
SPECIFICATION Spec
INVARIANTS
  AccessSerialised
SYMMETRY Symmetry
CHECK_DEADLOCK FALSE
