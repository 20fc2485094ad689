CONSTANTS
  e1 = e1
  JobIds = {j1, j2}
  Experiments = {e1}
  ExperimentOf <- OneExperiment
  MaxConcurrentJobs = 1
  Callers = {c1, c2}
  NoOne = NoOne
  DatabaseMayFail = TRUE
  MaxCrashes = 1
SPECIFICATION Spec
INVARIANTS
  TypeOK
  PermitsConserved
  LiveTaskRegistered
  RegistryForgets
  EndedJobIsDurable
  AnswersAreFinal
PROPERTIES
  TerminalRowIsFinal
  TerminalStatusIsFinal
SYMMETRY Symmetry
CHECK_DEADLOCK FALSE
