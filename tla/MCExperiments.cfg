CONSTANTS
  Experiments = {e1}
  Calls = {c1, c2, c3}
  MaxExperiments = 1
  OneAtATime = FALSE
  DockerMayFail = FALSE
  ClientMayCancel = TRUE
  DatabaseMayFail = TRUE
  MaxCrashes = 1
SPECIFICATION Spec
INVARIANTS
  TypeOK
  
  AnsweredCreateKept
  FailedCreateCleansUp
  DestroyRemoves
SYMMETRY Symmetry
CHECK_DEADLOCK FALSE
