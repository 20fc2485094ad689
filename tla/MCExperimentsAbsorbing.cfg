CONSTANTS
  Experiments = {e1}
  Calls = {c1, c2, c3}
  MaxExperiments = 1
  OneAtATime = FALSE
  DockerMayFail = FALSE
  ClientMayCancel = FALSE
  DatabaseMayFail = FALSE
  MaxCrashes = 0
SPECIFICATION FairSpec
PROPERTIES
  DestroyedIsAbsorbing
CHECK_DEADLOCK FALSE
