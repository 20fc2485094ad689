CONSTANTS
  Experiments = {e1, e2}
  Calls = {c1, c2}
  MaxExperiments = 1
  OneAtATime = FALSE
  DockerMayFail = FALSE
  ClientMayCancel = FALSE
  DatabaseMayFail = FALSE
  MaxCrashes = 0
SPECIFICATION Spec
INVARIANTS
  CeilingHeld
SYMMETRY Symmetry
CHECK_DEADLOCK FALSE
