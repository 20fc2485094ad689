CONSTANTS
  Experiments = {e1, e2}
  Calls = {c1, c2, c3, c4}
  MaxExperiments = 1
  OneAtATime = TRUE
  DockerMayFail = TRUE
  ClientMayCancel = FALSE
  DatabaseMayFail = FALSE
  MaxCrashes = 1
SPECIFICATION Spec
INVARIANTS
  CapacityHeld
  DestroyedIsGone
PROPERTIES
  LifecycleSpec
SYMMETRY Symmetry
CHECK_DEADLOCK FALSE
