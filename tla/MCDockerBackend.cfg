CONSTANTS
  s1 = s1
  s2 = s2
  Sandboxes = {s1, s2}
  Networks = {n1}
  Builtin = Builtin
  NoOne = NoOne
  MaxCrashes = 1
  c1 = c1
  c2 = c2
  Commands = {c1, c2}
  SandboxOf <- ToTheFirst
  Threads = 2
  DockerMayFail = TRUE
SPECIFICATION MCSpec
INVARIANTS
  TypeOK
  NothingIsLeft
  NetworkIsPrivate
  HandleIsUsable
  OrphansAreSwept
  SurvivorsAreKnown
  CompletedIsOver
PROPERTIES
  CommandsSpec
  EveryCommandReturns
CHECK_DEADLOCK FALSE
