CONSTANTS
  plain = plain
  credential = credential
  malformed = malformed
  readme = readme
  lib = lib
  secret = secret
  cache = cache
  docs = docs
  notes = notes
  Malformed = {malformed}
  Credentials = {credential}
  Protected = {secret}
  Paths = {1, 2}
  Contents = {c1, c2, big, bin}
  Large = {big}
  Binary = {bin}
  Nothing = Nothing
  MaxWithDiff = 1
  MaxWrites = 2
SPECIFICATION MCSpec
INVARIANTS
  CeilingsHold
  ImagesByComponent
  EnvironmentFiltered
  PathsConfined
  SnapshotsAreExact
  ArtifactsAreAccounted
  SummariesAreTrue
  WinnersAreBest
  OutputIsCapped
  ChangesAreExact
  DiffsAreTrue
CHECK_DEADLOCK FALSE
