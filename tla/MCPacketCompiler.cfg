\* Two runs, thirteen command lines, four paths.
CONSTANTS
  r1 = r1
  r2 = r2
  Runs = {r1, r2}
  a = a
  b = b
  p = p
  q = q
  Files = {a, b, p, q}
  NoPath = NoPath
  Default = NoPath
  WithSuffix <- Sidecar
  Earlier = Earlier
  Options <- TheOptions
SPECIFICATION Spec
INVARIANTS
  ProvenanceTrue
  PairMatches
  FailedRunKeepsFiles
PROPERTIES
  EiaNeverGoesBack
\* Every run ends.
CHECK_DEADLOCK FALSE
