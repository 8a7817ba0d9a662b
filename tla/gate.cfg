CONSTANTS
  Targets = {t1, t2}
  Rules = {r}
  Publishers = {p1, p2}
  Deployers = {h1, h2}
  MaxPublications = 3
  MaxRuns = 3
  MaxFaults = 1
SPECIFICATION Spec
INVARIANTS
  GateIsTruthful
  NoSupersededRun
PROPERTIES
  ImplementsGatedReleases
CHECK_DEADLOCK FALSE
SYMMETRY Symmetry
