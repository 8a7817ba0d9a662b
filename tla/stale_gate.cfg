CONSTANTS
  Targets = {t1}
  Rules = {r}
  Publishers = {p1, p2}
  Deployers = {h1}
  MaxPublications = 3
  MaxRuns = 2
  MaxFaults = 0
SPECIFICATION Spec
INVARIANTS
  TrustworthyBaseline
CHECK_DEADLOCK FALSE
SYMMETRY Symmetry
