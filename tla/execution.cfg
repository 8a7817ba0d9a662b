CONSTANTS
  Size = 3
  Packets = {"p", "q", "r"}
  Below = {"r"}
  Policies = {"ap", "a1", "d1"}
  NoPolicy = "none"
  Action <- MCAction
  Match <- MCMatch
  MaxRuns = 2
  MaxCrash = 1
SPECIFICATION Spec
INVARIANTS
  OpeningsHaveACause
  ReportIsTruthful
CHECK_DEADLOCK FALSE
