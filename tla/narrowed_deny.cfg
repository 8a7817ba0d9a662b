CONSTANTS
  Size = 2
  Packets = {"p", "q", "r"}
  Below = {"r"}
  Policies = {"ap", "a1", "d1", "e1"}
  NoPolicy = "none"
  Action <- MCAction
  Match <- MCMatch
  MaxRuns = 1
  MaxCrash = 0
SPECIFICATION Spec
INVARIANTS
  NoTransientOpening
CHECK_DEADLOCK FALSE
