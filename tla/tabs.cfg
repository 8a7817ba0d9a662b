CONSTANTS
  a = a
  b = b
  NoOwner = NoOwner
  Owners = {a, b}
  Networks = {1, 2}
  Owned <- MCOwned
  MaxPolicy = 2
  MaxClicks = 3
  MaxTurns = 1
  MaxFailures = 1
SPECIFICATION Spec
INVARIANTS
  IndicatorTruthful
  ActiveTabAskedForOwner
  ComparisonIsOlder
CHECK_DEADLOCK FALSE
