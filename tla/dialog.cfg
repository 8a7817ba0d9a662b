CONSTANTS
  a = a
  b = b
  s = s
  t = t
  NoRule = NoRule
  Owners = {a}
  Services = {s, t}
  Objects = {"net", "dns"}
  Fqdns = {"dns"}
  RuleValues <- MCRuleValues
  Dialogs = {1}
  MaxPolicy = 2
  MaxTurns = 2
  MaxContexts = 2
  MaxLost = 1
  MaxPosts = 2
SPECIFICATION Spec
INVARIANTS
  StoredOnce
PROPERTIES
  ActsOnSelection
  StoredChangeIsPossible
CHECK_DEADLOCK FALSE
