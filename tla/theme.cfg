CONSTANTS
  p1 = p1
  p2 = p2
  p3 = p3
  Pages = {p1, p2, p3}
  Blocked = {p3}
  Hasty = FALSE
  MaxWrites = 3
  MaxTurns = 1
SPECIFICATION FairSpec
INVARIANTS
  SwitchesTellTheTruth
  NewsLeadToStored
PROPERTIES
  PagesAgree
CHECK_DEADLOCK FALSE
