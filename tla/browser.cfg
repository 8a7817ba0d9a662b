CONSTANTS
  ann = ann
  bob = bob
  NoOwner = NoOwner
  NoNetworks = NoNetworks
  NoTerms = NoTerms
  NoKey = NoKey
  Owners = {ann, bob}
  Services = {1, 2}
  Networks = {"n"}
  Terms = {"t"}
  Lists <- MCLists
  Gestures = {"owner", "policy", "networks", "service", "users", "boxes", "rule", "relation", "form", "search"}
  MaxPolicy = 2
  MaxClicks = 2
  MaxFailures = 1
SPECIFICATION FairSpec
INVARIANTS
  UsersFollowSelection
  ButtonsTellTheTruth
  ListAskedAsShown
PROPERTIES
  OnlyWantedUsersAppear
  PageIsUnmasked
  QueuedUsersAreRequested
CHECK_DEADLOCK FALSE
