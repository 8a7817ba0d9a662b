CONSTANTS
  ann = ann
  dev = dev
  vic = vic
  r1 = r1
  r2 = r2
  h1 = h1
  h2 = h2
  k1 = k1
  k2 = k2
  NoUser = NoUser
  NoRequest = NoRequest
  InitialRole <- MCRole
  Users = {ann, dev}
  Requests = {r1, r2}
  Submitters = {k1, k2}
  Desks = {h1}
  SubmitLimit = 1
  MaxPolicy = 2
  MaxAccountsVersion = 1
  MaxRuns = 1
  MaxLapsed = 1
  MaxCrash = 1
SPECIFICATION Spec
INVARIANTS
  ActionableOnLatestBase
  DecisionsAgree
  QuotaRespected
  TrailIsPath
  OvertakenNeedsNoDeployment
PROPERTIES
  DeployedWhenComplete
  DecidedAsSeen
  ImplementsReviewedRequests
SYMMETRY NameSymmetry
CHECK_DEADLOCK FALSE
CONSTRAINT OneMishap
