CONSTANTS
  d1 = d1
  d2 = d2
  ann = ann
  eva = eva
  rob = rob
  dev = dev
  h1 = h1
  h2 = h2
  NoUser = NoUser
  InitialRole <- MCRole
  Rendering <- MCRendering
  NoRendering = "empty"
  Users = {ann, eva}
  Docs = {d2}
  InitialDoc = d2
  Publishers = {h1, h2}
  IOFaults = {"finalize"}
  MaxRevision = 2
  MaxDraftVersion = 2
  MaxAccountsVersion = 0
  MaxCrash = 1
  MaxStall = 0
SPECIFICATION Spec
INVARIANTS
  TypeOK
  MutualExclusion
  PublishedExactlyOnce
  LinkIsLatestPublication
  PendingRequestOnLatestBase
  RequestPublishedOnItsBase
PROPERTIES
  CommitFollowsLink
  ImplementsReviewedHistory
SYMMETRY PublisherSymmetry
