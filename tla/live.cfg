CONSTANTS
  d1 = d1
  d2 = d2
  ann = ann
  eva = eva
  rob = rob
  dev = dev
  h1 = h1
  h2 = h2
  NoUser = NoUser
  InitialRole <- MCRole
  Rendering <- MCRendering
  NoRendering = "empty"
  Users = {dev}
  Docs = {d2}
  InitialDoc = d2
  Publishers = {h1}
  IOFaults = {"export", "draft", "unlink", "rename", "finalize"}
  MaxRevision = 2
  MaxDraftVersion = 2
  MaxAccountsVersion = 1
  MaxCrash = 2
  MaxStall = 1
SPECIFICATION FairSpec
INVARIANTS
  FourEyes
PROPERTIES
  NoPublicationDuringDeployment
  LockIsReleased
  PublisherReturns
