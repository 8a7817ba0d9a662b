CONSTANTS
  d1 = d1
  d2 = d2
  ann = ann
  eva = eva
  rob = rob
  dev = dev
  h1 = h1
  h2 = h2
  NoUser = NoUser
  InitialRole <- MCRole
  Rendering <- MCRendering
  NoRendering = "empty"
  Users = {ann, eva}
  Docs = {d1}
  InitialDoc = d1
  Publishers = {h1, h2}
  IOFaults = {}
  MaxRevision = 2
  MaxDraftVersion = 3
  MaxAccountsVersion = 0
  MaxCrash = 0
  MaxStall = 0
SPECIFICATION Spec
INVARIANTS
  EveryPublicationOnItsBase
SYMMETRY PublisherSymmetry
