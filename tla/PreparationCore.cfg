SPECIFICATION PartsSpec
CONSTANTS
  None = None
  c1 = c1
  c2 = c2
  r1 = r1
  r2 = r2
  a1 = a1
  a2 = a2
  Callers <- MCCallers
  Requests <- MCRequests
  Artifacts <- MCArtifacts
  Releases = {1}
  Known <- KnownOne
  AdoptsRetired = FALSE
  Disks <- FreshDisks
  UploadChunks = 1
  MaxOps = 2
  Viewers = {1, 2}
  Stamps = {1, 2, 3}
  MaxQueue = 1
  MaxFragments = 2
  MaxMarker = 2
  ICs = {ic}
  MaxMessages = 1
  MaxTroubles = 1
SYMMETRY Symmetry
INVARIANTS
  NoUnverifiedActivation
  NeverWedged
  ObserverNotStale
  NothingPassesText
PROPERTIES
  RequestsHonoured
  KeepsContract
