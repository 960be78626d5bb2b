SPECIFICATION FairSpec
CONSTANTS
  None = None
  c1 = c1
  c2 = c2
  r1 = r1
  r2 = r2
  a1 = a1
  a2 = a2
  Callers = {c1}
  Requests = {r1}
  Artifacts = {a1}
  Releases = {1, 2}
  Known <- KnownTwo
  AdoptsRetired = TRUE
  Disks <- LegacyDisks
  UploadChunks = 1
  MaxOps = 2
INVARIANTS
  SelectionKept
PROPERTIES
  ResolvingIsKept
  ImplementsContract
  WorkEnds
