SPECIFICATION PartsSpec
CONSTANTS
  None = None
  d1 = d1
  d2 = d2
  Digests <- MCDigests
  Disks <- AllDisks
  Docs = {o1, o2}
  Exported = {f1}
  MaxCalls = 3
  MaxDocuments = 2
  MaxWaiting = 2
  Removed = Removed
  Pids = {p1, p2, p3}
  Sup = sup
  Other = other
  MaxStarts = 3
  MaxReferences = 1
INVARIANTS
  RunsCommitted
  RecoveryRestores
PROPERTIES
  ImplementsContract
  NothingTaken
  OnlyOwn
SYMMETRY Symmetry
