SPECIFICATION ApplicationSpec
CONSTANTS
  Parts = {"application"}
  Plans <- OnePortal
  WriteFaults = FALSE
  MaxDead = 1
  Pids = {p1, p2}
  Sup = sup
  Other = other
  MaxStarts = 4
  Writers = {w1}
  MaxPastes = 0
INVARIANTS
  ExitedWhole
  StrangersSpared
PROPERTIES
  SupervisionEnds
CHECK_DEADLOCK FALSE
