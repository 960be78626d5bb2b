SPECIFICATION SessionSpec
CONSTANTS
  Parts = {"session", "text"}
  Plans <- OnePortal
  WriteFaults = TRUE
  MaxDead = 2
  Pids = {p1}
  Sup = sup
  Other = other
  MaxStarts = 0
  Writers = {w1, w2}
  MaxPastes = 2
INVARIANTS
  ApplicationUndisturbed
  ConfirmedWasRead
PROPERTIES
  LaunchedWhole
  SessionEnds
  PasteSettles
CHECK_DEADLOCK FALSE
