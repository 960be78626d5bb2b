SPECIFICATION Spec
CONSTANTS
  None = None
  Active = {a}
  Locked = {g}
  Transfers = {t1, t2}
  Window = 1
  MaxFrames = 2
  MaxCommands = 2
  MaxMessages = 1
SYMMETRY Symmetry
INVARIANTS
  HeldInControl
  NothingStalls
PROPERTIES
  TextAlone
