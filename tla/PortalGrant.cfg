SPECIFICATION PartsSpec
CONSTANTS
  Helpers = {h1, h2}
  Tokens = {t1, t2, t3}
  None = None
  Kinds = {"wayland", "x11"}
  Logins = {l1, l2}
  Displays = {d1}
  Keys = {key}
  Reads = {r1}
  MaxPending = 4
  MaxFrames = 1
SYMMETRY Symmetry
INVARIANT NeverReplayed
INVARIANT NewestRestores
INVARIANT HeldInSight

