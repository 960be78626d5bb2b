SPECIFICATION Spec
CONSTANTS
  Viewers = {v1, v2}
  Negotiating = {v1}
  MaxEvents = 1
  MaxAttaches = 2
INVARIANT PicturesWhole
PROPERTY ViewerSettles
CHECK_DEADLOCK FALSE
