SPECIFICATION Spec
CONSTANTS
  Sources = {"pipewire", "x11", "gst"}
  MaxPictures = 2
  MaxGenerations = 2
  MaxCursors = 1
  Window = 1
  Buffers = 3
INVARIANT FramesInOrder
PROPERTY PictureArrives
CHECK_DEADLOCK FALSE
