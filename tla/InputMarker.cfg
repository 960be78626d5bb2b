SPECIFICATION LiveSpec
CONSTANTS
  MaxConnections = 2
  MaxRequests = 3
  MaxScenes = 1
  MaxLines = 2
  MaxQueue = 1
  SlotCount = 2
  Route = "marker"
  Kinds <- Typing
  Events <- Toolkit
INVARIANTS
  AnsweredOnce
PROPERTIES
  ImplementsContract
  MarkerSafe
  NeverWaits
CHECK_DEADLOCK FALSE
