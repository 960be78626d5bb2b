SPECIFICATION Spec
CONSTANTS
  MaxConnections = 2
  MaxRequests = 2
  MaxScenes = 2
  MaxLines = 1
  MaxQueue = 1
  SlotCount = 1
  Route = "wayland"
  Kinds <- Steering
  Events <- Everything
INVARIANTS
  OnlyControllerInput
CHECK_DEADLOCK FALSE
