SPECIFICATION Spec
CONSTANTS
  MaxGenerations = 2
  MaxEvents = 1
  Capacity = 2
INVARIANT NothingOlder
PROPERTY ScreenArrives
CHECK_DEADLOCK FALSE
