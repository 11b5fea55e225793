SPECIFICATION Spec
CONSTANTS
  Poller = {p1, p2}
  WindowSize = 1
  Malformed = {1}
  MaxItems = 2
  MaxTime = 2
PROPERTIES
  CaughtUp
CHECK_DEADLOCK FALSE
