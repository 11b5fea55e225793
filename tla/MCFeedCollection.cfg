SPECIFICATION Spec
CONSTANTS
  Poller = {p1, p2}
  WindowSize = 2
  Malformed = {2}
  MaxItems = 3
  MaxTime = 2
INVARIANTS
  TypeOK
  EtagNeverAhead
  NoSilentGap
SYMMETRY Symmetry
CHECK_DEADLOCK FALSE
