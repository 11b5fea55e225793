SPECIFICATION Spec
CONSTANTS
  Judging = {parsebot}
  Trusting = {futdb}
  Price <- MCPrice
  Worker = {w1, w2}
  MaxPolls = 3
  MaxTime = 6
SYMMETRY Symmetry
INVARIANTS
  OnlyPCRanked
CHECK_DEADLOCK FALSE
