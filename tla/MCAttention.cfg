SPECIFICATION FairSpec
CONSTANTS
  Twice = twice
  Once = once
  Card = {twice, once}
  Place <- MCPlace
  Signal <- MCSignal
  Age = {100, 900}
  Worker = {w1, w2}
  MaxChanges = 2
INVARIANTS
  TypeOK
  TargetsAreDecided
  WatchedFirst
PROPERTIES
  TargetsCatchUp
CHECK_DEADLOCK FALSE
