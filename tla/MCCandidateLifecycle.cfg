SPECIFICATION Spec
CONSTANTS
  Entry = {e1}
  Price <- MCPrice
  Limit <- MCLimit
  Worker = {w1, w2}
  Responder = {r1, r2}
  MaxCycles = 2
SYMMETRY Symmetry
INVARIANTS
  TypeOK
  VerdictMatchesEvidence
  NoOtherSurvivors
PROPERTIES
  ResolvedStaysResolved
CHECK_DEADLOCK FALSE
