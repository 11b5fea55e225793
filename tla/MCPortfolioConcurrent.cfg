SPECIFICATION CSpec
CONSTANTS
  Worker = {w1, w2}
  Card = {c1}
  Price <- MCPrice
  Quantity = {1}
  Balance = {40}
  Books <- MCBooks
  Backdated = FALSE
  MaxRequests = 5
INVARIANTS
  LostNotInvented
  NoRaceNoLoss
PROPERTIES
  EveryRequestCompletes
CHECK_DEADLOCK FALSE
