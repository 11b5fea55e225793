SPECIFICATION CSpec
CONSTANTS
  Worker = {w1}
  Card = {c1}
  Price <- MCPrice
  Quantity = {1, 2}
  Balance = {40}
  Books <- MCBooks
  Backdated = FALSE
  MaxRequests = 5
PROPERTY ImplementsLedger
CHECK_DEADLOCK FALSE
