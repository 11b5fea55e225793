SPECIFICATION Spec
CONSTANTS
  Card = {c1}
  Price <- MCPrice
  Quantity = {1, 2}
  Balance = {0, 90}
  Books <- MCBooks
  Backdated = FALSE
  MaxRequests = 5
INVARIANTS
  TypeOK
  PositionsFollowTrades
  CashIdentity
  DerivedBooksShrink
PROPERTIES
  BasisDriftBounded
  BoughtOutListingLeavesMark
CHECK_DEADLOCK FALSE
