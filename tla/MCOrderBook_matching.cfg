SPECIFICATION Spec
CONSTANTS
  NoPrice = NoPrice
  NoOrder = NoOrder
  OrderIds = {1, 2, 3, 4}
  Prices = {1, 2}
  Times = {1}
  Submissions <- MatchingSubmissions
  MaxCancels = 1
INVARIANTS
  TypeOK
  BookConsistent
  LevelsMatchOrders
  FillsMatchTrades
  NoOverfill
  FillReportsMatchTrades
  TradesWithinLimits
  SweepsBestFirst
  HandlerGoesOn
PROPERTIES
  KeepsPromises
