SPECIFICATION FairSpec
CONSTANTS
  NoPrice = NoPrice
  NoOrder = NoOrder
  OrderIds = {1, 2, 3, 4, 5}
  Prices = {1, 2}
  Times = {1, 2}
  Submissions <- LifecycleSubmissions
  MaxCancels = 2
INVARIANTS
  BookConsistent
  LevelsMatchOrders
  WithdrawnNotQueued
  NoTradeAfterClose
PROPERTIES
  HandlerShrinks
  HandlerTerminates
  KeepsPromises
