SPECIFICATION Spec
CONSTANTS
  NoPrice = NoPrice
  NoOrder = NoOrder
  OrderIds = {1, 2, 3, 4, 5}
  Prices = {1, 2}
  Times = {1, 2}
  Submissions <- MatchingSubmissions
  MaxCancels = 1
INVARIANT
  FilledNotQueued
