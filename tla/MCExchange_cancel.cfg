SPECIFICATION Spec
CONSTANTS
  NoMessage = NoMessage
  Heart = Heart
  Reader = Reader
  Nobody = Nobody
  Broadcast <- TwoBooks
  Callers = {c1}
  SymbolOf <- BothInA
  Verdicts <- FillOrCancel
  Capacity = 1
  ClientCapacity = 1
  MaxCancels = 1
  MaxBeats = 0
  MaxNotices = 0
PROPERTIES
  CanceledIsFinal
CHECK_DEADLOCK FALSE
