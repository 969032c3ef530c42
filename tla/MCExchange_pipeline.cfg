SPECIFICATION Spec
CONSTANTS
  NoMessage = NoMessage
  Heart = Heart
  Reader = Reader
  Nobody = Nobody
  Broadcast <- TwoBooks
  Callers = {c1}
  SymbolOf <- BothInA
  Verdicts <- FillOrCancel
  Capacity = 1
  ClientCapacity = 1
  MaxCancels = 1
  MaxBeats = 2
  MaxNotices = 1
INVARIANTS
  TypeOK
  DeliveredInOrder
  AnsweredInOrder
  CanceledOnce
  WaitsForNothingElse
  StopsDoneOrUnread
PROPERTIES
  EffortSpent
CHECK_DEADLOCK FALSE
