SPECIFICATION FairSpec
CONSTANTS
  MaxRows = 4
  min_queue_length = 2
  MaxRaises = 2
CHECK_DEADLOCK FALSE
INVARIANTS
  RowsConserved
  DeliveredInOrder
PROPERTIES
  SilentOnceUnsubscribed
  CompletionDelivers
  UnsubscribeReturns
