SPECIFICATION FairSpec
CONSTANTS
  NumPayments = 3
  NumRefunds = 1
  Quotes <- MCQuotes
  TransferDays = 1
  ResponseTime = 1
  RemindDays = 1
  Starts = {2, 3}
  MaxTime = 3
INVARIANTS
  TypeOK
  BookingFollowsOrder
  OrderFollowsLedger
  AwaitedCoversTheRest
PROPERTIES
  PendingEnds
CHECK_DEADLOCK FALSE
