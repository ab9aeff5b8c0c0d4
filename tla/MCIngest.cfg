CONSTANTS
  message_0 = message_0
  message_1 = message_1
  t0 = t0
  t1 = t1
  Db <- MCDb
  Table <- MCTable
  DbOf <- MCDbOf
  Unreadable <- MCUnreadable
  MaxAttempts = 1
  MaxRow <- MCMaxRow
  MaxCrash = 2
  MaxFail = 1
SPECIFICATION FairSpec
INVARIANTS TypeOK Accounted FedOnce
PROPERTIES DeliverySpec EveryRowHandled
CHECK_DEADLOCK FALSE
