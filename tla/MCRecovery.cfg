CONSTANTS
  chat_a = chat_a
  chat_b = chat_b
  shard_0 = shard_0
  shard_1 = shard_1
  Table <- MCTable
  DbOf <- MCDbOf
  Names <- MCNames
  Row <- MCRow
  TableOf <- MCTableOf
  TimeOf <- MCTimeOf
  Own = {2}
  Capacity = 1
  WireCapacity = 1
  Overlap = 1
  Skew = 1
  MaxFaults = 2
SPECIFICATION FairSpec
INVARIANTS TypeOK NoMessageLost ProcessedOnce
PROPERTIES EveryMessageArrives
CHECK_DEADLOCK FALSE
