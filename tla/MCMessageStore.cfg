CONSTANTS
  m1 = m1
  m2 = m2
  reader = reader
  Message <- MCMessage
  Reader <- MCReader
  LegacyCaller = {k1, k2}
  Wants <- MCWants
  Capacity = 2
  Limits = {1, 2}
  MaxCursor = 3
SPECIFICATION FairSpec
INVARIANTS TypeOK BufferIsNewest ReaderSkipsNothing ReaderRepeatsNothing LegacyDropsNothing
PROPERTY PollingReaderCatchesUp
CHECK_DEADLOCK FALSE
