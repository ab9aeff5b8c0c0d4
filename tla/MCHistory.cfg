CONSTANTS
  chat_a = chat_a
  chat_b = chat_b
  Table <- MCTable
  Message <- MCMessage
  TimeOf <- MCTimeOf
  Wants <- MCWants
  Unreadable <- MCUnreadable
  Renamed <- MCRenamed
  Limits = {1}
  MaxOffset = 1
  IdsInRowOrder = TRUE
  MaxRows = 4
  MaxRuns = 2
  MaxFail = 1
SPECIFICATION FairSpec
INVARIANTS TypeOK MergedPagePresent
PROPERTIES RunComplete RunEnds
CHECK_DEADLOCK FALSE
