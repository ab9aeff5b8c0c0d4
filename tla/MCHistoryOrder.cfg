CONSTANTS
  chat_a = chat_a
  chat_b = chat_b
  Table <- MCOneTable
  Message <- MCThree
  TimeOf <- MCOneSecond
  Wants <- MCThree
  Unreadable <- MCNone
  Renamed <- MCNone
  Limits = {1, 2}
  MaxOffset = 10
  IdsInRowOrder = FALSE
  MaxRows = 3
  MaxRuns = 1
  MaxFail = 0
SPECIFICATION Spec
INVARIANTS MergedPagePresent
CHECK_DEADLOCK FALSE
