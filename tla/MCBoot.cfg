CONSTANTS
  Main = main
  Caller = {caller}
  Heartbeat = heartbeat
  MaxBus = 2
  Others <- MCOthers
  MaxTimeouts = 1
  MaxEnds = 1
  MaxFails = 2
  Limit = 2
  Period = 2
  KeyTries = 1
SPECIFICATION FairSpec
INVARIANTS TypeOK CalmLookFinds
PROPERTIES ConnectionRecovers LoginIsSeen
