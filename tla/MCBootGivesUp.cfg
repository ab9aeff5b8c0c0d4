CONSTANTS
  Main = main
  Caller = {}
  Heartbeat = heartbeat
  MaxBus = 1
  Others <- MCOthers
  MaxTimeouts = 2
  MaxEnds = 0
  MaxFails = 2
  Limit = 2
  Period = 2
  KeyTries = 1
SPECIFICATION FairSpec
PROPERTY DatabaseFollowsLogin
