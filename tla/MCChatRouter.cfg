CONSTANTS
  alice = alice
  bob = bob
  stranger = stranger
  room = room
  NoName = NoName
  Gone = Gone
  Main = Main
  Name <- MCWithStranger
  Contact <- MCContact
  RoomId = {}
  Contains <- MCContains
  MaxRetries = 2
  MaxError = 1
SPECIFICATION FairSpec
INVARIANTS TypeOK CacheMatchesScreen ImageReachesTarget MainTextReachesTarget WindowsAreTargets
PROPERTIES WindowsOnlyForTargets EveryCommandEnds
