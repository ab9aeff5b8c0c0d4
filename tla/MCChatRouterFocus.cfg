CONSTANTS
  alice = alice
  bob = bob
  stranger = stranger
  room = room
  NoName = NoName
  Gone = Gone
  Main = Main
  Name <- MCContact
  Contact <- MCContact
  RoomId = {}
  Contains <- MCContains
  MaxRetries = 2
  MaxError = 0
SPECIFICATION Spec
INVARIANT TextReachesTarget
