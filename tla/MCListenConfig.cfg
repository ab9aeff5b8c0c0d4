CONSTANTS
  NoName = no_name
  Name = {alice, bob, carol}
  Awkward = {carol}
  Admin = {console}
  Caller = {caller}
  Boot = boot
  Patient = TRUE
  MaxCommands = 3
  MaxKills = 2
  MaxFail = 1
SPECIFICATION FairSpec
INVARIANTS TypeOK PromisedIsSaved
PROPERTIES ReloadApplies PromisedIsRestored
CHECK_DEADLOCK FALSE
