SPECIFICATION FairSpec
CONSTANTS
  Rooms = {TRUE, FALSE}
  Slots = {a, b}
  Drops = 3
CHECK_DEADLOCK FALSE
INVARIANTS TypeOK AnnouncedIsHeard AudioKeepsRejection
PROPERTIES SeedRestored PlayRecovers
