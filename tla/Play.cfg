SPECIFICATION FairSpec
CONSTANTS
  Mode = "play"
  Uuids = {p1, p2}
  SessionIds = {}
  Streams = {own}
  OwnStream = own
  Blank = Blank
  DcThreads = {dc1}
  IxKinds = {"offer"}
  DcKinds = {"offer"}
  MaxPeers = 2
  MaxPendingIce = 1
  MaxGlobalIce = 1
  MaxConns = 2
  MaxCands = 0
  MaxStarts = 1
CHECK_DEADLOCK FALSE
INVARIANTS OneGenerationPerStream
PROPERTIES RetiredIsReleased StopTerminates
