SPECIFICATION Spec
SYMMETRY PartiesAndStreams
CONSTANTS
  Mode = "play"
  Uuids = {p1}
  SessionIds = {s1}
  Streams = {own, other}
  OwnStream = own
  Blank = Blank
  DcThreads = {dc1}
  IxKinds = {"offer"}
  DcKinds = {"offer", "candidate"}
  MaxPeers = 2
  MaxPendingIce = 1
  MaxGlobalIce = 1
  MaxConns = 2
  MaxCands = 0
  MaxStarts = 1
CHECK_DEADLOCK FALSE
PROPERTIES StaleCallbackInert
