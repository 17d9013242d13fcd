SPECIFICATION Spec
SYMMETRY Parties
CONSTANTS
  Mode = "publish"
  Uuids = {v1, v2}
  SessionIds = {}
  Streams = {own}
  OwnStream = own
  Blank = Blank
  DcThreads = {}
  IxKinds = {"request", "offer", "answer", "candidate", "lost"}
  DcKinds = {}
  MaxPeers = 1
  MaxPendingIce = 1
  MaxGlobalIce = 1
  MaxConns = 3
  MaxCands = 1
  MaxStarts = 2
CHECK_DEADLOCK FALSE
INVARIANTS TypeOK TableConsistent ResourcesBounded NoneStranded
  StopLeavesNothing
PROPERTIES CandidatesKept EachReleasedOnce
