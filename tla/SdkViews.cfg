SPECIFICATION FairSpec
CONSTANTS
  MaxCalls = 3
  MaxFaults = 3
CHECK_DEADLOCK FALSE
INVARIANTS TypeOK NotForgotten RecordIsDue
PROPERTIES ViewReturns
