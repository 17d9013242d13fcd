SPECIFICATION FairSpec
CONSTANTS
  MaxAttempts = 2
  MaxSockets = 3
  MaxCalls = 4
  MaxFaults = 3
CHECK_DEADLOCK FALSE
INVARIANTS TypeOK ConnectsAreAnswered
PROPERTIES  StrandedOnlyBy 
