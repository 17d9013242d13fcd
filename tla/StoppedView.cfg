SPECIFICATION FairSpec
CONSTANTS
  MaxCalls = 3
  MaxFaults = 2
CHECK_DEADLOCK FALSE
PROPERTIES RetryRespectsStop
