SPECIFICATION FairSpec
CONSTANTS
  MaxConns = 2
  MaxSessions = 2
  MaxJobs = 2
  MaxAsks = 2
  MaxFaults = 2
CHECK_DEADLOCK FALSE
INVARIANTS TypeOK HealedIsReset
PROPERTIES ReplacedIsClosed HealthyNotKilled RecoveryEnds
