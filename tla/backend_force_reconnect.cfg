CONSTANTS
  MaxFailures = 2
  Cooldown = 2
  HealthInterval = 2
  MaxBackoff = 2
  MaxAttempts = 2
  ServerModes <- AllModes
  Requests <- OperatorRequests
  MaxPending = 4
  FailureBound = 3
SPECIFICATION FairSpec
INVARIANT AlwaysRetries
