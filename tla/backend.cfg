CONSTANTS
  MaxFailures = 2
  Cooldown = 3
  HealthInterval = 2
  MaxBackoff = 3
  MaxAttempts = 2
  ServerModes <- AllModes
  Requests <- AllRequests
  MaxPending = 4
  FailureBound = 3
SPECIFICATION FairSpec
INVARIANTS TypeOK ConnectedSane NotStranded AdvertisedServed
INVARIANTS SingleReconnectLoop RecoveryPending RegistryAgrees HealthWatched
PROPERTIES CooldownRespected Recovers OutageNoticed StopTakesEffect
