CONSTANTS
  Backends = {"b1", "b2"}
  Actors = {a1, a2}
  Configs <- AllConfigs
  NoActor = NoActor
  MaxBox = 2
SPECIFICATION FairSpec
INVARIANTS TypeOK RouterSound RunningIsConfigured TableRight
PROPERTY NoLingering
