CONSTANTS
  Backends = {"b1"}
  Actors = {a1, a2}
  Configs <- AlwaysEnabled
  NoActor = NoActor
  MaxBox = 2
SPECIFICATION FairSpec
INVARIANT NoGhost
