CONSTANTS
  b1 = b1
  b2 = b2
  t1 = t1
  n1 = n1
  n2 = n2
  g1 = g1
  Anyone = Anyone
  OnlyBackend = OnlyBackend
  OnlyTool = OnlyTool
  Backends = {b1, b2}
  Actors = {a1, a2}
  NoActor = NoActor
  Tools = {t1}
  Names = {n1, n2}
  NsName <- Prefixed
  Groups = {g1}
  GroupNames <- Grouped
  All = All
  Tokens = {Anyone, OnlyBackend, OnlyTool}
  AllowedBackends <- PerBackend
  AllowedTools <- PerTool
  Requests = {r1}
  Asks <- SomeAsks
SPECIFICATION FairSpec
INVARIANTS TypeOK NeverForbidden DisabledStaysUncalled
PROPERTIES ImplementsService Answered
