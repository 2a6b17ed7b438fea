CONSTANTS
  Backends = {"home", "home_lab"}
  Tools = {"lab_on", "on"}
  Names <- MCNames
  NsName <- Distinct
  Groups = {"lights"}
  GroupNames <- MCGroupNames
  NoBackend = NoBackend
SPECIFICATION Spec
INVARIANTS TypeOK Routable CacheCovers
PROPERTY ImplementsDirectory
