CONSTANTS
  Backends = {"home", "home_lab"}
  Tools = {"lab_on", "on"}
  Names <- MCNames
  NsName <- Colliding
  Groups = {"lights"}
  GroupNames <- MCGroupNames
  NoBackend = NoBackend
SPECIFICATION Spec
INVARIANT Routable
