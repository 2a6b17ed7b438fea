CONSTANTS
  Statuses = {up, down}
  NoStatus = NoStatus
  Flash = Flash
  Browsers = {c1}
  Operators = {o1, o2}
  Capacity = 2
SPECIFICATION FairSpec
INVARIANTS TypeOK LatestKept
 
