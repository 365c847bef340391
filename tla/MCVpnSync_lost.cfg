SPECIFICATION FairSpec
CONSTANTS
  u1 = u1
  User = {u1}
  Profiles = 1
  Charge = 2
  Credit = 3
  StartBalances = {0}
  MaxRequests = 2
  MaxRemoved = 0
PROPERTIES AccessDespiteOverlap
CHECK_DEADLOCK FALSE
