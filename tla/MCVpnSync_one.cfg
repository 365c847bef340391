SPECIFICATION Spec
CONSTANTS
  u1 = u1
  User = {u1}
  Profiles = 2
  Charge = 2
  Credit = 3
  StartBalances <- OverdrawnOrEmpty
  MaxRequests = 2
  MaxRemoved = 1
INVARIANTS TypeOK QuietAgrees
CHECK_DEADLOCK FALSE
