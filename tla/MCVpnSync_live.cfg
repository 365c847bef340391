SPECIFICATION FairSpec
CONSTANTS
  u1 = u1
  User = {u1}
  Profiles = 1
  Charge = 2
  Credit = 3
  StartBalances <- OverdrawnOrEmpty
  MaxRequests = 3
  MaxRemoved = 0
PROPERTIES AccessRestored PausedCutOff
CHECK_DEADLOCK FALSE
