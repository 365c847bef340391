SPECIFICATION FairSpec
CONSTANTS
  u1 = u1
  u2 = u2
  p1 = p1
  p2 = p2
  User = {u1}
  Legacy = {u1}
  HasTelegram = {u1}
  PlanId = {p1, p2}
  NoPlan = NoPlan
  MaxDay = 3
  DaysInMonth <- Flat2
  Monthly = {8}
  Balances = {8}
  Limits = {0}
  Credits = {4}
  MaxMoney = 8
  ProfileCounts = {1}
  MaxRequests = 2
  MaxFaults = 0
  FaultKinds = {}
PROPERTIES EveryDayBilled
CHECK_DEADLOCK FALSE
