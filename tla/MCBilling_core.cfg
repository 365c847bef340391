SPECIFICATION Spec
CONSTANTS
  u1 = u1
  u2 = u2
  p1 = p1
  p2 = p2
  User = {u1}
  Legacy = {}
  HasTelegram = {u1}
  PlanId = {p1}
  NoPlan = NoPlan
  MaxDay = 2
  DaysInMonth <- Flat2
  Monthly = {8}
  Balances = {4, 0}
  Limits = {0}
  Credits = {4}
  MaxMoney = 8
  ProfileCounts = {1, 2}
  MaxRequests = 4
  MaxFaults = 0
  FaultKinds = {}
INVARIANTS
  TypeOK StatusMatchesHistory ExtraChargeExplained NoPaidUpBlock
  RunMatchesCharges
PROPERTIES ManualBlockSticks
CHECK_DEADLOCK FALSE
