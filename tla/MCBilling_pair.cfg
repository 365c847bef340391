\* Two users who are there before, a plan, three requests in all, one database error.
SPECIFICATION Spec
CONSTANTS
  u1 = u1
  u2 = u2
  p1 = p1
  p2 = p2
  User = {u1, u2}
  Legacy = {u1, u2}
  HasTelegram = {u1, u2}
  PlanId = {p1}
  NoPlan = NoPlan
  MaxDay = 1
  DaysInMonth <- Flat2
  Monthly = {10}
  Balances = {4}
  Limits = {0}
  Credits = {4}
  MaxMoney = 8
  ProfileCounts = {3}
  MaxRequests = 3
  MaxFaults = 1
  FaultKinds = {"db_error"}
SYMMETRY Users2
INVARIANTS
  ChargedOnlyIfActive LedgerBalanced NobodySkipped RunNeverOverstates
PROPERTIES ChargesFinal
CHECK_DEADLOCK FALSE
