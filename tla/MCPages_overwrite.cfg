SPECIFICATION Spec
CONSTANTS
  alice = alice
  bob = bob
  d1 = d1
  d2 = d2
  d3 = d3
  old = old
  new = new
  Part = {"users"}
  Person = {alice, bob}
  Admin = alice
  MaxBalance = 1
  MaxSubmits = 2
  MaxChanges = 1
  Dialog = {d1, d2, d3}
  OptionLists <- MCOptionLists
  Heights = {300, 520}
  Tops = {0, 60, 180, 260, 400}
  ControlHeight = 44
  PlanId = {old, new}
  NoPlan = NoPlan
  Monthly = {1}
  LastDay = 4
  MaxSaves = 2
  HistoryDays = 3
  DaysPerMonth = 2
  Amount = {1}
  MaxEntries = 3
  Profile = {alice, bob}
  NoProfile = NoProfile
  Widget = {"CopyButton", "CopyUserIdButton", "CopyValue"}
  Restarts = {"CopyButton", "CopyUserIdButton"}
  Duration = 3
  MaxCopies = 3
  Sum = {5, 10, 5000}
  MaxPayments = 3
  Owner = {alice, bob}
  MaxJournal = 2
PROPERTIES UntouchedBalanceStays
CHECK_DEADLOCK FALSE
