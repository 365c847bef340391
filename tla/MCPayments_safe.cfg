SPECIFICATION Spec
CONSTANTS
  u1 = u1
  p1 = p1
  p2 = p2
  s1 = s1
  s2 = s2
  o1 = o1
  o2 = o2
  User = {u1}
  Payment = {p1, p2}
  Session = {s1, s2}
  Operation = {o1, o2}
  NoOperation = NoOperation
  Owner <- OneOwner
  Transfers <- Collisions
  StartBalances <- InDebtOrNot
  MaxMoney = 3
  Withdrawal = 2
  MaxChanges = 1
  MaxCrashes = 0
SYMMETRY Sessions2
INVARIANTS TypeOK OperationPaysOnce NoPaidUpBlock
PROPERTIES CreditsAreRecorded ImplementsLedger
CHECK_DEADLOCK FALSE
