SPECIFICATION FairSpec
CONSTANTS
  u1 = u1
  p1 = p1
  p2 = p2
  s1 = s1
  s2 = s2
  o1 = o1
  o2 = o2
  User = {u1}
  Payment = {p1, p2}
  Session = {s1, s2}
  Operation = {o1, o2}
  NoOperation = NoOperation
  Owner <- OneOwner
  Transfers <- Plain
  StartBalances <- InDebt
  MaxMoney = 9
  Withdrawal = 2
  MaxChanges = 0
  MaxCrashes = 1
PROPERTIES PaidIsCredited EveryTransactionEnds
CHECK_DEADLOCK FALSE
