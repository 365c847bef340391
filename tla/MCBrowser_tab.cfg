SPECIFICATION FairSpec
CONSTANTS
  alice = alice
  bob = bob
  Account = {alice, bob}
  Payer = alice
  NoUser = NoUser
  NoToken = NoToken
  MaxTrouble = 1
  MaxClicks = 2
  MaxTokens = 2
  MaxInFlight = 2
  ReconcileWindow = 1
INVARIANTS TypeOK NoIdleSkeleton SignedInAsShown
PROPERTIES LogoutTakesEffect PaymentSeen SuccessReachesStore
CHECK_DEADLOCK FALSE
