SPECIFICATION Spec
CONSTANTS
  None = None
  MaxRequests = 2
  MaxAmount = 2
  MaxUpdates = 2
  ClientOps = {"add", "deduct", "plan", "addon", "cancel"}
  Faults = {"cut"}
CHECK_DEADLOCK FALSE
INVARIANTS
  TypeOK
  LedgerSound
  CustomerKept
  SubscriptionShown
