SPECIFICATION FairSpec
CONSTANTS
  Procs = {p1}
  NHandlers = 2
  MaxEvents = 2
  MaxLen = 1
  RecoverCount = 1
  MaxFaults = 2
  SubscribeFirst = FALSE
INVARIANTS
  NoSilentLoss
  Accounted
PROPERTIES
  PendingDrains
  NewIsDelivered
CHECK_DEADLOCK FALSE
