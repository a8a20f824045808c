SPECIFICATION Spec
CONSTANTS
  Procs = {p1, p2}
  NHandlers = 2
  MaxEvents = 2
  MaxLen = 2
  RecoverCount = 2
  MaxFaults = 1
  SubscribeFirst = TRUE
SYMMETRY Symmetric
INVARIANTS
  TypeOK
  EveryHandlerReacts
  SharedOnlyAfterIdle
PROPERTIES
  ImplementsDelivery
CHECK_DEADLOCK FALSE
