SPECIFICATION Spec
CONSTANTS
  MaxEvents = 2
  MaxStartFaults = 1
  Clients <- MCClients
  Extensions = {e1, e2}
  Switches = {s1}
  BaseDuration = 1
  NoRow = NoRow
  MaxCalls = 2
  MaxTroubles = 1
  Base = 8
  Lengths = {0, 2, 32}
  Numbers = {0, 3, 5000}
  Minute = 2
  Day = 6
  GiftPeriod = 12
  Memberships <- MCMemberships
  LastSecond = 40
INVARIANTS
  DroppedCause
  Answered
  
  DriftCause
  ReplyRead
  
PROPERTIES
  EventuallyServes
  
CHECK_DEADLOCK FALSE
