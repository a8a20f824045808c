SPECIFICATION Spec
CONSTANTS
  Clients = {c1, c2}
  Tickets = {s1, s2}
  Senders = {w1}
  MaxLogins = 2
  SendCap = 1
  NoClient = NoClient
  NoSso = NoSso
SYMMETRY Symmetric
INVARIANTS
  TypeOK
  ClosedOnce
  RoutedToOwner
  StaleSessionCause
CHECK_DEADLOCK FALSE
