SPECIFICATION Spec
CONSTANTS
  Clients = {c1, c2}
  Tickets = {s1}
  Senders = {w1}
  MaxLogins = 2
  SendCap = 1
  NoClient = NoClient
  NoSso = NoSso
INVARIANTS
  SessionAuthority
CHECK_DEADLOCK FALSE
