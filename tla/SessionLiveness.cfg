SPECIFICATION FairSpec
CONSTANTS
  Clients = {c1}
  Tickets = {s1, s2}
  Senders = {w1, w2}
  MaxLogins = 2
  SendCap = 1
  NoClient = NoClient
  NoSso = NoSso
PROPERTIES
  DeadIsBuried
  RequestIsTaken
  FullChannelMoves
CHECK_DEADLOCK FALSE
