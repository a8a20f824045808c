SPECIFICATION FairSpec
CONSTANTS
  Calls = {k1, k2}
  NoCall = NoCall
  MaxKills = 2
INVARIANTS
  Balanced
  OwnOutcomeAlone
PROPERTIES
  EveryLoginEnds
  UserIsAnnounced
  ImplementsSharedReply
CHECK_DEADLOCK FALSE
