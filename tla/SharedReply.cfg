SPECIFICATION FairSpec
CONSTANTS
  Calls = {k1, k2, k3}
  NoCall = NoCall
  MaxCrashes = 1
INVARIANTS
  Balanced
  AnsweredOnce
  OwnAnswerAlone
PROPERTIES
  EveryCallEnds
CHECK_DEADLOCK FALSE
