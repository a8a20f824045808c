SPECIFICATION Spec
CONSTANTS
  Calls = {k1, k2}
  NoCall = NoCall
  MaxKills = 0
INVARIANTS
  OwnOutcome
CHECK_DEADLOCK FALSE
