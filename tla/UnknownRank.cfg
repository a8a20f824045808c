SPECIFICATION Spec
CONSTANTS
  NumRows = 2
  Stores = {"ranks"}
  MaxWriters = 1
  MaxCrashes = 1
  MaxFaults = 1
INVARIANTS
  NoRankForUnknown
CHECK_DEADLOCK FALSE
