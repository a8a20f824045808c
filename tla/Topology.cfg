SPECIFICATION FairSpec
CONSTANTS
  Instances = {i1, i2}
  Services = {s1}
  MaxFaults = 1
INVARIANTS
  TypeOK
  
  DoubledOnlyByRace

  
CHECK_DEADLOCK FALSE
