SPECIFICATION FairSpec
CONSTANTS
  Rows = {1, 2, 3}
  Limit = 2
  TTLs = {0, 2}
  MaxBackoff = 2
  MaxShift = 1
  MaxFailures = 1
PROPERTIES
  TriedBeforeExpired
  NoneStarves
  EveryRowEnds
