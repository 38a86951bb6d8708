SPECIFICATION FairSpec
CONSTANTS
  URLs = {r1}
  MaxSessions = 3
  MaxRestarts = 1
  MaxOmits = 1
  MaxBreaks = 1
  MaxReopens = 1
  RedialBase = 1
  RedialMax = 2
  HealthyAfter = 1
INVARIANTS OneSession NoStalePin
PROPERTY Reconnects
CHECK_DEADLOCK FALSE
