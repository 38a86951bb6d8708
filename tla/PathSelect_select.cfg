SPECIFICATION FairSpec
CONSTANTS
  Peers = {p1}
  Relayed = {p1}
  DowngradeMisses = 1
  UpgradePongStreak = 1
  MinRTTSamples = 1
  MinDwell = 2
  FallbackAfter = 1
  MaxLag = 1
INVARIANTS StatesMatchMap
PROPERTIES DatedSwitchesWait DeadPathLeft
