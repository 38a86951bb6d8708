SPECIFICATION Spec
CONSTANTS
  Keys = {k1, k2, k3}
  NoKey = NoKey
  FaultCases = {{"lost"}}
  MaxCrashes = 0
INVARIANT CommittedKeyOnDisk
CHECK_DEADLOCK FALSE
