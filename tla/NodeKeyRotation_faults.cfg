SPECIFICATION FairSpec
CONSTANTS
  Keys = {k1, k2, k3}
  NoKey = NoKey
  FaultCases = {{"crash"}, {"crash", "lost", "stop", "signin", "io"}}
  MaxCrashes = 2
INVARIANT CommittedKeyHeld
PROPERTIES PromotesOnlyCommitted StagedNeverOverwritten KeysReconverge
CHECK_DEADLOCK FALSE
