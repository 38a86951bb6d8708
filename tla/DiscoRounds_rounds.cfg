SPECIFICATION FairSpec
CONSTANTS
  Peers = {p1}
  NoPeer = NoPeer
  MaxTargets = 2
  MaxRounds = 2
  MaxPass = 2
INVARIANT RoundBalance
PROPERTIES KeepsPromise TimelyRoundsReported
CHECK_DEADLOCK FALSE
