SPECIFICATION FairSpec
CONSTANTS
  URLs = {prod, dev}
  DefaultURL = prod
  NoURL = NoURL
  NoCred = NoCred
  MaxLogins = 2
  MaxBuilds = 5
  MaxFails = 2
  Instances <- Lifecycle
INVARIANTS OneLiveSession OnlyCurrentActivates SignInUsesItsCredentials SignedOutOfSignIns
  ListenerServesLive
PROPERTY OperationsEnd
CHECK_DEADLOCK FALSE
