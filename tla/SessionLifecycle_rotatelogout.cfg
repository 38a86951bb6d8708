SPECIFICATION Spec
CONSTANTS
  URLs = {prod, dev}
  DefaultURL = prod
  NoURL = NoURL
  NoCred = NoCred
  MaxLogins = 1
  MaxBuilds = 4
  MaxFails = 0
  Instances <- RotateAndLogout
INVARIANT SignedOutStaysOut
CHECK_DEADLOCK FALSE
