SPECIFICATION FairSpec
CONSTANTS
  k = k
  own = own
  other = other
  pub = pub
  Requests = {q1, q2}
  Peers = {own, other, pub}
  Public = {pub}
  Self = self
  None = none
  Keys = {k}
  K = 2
  Attempts = 2
  EngineSlots = 1
  Instances <- Routing
INVARIANTS CountsExact AdmissionKept PinHonoured OwnBeforePublic
CHECK_DEADLOCK FALSE
PROPERTY RequestsEnd
