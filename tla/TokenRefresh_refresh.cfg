SPECIFICATION FairSpec
CONSTANTS
  FaultCases <- KeptAndAll
  MaxFaults = 4
  MaxGen = 3
  Window = 6
  Backoff = 3
  RetryDelay = 1
  Timeout = 3
  Preflight = 1
INVARIANTS ReplayedNotStolen OneFailureFits DurableBeforeLive GivesUpOnlyForGood
PROPERTY RenewedOrGivenUp
CHECK_DEADLOCK FALSE
