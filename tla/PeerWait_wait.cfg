SPECIFICATION WaitFairSpec
CONSTANTS
  Policies <- AllPolicies
  Nil = Nil
  Horizon = 7
INVARIANTS CutsAreClean SilentTwice
PROPERTY TurnEnds
CHECK_DEADLOCK FALSE
