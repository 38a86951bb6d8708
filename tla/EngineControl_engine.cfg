SPECIFICATION FairSpec
CONSTANTS
  Child = {c1, c2}
  None = None
  MaxAttempts = 1
  MaxPending = 1
  MaxEvents = 4
INVARIANTS OneEngine ParkedIsFree
PROPERTY NoFalseCrash StartsEnd
CHECK_DEADLOCK FALSE
