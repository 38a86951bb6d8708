SPECIFICATION SwitchSpec
CONSTANTS
  Models = {a, b}
  NoModel = NoModel
  Unset = Unset
  MaxChanges = 3
SYMMETRY Symmetric
INVARIANTS RunningHasRow DeferredHasCarrier ChoiceNotForgotten
PROPERTIES ReadyKept
CHECK_DEADLOCK FALSE
