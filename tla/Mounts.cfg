SPECIFICATION Spec
CONSTANTS
  Others <- MCOthers
  MaxOthers = 2
  MaxTries = 3
INVARIANTS NothingLeftBehind HandedOver
PROPERTY LeavesFirst
CHECK_DEADLOCK FALSE
