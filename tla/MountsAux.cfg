SPECIFICATION Spec
CONSTANTS
  Others <- MCAux
  MaxOthers = 1
  MaxTries = 1
INVARIANT AuxUnmounted
CHECK_DEADLOCK FALSE
