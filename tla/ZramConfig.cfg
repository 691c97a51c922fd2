\* Byte stands for 2^8 and Word for 2^64.
CONSTANTS
  Calls <- SomeCalls
  KeyOf <- MCKeyOf
  ValueOf <- MCValueOf
  MemSizes = {0, 1, 1000}
  Word = 1073741824
  Byte = 4
  PreferBtrfs = FALSE
SPECIFICATION Spec
INVARIANTS MountedAsAsked SwapWithinFraction
CHECK_DEADLOCK FALSE
