\* The kernel may refuse disksize, reset and swapoff; every setup still ends.
CONSTANTS
  r1 = r1
  r2 = r2
  Req = {r1, r2}
  NumDev = 2
  MaxIdent = 2
  MaxWant = 2
  Kinds = {"single", "several", "varsize"}
  MayFail = {"disksize", "reset"}
  SwapoffMayFail = TRUE
  None = None
  Foreign = Foreign
SPECIFICATION SetupFairSpec
INVARIANTS InUseIsOwned
PROPERTIES EverySetupEnds
CHECK_DEADLOCK FALSE
