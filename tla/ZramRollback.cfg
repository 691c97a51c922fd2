\* The roll back of zram_claim_several_next_free.
CONSTANTS
  r1 = r1
  Req = {r1}
  NumDev = 1
  MaxIdent = 2
  MaxWant = 2
  Kinds = {"several"}
  MayFail = {}
  None = None
  Foreign = Foreign
SPECIFICATION Spec
INVARIANT SeveralRollsBack
CHECK_DEADLOCK FALSE
