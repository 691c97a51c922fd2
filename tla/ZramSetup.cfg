\* Two setups at once over two devices; the kernel refuses nothing.
CONSTANTS
  r1 = r1
  r2 = r2
  Req = {r1, r2}
  NumDev = 2
  MaxIdent = 2
  MaxWant = 2
  Kinds = {"single", "several", "varsize"}
  MayFail = {}
  SwapoffMayFail = FALSE
  None = None
  Foreign = Foreign
SPECIFICATION SetupSpec
SYMMETRY ReqSymmetry
INVARIANTS
  TypeOK ReleasesOnlyIdle SwapIsAllOrNothing SwapSpaceIsGivenBack
  FailedDiskKeepsNoDevice
CHECK_DEADLOCK FALSE
