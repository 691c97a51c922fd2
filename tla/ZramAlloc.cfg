\* Two requests for up to two of two devices; MaxIdent = 3 leaves one identifier
\* without a device, so that scans end both ways.  The kernel may refuse a disk
\* size but no reset (ZramSetupRefused has the refused resets).
CONSTANTS
  r1 = r1
  r2 = r2
  Req = {r1, r2}
  NumDev = 2
  MaxIdent = 3
  MaxWant = 2
  Kinds = {"single", "several", "varsize"}
  MayFail = {"disksize"}
  None = None
  Foreign = Foreign
SPECIFICATION FairSpec
INVARIANTS ExclusiveClaims NoMissedDevice NoLeak
PROPERTIES ResetsOnlyItsOwn ImplementsPool EveryClaimReturns
CHECK_DEADLOCK FALSE
