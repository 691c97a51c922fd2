CONSTANTS
  Worlds <- SomeWorlds
  AbsFiles = {"/x.sfs", "/v"}
  Images = {"/x.sfs"}
  Flaky = {"/dev/sda2", "/x.sfs", "tmp", "fstab"}
  MaxTries = 2
  MaxByHand = 1
SPECIFICATION Spec
INVARIANTS NotMountedTwice UserDirsOnTmp
PROPERTIES ReturnsZeroWhenMounted
CHECK_DEADLOCK FALSE
