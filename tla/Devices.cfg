CONSTANTS
  Disks = {"a", "b"}
  Loops = {1, 2}
  Seeds <- SomeSeeds
  Programs <- SomePrograms
  InitNodes <- SomeNodes
  Timeout = 2
  Faults = {"fork", "exec", "killed", "nanosleep", "mknod", "chown", "ioctl", "open"}
SPECIFICATION FairSpec
INVARIANTS NodesAreRight WaitsAreExact LoopsAreExclusive DescriptorsAreClosed
PROPERTIES CallsReturn
CHECK_DEADLOCK FALSE
