CONSTANTS
  Invocations <- SomeInvocations
  Blocks = 2
  Pad = 2
  Capacity = 1
  Faults = {"open", "pipe", "fork", "exec", "waitpid", "mkdir", "corrupt", "tar", "killed"}
SPECIFICATION FairSpec
INVARIANTS ZeroMeansUnpacked ChildrenAreReaped
PROPERTIES KillsOnlyItsChildren EverybodyEnds
CHECK_DEADLOCK FALSE
