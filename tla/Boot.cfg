\* The whole boot sequence, two modules, every fault of a hook.
CONSTANTS
  NumMods = 2
  Flags = {"have-net", "no-mount-root"}
  Faults = {"killed", "fork", "waitpid"}
SPECIFICATION FairSpec
INVARIANTS ModulesSettled NetworkDownBeforeSwitch
PROPERTIES LeftOnlyWithConsent GivesUpOnlyAfterShell BootEnds
CHECK_DEADLOCK FALSE
