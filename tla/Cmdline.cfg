\* All command lines of up to three of twenty-three arguments.
CONSTANTS
  Args <- SomeArgs
  MaxArgs = 3
  FlagFiles = {"QUIET"}
  DiskMayFail = TRUE
SPECIFICATION Spec
INVARIANTS LaterParameterWins MountedAsTold MountsWhatItCan OptionsSurvive
CHECK_DEADLOCK FALSE
