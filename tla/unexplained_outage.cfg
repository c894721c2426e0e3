CONSTANTS
  MaxGenerations = 4
  MaxTime = 2
  MaxProcesses = 3
  MaxFaults = 1
SPECIFICATION MCSpec
INVARIANT EveryLossIsExplained
CHECK_DEADLOCK FALSE
