SPECIFICATION FairSpec
CONSTANTS
  Command = {1}
  RecentLimit = 1
  NoCommand = NoCommand
  Power <- OnOff
  Plan <- EveryPlan
  RetryDelay = 1
  TimeoutDelay = 2
  MaxTime = 1
  MaxFaults = 4
  StartupFaults = {"empty", "restored"}
CHECK_DEADLOCK FALSE
PROPERTIES
  EventuallySettles
