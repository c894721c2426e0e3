SPECIFICATION Spec
CONSTANTS
  Command = {1}
  RecentLimit = 1
  NoCommand = NoCommand
  Power <- OnOff
  Plan <- TimelyPlans
  RetryDelay = 1
  TimeoutDelay = 2
  MaxTime = 3
  MaxFaults = 3
  StartupFaults = {"empty", "restored"}
CHECK_DEADLOCK FALSE
INVARIANT
  VolatileCommandIsOfThisProcess
