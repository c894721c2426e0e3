SPECIFICATION Spec
CONSTANTS
  Command = {1, 2}
  RecentLimit = 1
  NoCommand = NoCommand
  Power <- OnOff
  Plan <- TimelyPlans
  RetryDelay = 1
  TimeoutDelay = 2
  MaxTime = 3
  MaxFaults = 2
  StartupFaults = {"empty", "restored"}
CHECK_DEADLOCK FALSE
INVARIANTS
  SingleActive
  DurableMeansStored
  AdmissionSurvives
  TimersMatchCommands
  NothingLeftUnsent
PROPERTIES
  OneDelivery
  ImplementsPromise
  StoredEndIsFinal
