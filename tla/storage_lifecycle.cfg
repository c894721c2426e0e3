CONSTANTS
  MaxGenerations = 4
  MaxTime = 2
  MaxProcesses = 3
  MaxFaults = 2
SPECIFICATION MCSpec
INVARIANTS LossesExplained GapsAreDisjoint NoDatabaseIsLost
PROPERTIES GenerationIsPinned RecoveryEnds
CHECK_DEADLOCK FALSE
