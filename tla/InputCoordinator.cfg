CONSTANTS
  QueueLimit = 2
  MaxInputs = 5
  MayThrow = TRUE
SPECIFICATION FairSpec
INVARIANTS
  EachInputOnce
  NothingStranded
PROPERTIES
  DispatchInIngestOrder
  CutoverHolds
  DrainedMeansEmpty
  EveryInputSettles
