SPECIFICATION Spec
CONSTANTS
  Event <- MCEvent
  Closing <- MCClosing
  GuardRetention = 2
  EntryLimit = 2
  RecordAge = 2
  RecordLimit = 2
  MaxTime = 5
  MaxFaults = 4
INVARIANTS
  OneRecord
  IdentityCoversRecord
  MemoryCoversStore
PROPERTY
  MeaningIsKept
CHECK_DEADLOCK FALSE
