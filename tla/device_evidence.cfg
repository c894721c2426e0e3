SPECIFICATION Spec
CONSTANTS
  Pattern <- TwoReadings
  FutureLead = 2
  FreshFor = 1
  MaxSkew = 1
  MaxTime = 3
  MaxFacts = 5
  MaxFaults = 1
  MaxStarts = 2
INVARIANTS
  DurableReadingIsRecorded
PROPERTIES
  EvidenceAdvances
CHECK_DEADLOCK FALSE
