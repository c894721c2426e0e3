SPECIFICATION Spec
CONSTANTS
  Pattern <- TwoReadings
  FutureLead = 2
  FreshFor = 1
  MaxSkew = 1
  MaxTime = 3
  MaxFacts = 5
  MaxFaults = 1
  MaxStarts = 2
PROPERTY AcceptedEvidenceIsKept
CHECK_DEADLOCK FALSE
