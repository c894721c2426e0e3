CONSTANTS
  k1 = k1
  k2 = k2
  Conn = {k1, k2}
  SlowConn = {k1}
  NoConn = NoConn
  Changes <- MCChanges
  MaxEvents = 2
  MaxFaults = 1
  MaxBreaks = 1
  MaxFlight = 0
SPECIFICATION FairSpec
INVARIANTS
  ShownIsConsistent
  CaughtUpIsCurrent
  StreamIsContiguous
PROPERTIES ShownNeverGoesBack EventuallySynced
CHECK_DEADLOCK FALSE
