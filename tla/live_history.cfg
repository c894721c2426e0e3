CONSTANTS
  MaxFact = 4
  MaxGeneration = 2
  MaxFaults = 1
  MaxQueue = 4
  RecentLimit = 2
  PageSize = 1
  OverlayLimit = 1
  MaxPages = 4
  MaxItems = 4
  Anchors = {1, 3}
SPECIFICATION MCFairSpec
INVARIANTS NothingMissing OneGeneration AnchorIsShown
PROPERTIES NeverDemoted BecomesCurrent
CHECK_DEADLOCK FALSE
