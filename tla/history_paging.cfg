CONSTANTS
  Device = {"led"}
  Record = {"request", "timeout", "change", "later"}
  Stream <- MCStream
  MaxLate = 0
  Limit = 3
  Retention = 0
  CursorLifetime = 1
  MaxTime = 1
  MaxSequence <- MCMaxSequence
  MaxRevision = 0
  MaxPins = 2
  Criteria <- MCCriteria
  PageSize = 1
  MaxItems = 3
  MaxPages = 3
  RejectDuplicates = FALSE
  Requests <- MCRequests
  LegacyTimeouts <- MCLegacyTimeouts
  MaxEpoch = 3
  MaxCalls = 2
  MaxProcess = 2
SPECIFICATION MCSpec
INVARIANTS ShownIsPrefix NeverConfused PinnedViewStable ViewsAreValid
CHECK_DEADLOCK FALSE
