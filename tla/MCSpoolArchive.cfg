SPECIFICATION SafetySpec
CONSTANTS
  Host = {h1, h2}
  Event = {e1, e2}
  Projection = {f1, f2}
  RetryLimit = 2
  MaxFaults = 2
  MaxOthers = 1
SYMMETRY Symmetry
INVARIANTS DeletedIsPublished BranchIsCertified PublishedOnce
PROPERTIES HistoryGrows ImplementsEventLog
CHECK_DEADLOCK FALSE
