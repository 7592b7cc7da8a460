SPECIFICATION Spec
CONSTANTS
  Publisher = {}
  Host = {h}
  Findings = 1
  Worker = {}
  MaxEvents = 0
PROPERTIES OfflineIsPublished
CHECK_DEADLOCK FALSE
