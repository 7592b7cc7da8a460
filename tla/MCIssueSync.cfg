SPECIFICATION Spec
CONSTANTS
  Publisher = {p}
  Host = {h}
  Findings = 2
  Worker = {1}
  MaxEvents = 3
INVARIANTS NoDuplicate
PROPERTIES ResolvedIsPublished PacketIsResolved
CHECK_DEADLOCK FALSE
