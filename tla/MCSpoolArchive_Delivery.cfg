SPECIFICATION Spec
CONSTANTS
  Host = {h1, h2}
  Event = {e1, e2}
  Projection = {f1}
  RetryLimit = 2
  MaxFaults = 1
  MaxOthers = 1
PROPERTIES DeliveredOrWedged
CHECK_DEADLOCK FALSE
