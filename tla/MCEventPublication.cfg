SPECIFICATION Spec
CONSTANTS
  Proc = {p1, p2}
  Attempt = {a1, a2}
  MaxFaults = 4
INVARIANTS CommittedIsDurable ChainIsMonotone ReceiptsAreBacked ReturnedIsDurable
PROPERTIES EventIsCommitted
