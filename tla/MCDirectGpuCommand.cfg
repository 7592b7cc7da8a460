SPECIFICATION Spec
CONSTANTS
  r1 = r1
  r2 = r2
  Runner = {r1, r2}
  Gpu = {g1, g2}
  Wanted <- OneAndTwo
  Foreign = {g1}
  None = None
INVARIANTS
  AllOrNothing
PROPERTIES
  ActiveRecordStays
  ImplementsExclusion
  ReservationTerminates
  LocksReturned
