SPECIFICATION Spec
CONSTANTS
  Task = {k1, k2, k3}
  Target = {t1}
  Image = {i1}
  Volatile = {}
  MaxParallel = 2
  MaxGeneration = 1
  None = None
SYMMETRY Symmetry
INVARIANTS
  ReservationsAgree
  ExecKeepsReservation
PROPERTIES
  LeaseProtectsWorker
  RefusalIsHonest
CHECK_DEADLOCK FALSE
