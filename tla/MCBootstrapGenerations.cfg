SPECIFICATION Spec
CONSTANTS
  Task = {}
  Target = {t1}
  Image = {i1, i2}
  Volatile = {t1}
  MaxParallel = 1
  MaxGeneration = 2
  None = None
SYMMETRY Symmetry
INVARIANTS
  GenerationsRetained
  PlanNamesRollback
PROPERTIES
  PlanUndoesChange
CHECK_DEADLOCK FALSE
