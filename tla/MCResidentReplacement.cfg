SPECIFICATION Spec
CONSTANTS
  Host = {h1, h2}
  Target = {t1}
  Image = {i1, i2}
  FirstImage = i1
  None = None
  MaxOps = 3
  MaxFaults = 2
  MaxCrashes = 1
SYMMETRY Symmetry
INVARIANTS
  TypeOK
  ActiveImageExists
  TargetSettled
  SuccessTakesHold
  FailureRestores
  Agreement
