SPECIFICATION Spec
CONSTANTS
  Proc = {p0, p1, p2}
  Root = p0
  Runner = runner
INVARIANTS TrackedAreGone SessionIsGone
PROPERTIES QuiescenceReached
CHECK_DEADLOCK FALSE
