CONSTANTS
  c1 = c1
  c2 = c2
  Callers = {c1, c2}
  Approvers = {1}
  MaxVersion = 2
  SlowTimers = TRUE
  Bounds <- MCBounds
SPECIFICATION Spec
SYMMETRY MCSymmetry
INVARIANTS TypeOK OneFate NeverAskedAgain OnlyApprovedEnters
PROPERTY DecisionIsFresh
CHECK_DEADLOCK FALSE
