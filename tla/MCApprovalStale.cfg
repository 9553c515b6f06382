CONSTANTS
  c1 = c1
  c2 = c2
  Callers = {c1, c2}
  Approvers = {1}
  MaxVersion = 1
  SlowTimers = FALSE
  Bounds <- MCExecuted
SPECIFICATION FairSpec
PROPERTY ReplanningStarts
CHECK_DEADLOCK FALSE
