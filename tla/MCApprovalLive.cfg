CONSTANTS
  c1 = c1
  c2 = c2
  Callers = {c1, c2}
  Approvers = {1, 2}
  MaxVersion = 1
  SlowTimers = FALSE
  Bounds <- MCUndecided
SPECIFICATION FairSpec
PROPERTY DeadlineIsKept
CHECK_DEADLOCK FALSE
