CONSTANTS
  Routes <- AllRoutes
  Machines = {m1, m2}
  Retries = 1
  Raises = FALSE
  Kills = TRUE
  EarlyChecks = TRUE
  Replans = FALSE
  Contention = FALSE
SPECIFICATION Spec
SYMMETRY MCSymmetry
CHECK_DEADLOCK FALSE
INVARIANT RollbackReachesAll
PROPERTY EachPartIsOrderly
