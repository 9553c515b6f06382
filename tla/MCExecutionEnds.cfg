CONSTANTS
  Routes <- AllRoutes
  Machines = {m1, m2}
  Retries = 0
  Raises = TRUE
  Kills = FALSE
  EarlyChecks = TRUE
  Replans = TRUE
  Contention = TRUE
SPECIFICATION FairSpec
INVARIANTS OutcomeIsRecorded ClosedIsReceived
PROPERTIES
  ExecutionEnds
CHECK_DEADLOCK FALSE
