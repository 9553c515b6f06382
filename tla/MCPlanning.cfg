CONSTANTS
  Cases = {1, 2}
  Supply = 2
  MaxVersion = 3
  MaxPlanned = 1
  SolverFails = TRUE
  MaxDrop = 1
  Horizon = 8
  Cover = 2
  AutoLimit = 3
  MinConfidence = 85
  Window = 4
  Approvers = {1, 2}
  Stocks = {1, 3, 5}
  OnHands = {4, 6}
  Worlds <- MCWorlds
  Proposals <- MCProposals
  Policies <- MCPolicies
SPECIFICATION PlanningSpec
CHECK_DEADLOCK FALSE
INVARIANTS SharesAreKept GatesAgree RouteIsSound
PROPERTY EveryPlanSettles
