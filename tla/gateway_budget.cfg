CONSTANTS
  t1 = t1  t2 = t2  t3 = t3  opus = opus  gpt = gpt
  Threads <- ThreeThreads
  Routes <- AllRoutes
  Priced <- OneRoute
  Limit = 2
  MaxCost = 2
  MaxCalls = 4
  MaxLocal = 1
  MaxMonths = 2
SPECIFICATION GatewaySpec
SYMMETRY ThreadSymmetry
INVARIANTS OverspendBounded 
CHECK_DEADLOCK FALSE
