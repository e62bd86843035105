SPECIFICATION SpecCover
CONSTANTS
  Res <- MCRes
  Sweeps <- MCDepthSweeps
  Plans <- MCDepthPlans
  AdjacencyBatch = 2
CHECK_DEADLOCK FALSE
INVARIANTS MaxDepthReached
