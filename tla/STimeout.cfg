SPECIFICATION SpecCover
CONSTANTS
  Res <- MCRes
  Sweeps <- MCTimedSweeps
  Plans <- MCTimedPlans
  AdjacencyBatch = 2
CHECK_DEADLOCK FALSE
INVARIANTS TimeoutKeepsPending
