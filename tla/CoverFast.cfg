SPECIFICATION SpecCover
CONSTANTS
  Res <- MCRes
  Sweeps <- MCFastSweeps
  Plans <- MCFastPlans
  AdjacencyBatch = 2
CHECK_DEADLOCK FALSE
INVARIANTS ProfileCountsBoxes
