SPECIFICATION FairSpecCover
CONSTANTS
  Res <- MCRes
  Sweeps <- MCSweeps
  Plans <- MCPlans
  AdjacencyBatch = 2
CHECK_DEADLOCK FALSE
INVARIANTS SweepConserves ResultSound SameAsReference CoverConserves CoverSound SnapshotsTrue
PROPERTIES BuildEnds
