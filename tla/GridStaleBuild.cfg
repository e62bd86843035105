SPECIFICATION Spec
CONSTANTS
  Dims = 2
  CellWidth = 2
  IndexedThreshold = 3
  DsuMinCells = 3
  MaxRounds = 2
  MaxBoxes = 3
  MaxEdges = 1
  MaxId = 2
  MaxNew = 1
  Roots <- MCRoots
  Regions <- MCRegions
  Sweeps <- MCSweeps
INVARIANT QueriesSeeTheForest
