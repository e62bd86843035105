SPECIFICATION Spec
CONSTANTS
  MaxDepth = 2
  LeafDepth = 2
  MaxPops = 5
  MaxScene = 2
  MaxId = 3
  MaxCache = 4
  MaxEdges = 2
  Obstacle = {"post", "wall", "shelf"}
  Path = {"low", "high"}
  Covers <- MCCovers
  Flags <- MCFlags
  Blocks <- MCBlocks
  Scenes <- MCScenes
  Batches <- MCBatches
INVARIANTS GraphExact BookkeepingExact
PROPERTIES UpdatesKeepBoxesFree UpdatesKeepKnowledge
