SPECIFICATION FairSpec
CONSTANTS
  Res = 6
  MaxTreeDepth = 4
  Scenes <- MCScenes
  SeedLists <- MCSeedLists
  Configs <- MCConfigs
INVARIANTS NodesExact BoxesFree BoxesDisjoint MaxBoxesHeld
PROPERTIES MergeUncoversNothing GrowthEnds
