SPECIFICATION Spec
CONSTANTS
  Res = 6
  MaxTreeDepth = 4
  Scenes <- MCScenes
  SeedLists <- MCSeedLists
  Configs <- MCProbeConfigs
INVARIANT CertifiedBoxesFree
CHECK_DEADLOCK FALSE
