SPECIFICATION FairSpec
CONSTANTS
  Domain <- MCDomain
  MaxDepth = 4
  Resolution = 4
  Via <- MCVia
  MaxFront = 4
  Scenes <- MCScenes
  AuditResolution = 8
  SegmentPenalty = 20
  AuditPenalty = 50
INVARIANTS ForestSound RoundSound SearchSound CertifiedCorridorsFree StrictAnswers BridgesSound CacheFresh
PROPERTIES RoundsMakeProgress PlanningEnds
