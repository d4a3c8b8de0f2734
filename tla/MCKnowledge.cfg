CONSTANTS
  q1 = q1
  c1 = c1
  w = w
  Callers = {q1, c1, w}
  Retrievals = {q1}
  WarmUp = w
  Configurations <- MCConfigurations
  MaxConcurrency = 1
  Finds <- MCFinds
  BatchSize = 1
  ResultLimit = 1
  RankConstant = 60
  FusionLimit = 2
  Sections <- MCSections
  None = None

SPECIFICATION KnowledgeSpec

INVARIANTS
  KnowledgeTypeOK
  InferenceBounded
  OutcomesExplained
  FusionRespectsRanks
  ResourcesInOrder
  ChunksCover

PROPERTIES
  NoInferenceAfterClose
  RetrievalsEnd
  ShutdownEnds

CHECK_DEADLOCK FALSE
