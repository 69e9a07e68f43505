SPECIFICATION Spec
CONSTANTS
  PvsRequests <- MCPvsRequests
  PcsRequests <- MCPcsRequests
  ProfileMax = 16
  MultiMasks = 3
  Width = 3
  Height = 2
  Masks <- MCMasks
  Boxes <- MCBoxes
  Scores = {0, 1, 2}
  Queries = 3
INVARIANTS
  PromptReachesEngine
  SuppressionAsDefined
  MasksMeasured
CHECK_DEADLOCK FALSE
