CONSTANTS
  Files = {1, 2}
  Ids <- MCIds
  NoNode = NoNode
  Projects <- MCProjects
  Anonymous = "anonymous"
  MaxDepth = 4
  MaxCycleDepth = 3
SPECIFICATION Spec
INVARIANTS
  FlagsExact
  ReportsExact
PROPERTY PipelineEnds
CHECK_DEADLOCK FALSE
