CONSTANTS
  Styles <- MCStyles
  Critical = {"setOwner", "transferOwnership"}
  GuardScanDepth = 4
  InitWindow = 2
SPECIFICATION DetectorsSpec
CHECK_DEADLOCK FALSE
INVARIANTS
  ReadingIsRight
  FunctionsForAReason
  ResultsForAReason
  UpgradesForAReason
