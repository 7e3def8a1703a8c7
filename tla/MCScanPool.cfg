CONSTANTS
  NumFiles = 3
  NumWorkers = 2
  NumDetectors = 2
SPECIFICATION PoolSpec
INVARIANTS
  NothingLost
  SendNeverPanicsNorBlocks
  GraphKept
PROPERTIES
  PromiseKept
