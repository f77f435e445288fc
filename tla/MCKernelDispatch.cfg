SPECIFICATION KDFairSpec
CONSTANTS
  Tasks = {0, 1}
  Kernels = {0, 1}
  MaxBlocks = 2
  MaxRuns = 3
  MaxCycles = 2
  RUN_DELAY = 1
  MaxRounds = 2
  Capacity = 2
  EagerReady = FALSE
INVARIANTS
  KDTypeOK
  SingleBlock
  ReturnedMeansAccepted
  CompletionsCounted
  ReportsMatch
PROPERTIES
  CallsReturn
  ExecuteReturns
