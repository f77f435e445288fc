SPECIFICATION KDSpec
CONSTANTS
  Tasks = {0, 1}
  Kernels = {0, 1}
  MaxBlocks = 2
  MaxRuns = 3
  RUN_DELAY = 1
  MaxRounds = 2
  MaxCycles = 2
  Capacity = 2
  EagerReady = TRUE
INVARIANT SingleBlock
