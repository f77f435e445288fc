SPECIFICATION VMSpec
CONSTANTS
  MaxRange = 8
  Reserved = 1
  PageElem = 2
  MaxTake = 2
  Words = {0, 5}
  Starts = {2, 3, 5}
  MaxRoots = 1
  WriteFrom = {1}
  MaxLive = 3
INVARIANT NothingLeaks
PROPERTY AllocateContained
CHECK_DEADLOCK FALSE
