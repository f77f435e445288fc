SPECIFICATION VMSpec
CONSTANTS
  MaxRange = 9
  Reserved = 1
  PageElem = 2
  MaxTake = 2
  Words = {0, 5}
  Starts = {3}
  MaxRoots = 2
  WriteFrom = {0, 1}
  MaxLive = 2
INVARIANTS
  VMTypeOK
  TablesPrivate
  LiveBlocksMapped
  OnlyUsedMapped
  FrameKept
CHECK_DEADLOCK FALSE
