SPECIFICATION SMSpec
CONSTANTS
  MaxRange = 9
  Reserved = 1
  PageElem = 2
  MaxTake = 2
  Words = {0, 5, 6, 7, 8}
  Contexts = {0, 1}
  PAGESIZE = 2
  RODATA_BASE = 4
  RWDATA_BASE = 8
  BUF_PARA_BASE = 12
  BUF_PARA_END = 16
  MaxSize = 4
  MaxItems = 2
  CHUNK = 2
  ImageWords = {7, 8}
  JunkWord = 6
  Types = {"READ_WRITE", "KERNEL_MEM"}
  Sizes = {3}
  ImageSizes = {2, 3}
  UploadFrom = {1}
  AccessAt = {1, 2}
INVARIANTS
  SMTypeOK
  BuffersReachable
  LatchRight
  NoStaleLeaf
  ProgramAtPc
PROPERTY ImplementsBuffers
VIEW Machine
CHECK_DEADLOCK FALSE
