SPECIFICATION DSpec
CONSTANTS
  MaxRange = 10
  Reserved = 1
  PageElem = 2
  MaxTake = 2
  Words = {0, 5, 6, 7}
  Contexts = {0, 1}
  PAGESIZE = 2
  RODATA_BASE = 4
  RWDATA_BASE = 8
  BUF_PARA_BASE = 12
  BUF_PARA_END = 16
  MaxSize = 4
  MaxItems = 2
  CHUNK = 2
  ImageWords = {7}
  JunkWord = 6
  Types = {"READ_WRITE", "KERNEL_MEM"}
  Sizes = {3}
  ImageSizes = {1, 3}
  UploadFrom = {1}
INVARIANT PaddrAssigned
CHECK_DEADLOCK FALSE
