SPECIFICATION KernelLastSpec
CONSTANTS
  Contexts = {c0}
  PAGESIZE = 2
  RODATA_BASE = 6
  RWDATA_BASE = 12
  BUF_PARA_BASE = 18
  BUF_PARA_END = 24
  MaxSize = 6
  MaxItems = 6
INVARIANTS
  AMTypeOK
  GrantsInSegment
  GrantsOnOwnPages
  ListHoldsGrants
  RefusedOnlyWhenFull
