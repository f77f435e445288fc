SPECIFICATION MMUFairSpec
CONSTANTS
  Slots = 2
  Sources = {1, 2}
  PageElem = 2
  Memory <- TablesMemory
  RamPages = 9
  Blocks <- TwoBlocks
  Vpns = {1, 6, 7}
  Roots = {1}
  PowerUp = {0, 1}
  Refusing = TRUE
INVARIANTS
  MMUTypeOK
  OneWalkEach
  MemoryMatched
PROPERTIES
  TranslatesLikeDriver
  RequestsTranslated
