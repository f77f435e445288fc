SPECIFICATION BusySpec
CONSTANTS
  Slots = 4
  Sources = {0, 1, 2, 3}
  PageElem = 2
  Memory <- TreeMemory
  RamPages = 2
  Blocks <- TwoBlocks
  Vpns = {1, 6}
  Roots = {0}
  PowerUp = {0}
  Refusing = TRUE
INVARIANT AnswersRight
