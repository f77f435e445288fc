SPECIFICATION PMSpec
CONSTANTS
  MaxRange = 6
  Reserved = 1
  PageElem = 1
  MaxTake = 3
  Words = {0, 1}
INVARIANTS
  PMTypeOK
  BlocksOrdered
  PagesBacked
  UsableInsertable
  UsableIsFirstFit
PROPERTY FreshOrKept
CHECK_DEADLOCK FALSE
