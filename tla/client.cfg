SPECIFICATION Spec
CONSTANTS
  MaxSignIns = 2
  MaxVersion = 2
  MAX_RETRIES = 2
INVARIANTS TypeOK OwnData OwnChangeIsSeen
PROPERTIES PolledCatchesUp
CHECK_DEADLOCK FALSE
