SPECIFICATION FairSyncSpec
CONSTANTS
  Targets = {t1, t2}
  Domain = d
  MaxEntries = 2
  MaxFound = 2
INVARIANTS
  PendingUntilDone
  AddressesOwned
  OkIsComplete
  MxInOrder
  MemoryMatchesStage
PROPERTIES
  CopiesInOrder
  Returns
CHECK_DEADLOCK FALSE
