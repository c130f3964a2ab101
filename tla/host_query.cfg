SPECIFICATION FairSpec
CONSTANTS
  Names = {n1, n2, n3}
  Domain = n1
  Wanted <- BothFamilies
  MaxCnameDepth = 1
  MaxRecords = 2
INVARIANTS CodeMatchesRcode AsksEveryType ChaseIsRight
PROPERTIES KeepsPromise KeepsAddresses
CHECK_DEADLOCK FALSE
