SPECIFICATION Spec
CONSTANTS
  MaxRecords = 2
  Priorities = {0, 1}
  Weights = {0, 1}
  RandBits = 5
  FloatBits = 4
INVARIANT SortedByPriority
CHECK_DEADLOCK FALSE
