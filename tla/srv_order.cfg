SPECIFICATION Spec
CONSTANTS
  MaxRecords = 3
  Priorities = {0, 1, 2}
  Weights = {0, 1, 2}
  RandBits = 5
  FloatBits = 4
INVARIANTS NothingLost WeightGivesChance RightWhenDescending
PROPERTY ChoiceInBlock
CHECK_DEADLOCK FALSE
