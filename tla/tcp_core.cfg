SPECIFICATION Spec
CONSTANTS
  Queries = {q1, q2}
  Servers = 2
  Retry = 0
  Suffixes = 0
  MaxSubmits = 2
  HeadLen = 2
  BodyLen = 1
SYMMETRY Permuted
INVARIANTS
  CountsMatchWaiters
  WaitsOnOpenSocket
  PendingIsScheduled
  WaitersMonitored
  WholeAnswers
PROPERTY MovesAsAssumed
CHECK_DEADLOCK FALSE
