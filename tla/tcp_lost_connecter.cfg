SPECIFICATION Spec
CONSTANTS
  Queries = {q1, q2}
  Servers = 1
  Retry = 0
  Suffixes = 0
  MaxSubmits = 2
  HeadLen = 2
  BodyLen = 1
INVARIANT ConnectersMonitored
CHECK_DEADLOCK FALSE
