SPECIFICATION FairSpec
CONSTANTS
  Queries = {q1}
  Servers = 2
  Retry = 0
  Suffixes = 0
  MaxSubmits = 2
  HeadLen = 2
  BodyLen = 1
PROPERTY Ends
CHECK_DEADLOCK FALSE
