SPECIFICATION Spec
CONSTANTS
  Queries = {q1, q2}
  Servers = 1
  FamilyOf <- OneFamily
  Retry = 0
  Suffixes = 0
  IdSpace = 4
  MaxSubmits = 2
  CancelIn = {"udp", "finishing"}
  ForgetsFailed = FALSE
INVARIANT NoCallbackAfterDelete
CHECK_DEADLOCK FALSE
