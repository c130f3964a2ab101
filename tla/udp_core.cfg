SPECIFICATION Spec
CONSTANTS
  Queries = {q1, q2, q3}
  Servers = 2
  FamilyOf <- TwoFamilies
  Retry = 0
  Suffixes = 0
  IdSpace = 4
  MaxSubmits = 3
  CancelIn = {"udp", "tcp_other"}
  ForgetsFailed = FALSE
SYMMETRY Permuted
INVARIANTS
  MonitorsMatchWaiters
  TimersMatchWaits
  ListIndexed
  AnswersItsOwnRequest
CHECK_DEADLOCK FALSE
