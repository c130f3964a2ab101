SPECIFICATION FairSpec
CONSTANTS
  Queries = {q1, q2}
  Servers = 2
  FamilyOf <- OneFamily
  Retry = 1
  Suffixes = 1
  IdSpace = 3
  MaxSubmits = 2
  CancelIn = {"udp"}
  ForgetsFailed = FALSE
INVARIANTS
  PendingIsScheduled
  GivesUpAfterAllTurns
PROPERTIES
  CallsBackOnce
  Ends
CHECK_DEADLOCK FALSE
