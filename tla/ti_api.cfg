SPECIFICATION Spec
CONSTANTS
  Handles = {h1, h2}
  Queries = {q1, q2}
  IdSpace = 3
  MaxIds = 5
INVARIANTS
  NoDangling
  NothingLost
CHECK_DEADLOCK FALSE
