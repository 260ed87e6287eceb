SPECIFICATION FairSpec
CONSTANTS
  p1 = p1
  p2 = p2
  Pids = {p1, p2}
  USER_LIMIT = 2
  MaxClients = 3
  MaxBacklog = 1
  MaxInputs = 2
INVARIANTS TablesAgree NeverOwnWords
PROPERTY TermStopsAll
CHECK_DEADLOCK FALSE
