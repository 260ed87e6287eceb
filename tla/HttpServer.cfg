SPECIFICATION FairSpec
CONSTANTS
  w1 = w1
  w2 = w2
  Fd = {5, 6}
  Workers = {w1, w2}
  Capacity = 1
  MAX_FD = 2
  MaxClients = 3
  MaxSends = 2
  MaxStalls = 1
  NULL = NULL
  Listener = Listener
INVARIANTS
  SessionsHeld
  CountExact
PROPERTY RequestRead
CHECK_DEADLOCK FALSE
