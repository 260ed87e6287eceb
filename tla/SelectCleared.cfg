SPECIFICATION Spec
CONSTANTS
  t1 = t1
  t2 = t2
  w1 = w1
  w2 = w2
  NULL = NULL
  Listener = Listener
  Pipe = Pipe
  Fd = {5, 6}
  MaxData = 2
  FD_SETSIZE = 4
  SelectClients = 4
  ChatFd = {5, 6, 7}
  USER_LIMIT = 2
  ChatClients = 4
  MaxTexts = 1
  Workers = {w1, w2}
  EpollClients = 3
  Timers = {t1, t2}
  TIMESLOT = 1
INVARIANT SelectClosedCleared
CHECK_DEADLOCK FALSE
