SPECIFICATION PoolSpec
CONSTANTS
  NullRequest = NullRequest
  Callers = {p1, p2}
  PoolThreads = {w1, w2}
  Requests = {r1, r2}
  MaxRequests = 1
  MaxInterrupts = 1
INVARIANTS
  PoolSafe
  Accounting
PROPERTIES
  EventuallyFinished
  AppendReturns
  ImplementsTaskQueue
CHECK_DEADLOCK FALSE
