SPECIFICATION FairSpec
CONSTANTS
  N = 2
  ConnCnt = 1
  MaxClients = 2
  MaxCrashes = 1
  MaxTerms = 1
INVARIANTS
  BacklogAccounted
  NeverUnderestimated
PROPERTY TermStopsAll
CHECK_DEADLOCK FALSE
