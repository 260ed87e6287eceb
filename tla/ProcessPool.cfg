SPECIFICATION GenericSpec
CONSTANTS
  PROCESS_COUNT = 3
  MaxConnects = 2
  MaxDeaths = 1
  MaxStops = 1
INVARIANT EvenlySpread
PROPERTY GenericTermStopsAll
CHECK_DEADLOCK FALSE
