SPECIFICATION Spec
CONSTANTS
  t1 = t1
  t2 = t2
  t3 = t3
  t4 = t4
  NULL = NULL
  Timers = {t1, t2, t3, t4}
  MaxTime = 3
  N = 3
  TI = 2
  MaxTimeout = 13
  Cap = {1, 4}
SYMMETRY MCSymmetry
PROPERTIES
  ListImplementsTimerSet
  WheelImplementsTimerSet
  HeapImplementsTimerSet
CHECK_DEADLOCK FALSE
