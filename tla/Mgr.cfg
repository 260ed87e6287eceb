SPECIFICATION Spec
CONSTANTS
  c1 = c1
  c2 = c2
  Conns = {c1, c2}
  Fd = {3, 4, 5, 6}
  NULL = NULL
  Absent = Absent
  NoFd = NoFd
  MaxBatch = 3
SYMMETRY MCSymmetry
INVARIANTS
  DispatchedToOwner
  ConnectionsAccounted
  LoadReported
CHECK_DEADLOCK FALSE
