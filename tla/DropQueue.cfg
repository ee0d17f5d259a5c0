SPECIFICATION Spec
CONSTANTS
  Publishers = {p1, p2, p3}
  Receivers = {r1, r2}
  Capacity = 2
  MaxDropped = 3
SYMMETRY Threads
INVARIANTS DepthAccounted ReservedFits
CHECK_DEADLOCK FALSE
