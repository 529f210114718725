SPECIFICATION Spec

CONSTANTS
  p1 = p1
  p2 = p2
  None = None
  Empty = Empty
  Torn = Torn

  Procs = {p1, p2}
  Shared = {1}
  MaxTime = 1

INVARIANTS
  TypeOK
  AckedStored
  AckedWhole

SYMMETRY Symmetry

CHECK_DEADLOCK FALSE
