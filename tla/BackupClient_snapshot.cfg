SPECIFICATION Spec
CHECK_DEADLOCK FALSE
CONSTANTS
  a = a
  b = b
  Path = {p}
  Content = {e, a, b}
  e = e
  Empty = e
  MaxTime = 2
  MaxEdits = 2
  MaxFaults = 0
  Patient = TRUE
  Offline = FALSE
  None = None
SYMMETRY Contents
INVARIANT SnapshotKeyReleased
