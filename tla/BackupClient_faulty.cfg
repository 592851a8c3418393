SPECIFICATION Spec
CONSTANTS
  a = a
  b = b
  Path = {p}
  Content = {e, a}
  e = e
  Empty = e
  MaxTime = 0
  MaxEdits = 0
  MaxFaults = 1
  Patient = FALSE
  Offline = TRUE
  None = None
INVARIANT TypeOK
INVARIANT ClientInv
INVARIANT OneJob
