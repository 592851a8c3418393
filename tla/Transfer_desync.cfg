SPECIFICATION Spec
CHECK_DEADLOCK FALSE
CONSTANTS
  Buff = 2
  Window = 3
  MaxInt = 3
  MaxSize = 9
  MaxList = 3
  Short = TRUE
  OpenFails = TRUE
  CloseFails = TRUE
  Beyond = TRUE
INVARIANT AnswerFits
