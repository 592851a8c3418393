SPECIFICATION FairSpec
CHECK_DEADLOCK FALSE
CONSTANTS
  Buff = 2
  Window = 4
  MaxInt = 7
  MaxSize = 17
  MaxList = 6
  Short = TRUE
  OpenFails = TRUE
  CloseFails = TRUE
  Beyond = FALSE
INVARIANT TypeOK
INVARIANT TransferInv
INVARIANT WholeInv
INVARIANT InStep
INVARIANT SameCount
INVARIANT Whole
INVARIANT WaitsForAReason
PROPERTY RequestsEnd
