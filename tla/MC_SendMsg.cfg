CONSTANTS
  WordSize <- MC_WordSize
  HdrSize <- MC_HdrSize
  IntSize <- MC_IntSize
  MaxFds <- MC_MaxFds
  MaxCtl <- MC_MaxCtl
  LenVals <- MC_LenVals
  PadVals <- MC_PadVals
  LP64 = TRUE
  NULL = NULL

SPECIFICATION Spec

INVARIANT TypeOK
INVARIANT WalkInBounds
INVARIANT PayloadRecordsZeroed
PROPERTY Termination
PROPERTY AbstractSpec
