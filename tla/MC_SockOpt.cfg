CONSTANTS
  IntSize <- MC_IntSize
  BufLen <- MC_BufLen
  OptLens <- MC_OptLens
  Optvals = {"buf", "NULL"}
  ByteVals = {0, 1}

SPECIFICATION Spec

\* A faulted caller has stopped: the process took a memory fault.
CHECK_DEADLOCK FALSE

INVARIANT TypeOK
