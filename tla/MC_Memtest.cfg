CONSTANTS
  N = 9
  Argvs <- MC_Argvs
  MallocMayFail = FALSE
  NULL = NULL
SPECIFICATION Spec
INVARIANT TypeOK NoFault HeapClean EnvTestsPass ArgvChecked
CHECK_DEADLOCK FALSE
