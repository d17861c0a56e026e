CONSTANTS
  N = 3
  CreateMayFail = TRUE
  MaxSpurious = 1
SPECIFICATION Spec
\* main returns and its threads end: a finished program has no next step.
CHECK_DEADLOCK FALSE
INVARIANT NoDanglingData
