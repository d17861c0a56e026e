CONSTANTS
  LongSize = 2
  Indices <- MC_Indices
  Sizes <- MC_Sizes
SPECIFICATION Spec
INVARIANT TypeOK NoOverrun
PROPERTY AbstractSpec
