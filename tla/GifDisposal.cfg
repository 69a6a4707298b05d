SPECIFICATION Spec
CONSTANTS
  Width = 2
  Height = 2
  Kinds = {TRUE}
  AnyDisposal = TRUE
CHECK_DEADLOCK FALSE
INVARIANTS
  LayersShowCanvas
