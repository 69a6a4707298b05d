SPECIFICATION Spec
CONSTANTS
  MaxWorkers = 2
  M = 8
  Ranges <- SmallRanges
INVARIANTS
  RunningIsExact
  NoLostWakeup
PROPERTIES
  ResetOnlyWhenQuiet
  RunReturns
  ResizeReturns
  ImplementsParallelRunner
