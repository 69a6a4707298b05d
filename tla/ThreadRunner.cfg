SPECIFICATION Spec
CONSTANTS
  NumWorkers = 2
  M = 24
  Ranges <- SomeRanges
  MaxDepth = 2
INVARIANTS
  IInv
  ReturnsComplete
  CalledOnceInRange
  NoLostBarrierWakeup
PROPERTIES
  StableUnderWorkers
  RunReturns
  DestroyCompletes
  ImplementsParallelRunner
