SPECIFICATION Spec
CONSTANTS
  Obj = {o1, o2}
  MaxSize = 4
  MinCapacity = 2
  Padding = 1
  MayFail = TRUE
INVARIANTS
  FailureDiscards
