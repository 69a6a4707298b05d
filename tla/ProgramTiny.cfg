SPECIFICATION Spec
CONSTANTS
  NumScales = 6
  MinSide = 8
  Unused = Unused
  Pictures <- WithTinyFrame
  Backgrounds = {"0.3"}
  MaxCalls = 1
CHECK_DEADLOCK FALSE
INVARIANT MinimumSizeEnforced
