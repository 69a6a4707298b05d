SPECIFICATION Spec
CONSTANTS
  NumScales = 6
  MinSide = 8
  Unused = Unused
  Pictures <- AllPictures
  Backgrounds = {"0.3"}
  MaxCalls = 2
CHECK_DEADLOCK FALSE
INVARIANTS
  ScalesExact
  AbortsOnlyOnMismatch
  EntryPointsAgree
  ScoreComparesEqualFrames
  FullScoreFromThreshold
  PassesDifferInBackgroundOnly
