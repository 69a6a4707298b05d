SPECIFICATION Spec
CONSTANTS
  Whites <- WhitesSet
  PrimarySets <- PrimariesSet
  Gammas = {1000, 4545455, 3846100, 9999900}
  TransferFunctions = {"SRGB", "Linear", "PQ", "Unknown"}
  Intents = {"Rel", "Per"}
  Profiles <- ProfilesRead
  Externals <- ExternalsGiven
  Streams <- StreamsRead
  MaxOps = 3
  Lines <- LinesRead
  TextLengths = {7, 18, 19, 40}
  CopyrightLength = 13
  CurveEntries = 16
  Extents <- ExtentsSet
  Depths = {1, 8, 12, 16, 32}
  Types = {"Alpha", "Black", "CFA", "Unknown"}
  Orientations = {1, 6, 8}
  Targets = {0, 255, 4001, 10000, 70000}
  MaxCalls = 3
CHECK_DEADLOCK FALSE
INVARIANTS ProfileDescribesFields EncodingReadsBack HeaderReadsBack
