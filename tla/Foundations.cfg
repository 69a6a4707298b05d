SPECIFICATION Spec
CONSTANTS
  M = 8
  Ranges <- SequentialRanges
  InitCode = 5
  Thread = {1, 2}
  Sizes = {1, 3}
  Bases = {0, 7}
  kAlignment = 4
  kAlias = 8
  Header = 6
  Offsets = 4
  MaxBlocks = 2
  Handles = {1, 2}
  Opaques = {"one", "other"}
  Obj = {1, 2}
  MaxSize = 3
  MinCapacity = 1
  Padding = 1
  RowThread = {0, 1}
  Rows = 3
  Spaces = {"709", "2020"}
  Curves = {"Linear", "SRGB", "PQ", "HLG", "709", "Unknown"}
  Requests <- RequestsMade
  NumThreads = 2
  HostLittle = TRUE
  Junk <- AllOnes
  Payloads <- PayloadsWritten
  Spans <- SpansAppended
  Allotments = {20, 60}
  MaxWritten = 70
  MaxBytes = 11
  MaxNest = 2
  Inputs <- InputsRead
  ReadLengths = {7, 56}
  SkipLengths = {13, 77}
  MaxOver = 30
INVARIANTS
  SuccessIsComplete
  AllocatorSound
  HoldsVector
  ConversionExact
  RowsDelivered
  WriterExact
  ReaderExact
  BundleRoundTrip
  FilterExact
  ImagesExact
