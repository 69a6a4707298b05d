SPECIFICATION Spec
CONSTANTS
  CanvasWidth = 2
  CanvasHeight = 2
  MaxPngChunks = 8
  MaxColorChunks = 4
  Sizes = {0, 1, 2}
CHECK_DEADLOCK FALSE
INVARIANTS
  FramesShowPicture
  LayersShowCanvas
  ChunksUnderstood
  LoadedIsTheFile
  MetadataExact
  DecodedExactly
  FilesReadBack
