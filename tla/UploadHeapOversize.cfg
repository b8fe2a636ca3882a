CONSTANTS
  Sizes = {4, 9}
  Alignment = 2
  MinChunkSize = 4
  MaxChunkSize = 8
  MaxFence = 2
  MaxChunks = 2
SPECIFICATION Spec
INVARIANTS UploadsInBounds
CHECK_DEADLOCK FALSE
