CONSTANTS
  Sizes = {1, 5}
  Alignment = 2
  MinChunkSize = 4
  MaxChunkSize = 8
  MaxFence = 3
  MaxChunks = 3
SPECIFICATION Spec
INVARIANTS TypeOK UploadsDisjoint UploadsInBounds CapacityIsSum
PROPERTIES InitializationReleasesStaging
CHECK_DEADLOCK FALSE
