SPECIFICATION FairSpec
CONSTANTS
  Sizes <- ThreeReleases
  Platforms = {"linux-x86_64-deb", "appimage"}
  ChunkSizes = {0, 1, 2, 3}
  MaxChunk = 2
  MaxSize = 5
  W = 16
  ErrorSizes = {1, 3}
  MaxFault = 2
INVARIANTS
  TypeOK
  Intact
PROPERTIES
  LatestInstalled
CHECK_DEADLOCK FALSE
