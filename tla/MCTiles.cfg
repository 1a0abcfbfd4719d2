\* Safety, refinement and liveness: three threads, up to three tiles, two
\* frames or calls.
CONSTANTS
  Threads = 3
  MaxTiles = 3
  LEN = 1
  Wrap = 32
  MaxCalls = 2
  WholeFrames <- MCWholeFrames
  ChosenFrames <- MCChosenFrames
  Pictures <- MCPictures
SPECIFICATION Spec
INVARIANTS DecodedInBounds SuccessIsWholeFrame SuccessIsCoded CostsAreThisFrames
PROPERTIES StartIsFinal ImplementsTileWork CallsReturn
