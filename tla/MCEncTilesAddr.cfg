\* What the API documents of a bitstream buffer that is too small, with tile
\* buffers that end just below a multiple of 2^32.
CONSTANTS
  Threads = 2
  MaxTiles = 3
  MaxFrames = 1
  LEN = 1
  Wrap = 32
  Frames <- MCHighFrames
SPECIFICATION Spec
INVARIANTS OverflowIsReported
