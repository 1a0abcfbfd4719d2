\* The same buffer, written as headers and metadata are: what the comments at
\* the callers say of sink.
CONSTANTS
  Size = 11
  HlsLens = {8, 32}
  CoefLens = {}
  MaxBits = 130
SPECIFICATION Spec
INVARIANTS SinkMeansWritten
