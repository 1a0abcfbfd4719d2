\* Writer, reader and coefficient code, each over a buffer longer than its
\* register.
CONSTANTS
  WriterSize = 11
  HlsLens = {8, 32}
  CodeLens = {21, 64}
  MaxBits = 130
  ReaderSize = 19
  ElementLens = {3, 8, 20, 32}
  SuffixLens = {1, 5, 12}
  BlkD = 11
  Dcs <- MCDcs
  Acs <- MCAcs
  MaxTx = 32767
SPECIFICATION BitsSpec
INVARIANTS BitsInOrder CoefOverflowSticks EndIsTrue RoundTrip CutIsNoticed RateIsLength
PROPERTIES NextBits
