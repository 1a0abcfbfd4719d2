\* Both programs end.
SPECIFICATION AppsSpec
CHECK_DEADLOCK FALSE
CONSTANTS
  NoFile = NoFile
  NaN = NaN
  NoKey = NoKey
  MaxW = 3
  MaxFrames = 2
  Ext <- MCNames
  Configs <- MCFiles
  EncRuns <- MCEncRuns
  DecRuns <- MCDecRuns
  AfterEnc <- MCAfterEnc
INVARIANTS
  CodedInOrder
  WrittenIsDecoded
  SuccessIsWhole
  EverythingReleased
  LabelsAreTrue
  VerdictIsThisUnits
