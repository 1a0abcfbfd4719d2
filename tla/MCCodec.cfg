\* Three calls, of one instance or of several; the caller need not make another.
CONSTANTS
  CodedUnits <- MCCodedUnits
  Pbus <- MCPbus
  Limits <- MCLimits
  MaxFrames = 2
  Frames <- MCFrames
  FrameUnits <- MCFrameUnits
  Rooms <- MCRooms
  Images <- MCImages
  Groups <- MCGroups
  Payloads <- MCPayloads
  HashSize = 34
  MaxFrms = 2
  MaxMetas = 2
  Threads = 3
  MaxCalls = 3
SPECIFICATION Spec
CHECK_DEADLOCK FALSE
INVARIANTS
  NothingStale
  RefsBalanced
  HashIsThePictures
  SuccessIsWholeUnit
  RcStaysWithSlot
  SizesLeadThrough
