\* What the header says of odd widths.
CONSTANTS
  NoEncoder = NoEncoder
  Values <- MCValues
  Pictures <- MCPictures
  Edits <- MCEdits
  Cores = 8
  Threads = {0, 33}
  MaxParses = 2
  Formats <- MCFormats
  Groups = {0, 1, 65534}
  GroupIds = {0, 1, 2, 3}
  MaxGroupId = 2
  Payloads <- MCPayloads
  Batches <- MCBatches
  MaxMetas = 2
  MaxPlds = 3
  Cells = 8
SPECIFICATION InputsSpec
INVARIANT OddWidthRefused
