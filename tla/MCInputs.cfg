\* Ten pictures, up to two options set by name before oapve_create; three
\* groups for two places of a container and three payloads.
CONSTANTS
  NoEncoder = NoEncoder
  Values <- MCValues
  Pictures <- MCPictures
  Edits <- MCEdits
  Cores = 8
  Threads = {0, 33}
  MaxParses = 2
  Formats <- MCFormats
  Groups = {0, 1, 65534}
  GroupIds = {0, 1, 2, 3}
  MaxGroupId = 2
  Payloads <- MCPayloads
  Batches <- MCBatches
  MaxMetas = 2
  MaxPlds = 3
  Cells = 8
SPECIFICATION InputsSpec
INVARIANTS TileGrid RateControlHasTarget LowestLevel FamilyFits HeadersReadBack
INVARIANTS ContainerIsSound ContainerReadsBack
PROPERTIES ImplementsMetaMap
