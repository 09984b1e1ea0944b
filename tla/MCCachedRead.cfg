CONSTANTS
  Coord <- MCCoord
  ChunkInfo <- MCChunkInfo
  Listing <- MCListing
  Data <- MCData
  Size <- MCSize
  ByteBudgets = {3}
  SlotCounts = {0, 2}
  Directions = {"row_major"}
  CounterLimit = 30
  None = None
  Threads = {t1, t2}
  Datasets = {"d1", "d3", "d4", "d5"}
  OneDataset = TRUE
  Grid <- MCGrid
  Scan <- MCScan
  Decode <- MCDecode
  Zeros = Zeros
  Damaged = Damaged
  NoAnswer = NoAnswer
  MaxCalls = 3
SPECIFICATION FairSpec
INVARIANTS
  WithinLimits
  OneSlotPerCoord
  OnlyZeroSlotsPoison
  CacheIsCoherent
PROPERTIES
  EvictsLeastRecent
  ReadsEnd
  ReadsAreIndependent
CHECK_DEADLOCK FALSE
